-------------------------------- MODULE Upload --------------------------------
(***************************************************************************)
(* Uploads to the media server: DmsIntegration.c keeps a table of accepted *)
(* uploads, DlnaHttpServer.c saves the body of a POST to a temporary file. *)
(* CreateObject accepts an upload: it makes an empty temporary file and an *)
(* entry of the table, and sets a timer of 30 s in case no POST comes.  A  *)
(* POST starts a transfer; each part of its body is written by a thread of *)
(* the pool while the connection is paused.  After the last part the       *)
(* callback _DMS_WebServerHandler_OnContentUploadDone renames the file; if *)
(* the connection ends first, the microstack thread calls it.              *)
(*                                                                         *)
(* CreateObject, DestroyObject and the writing run on threads of the pool, *)
(* each beside the others and beside the microstack thread, which does the *)
(* rest.  The table has a lock, files and transfers have none: a step is   *)
(* what a thread does under the lock, or one access to a file.  Any number *)
(* of threads may create or destroy one name.  A connection carries one    *)
(* POST, of a client that resumes an upload with the range that is         *)
(* missing.  Left out: the formats, update IDs, folders, the references on *)
(* the session (WebServer) and the stop of the server.                     *)
(***************************************************************************)
EXTENDS Integers

CONSTANTS
  Name,        \* what may be uploaded: an object ID, the upload ID and the path it stands for
  Connection,  \* connections of clients, each with one POST
  MaxRequests, \* bound: uploads accepted
  Resumable    \* the uploads of them a client may resume

Request == 1 .. MaxRequests         \* struct DMS_UploadRequestObj
NoRequest == 0
NoConnection == "none"

ASSUME UploadAssumption ==
  /\ MaxRequests \in Nat /\ Resumable \subseteq Request
  /\ NoConnection \notin Connection /\ Connection \cap (Request \cup {NoRequest}) = {}

Created == [by : Request]           \* a file CreateObject made,
Posted == [by : Connection]         \* one a POST made, in place of a file that was deleted
File == Created \cup Posted
NoFile == [by |-> NoRequest]

VARIABLES
  temp, media,    \* the file of a name with extension .tmp and without
  size,           \* what a file holds of its body: nothing, a part, the whole
  cut,            \* connections that lost what they had written to their file
  UploadRequests, \* the table, with the request of a name
  made,           \* requests so far, with
  name,           \* of the requests, known from the first
  TransferStatus, \* the transfer of a request, which may have ended
  freed,          \* requests freed
  timers,         \* requests whose timer of 30 s is pending
  create,         \* where CreateObject is with a request, on a thread of the pool
  destroying,     \* names whose temporary file some thread is about to delete
  conn,           \* where a connection is
  User3,          \* connections whose session has transfer data
  request, file,  \* the request and the file of a transfer
  done,           \* connections whose body was received as a whole
  pool,           \* where the pool is with the data of a connection
  pc, cur, entry, \* where the microstack thread is, with which connection and request
  locked,         \* has the microstack thread the lock of the table?
  calls,          \* history: callbacks made by a transfer, which is then freed
  stale,          \* history: connections whose callback read a request that was freed
  disturbed       \* history: connections the promises leave out, see TransfersEndOnce

files == <<temp, media, size, cut>>
requests == <<made, name>>
table == <<UploadRequests, TransferStatus, freed>>
actions == <<create, destroying>>
transfers == <<User3, request, file, done>>
thread == <<pc, cur, entry, locked>>
history == <<calls, stale, disturbed>>
vars == <<files, requests, table, timers, actions, transfers, conn, pool, thread, history>>

Init ==
  /\ temp = [n \in Name |-> NoFile] /\ media = [n \in Name |-> NoFile]
  /\ size = [f \in File \cup {NoFile} |-> "empty"] /\ cut = {}
  /\ UploadRequests = [n \in Name |-> NoRequest]
  /\ made = 0 /\ name \in [Request -> Name]
  /\ TransferStatus = [r \in Request |-> NoConnection]
  /\ freed = {} /\ timers = {}
  /\ create = [r \in Request |-> "idle"] /\ destroying = {}
  /\ conn = [c \in Connection |-> "new"] /\ User3 = {} /\ done = {}
  /\ request = [c \in Connection |-> NoRequest] /\ file = [c \in Connection |-> NoFile]
  /\ pool = [c \in Connection |-> "idle"]
  /\ pc = "ready" /\ cur = NoConnection /\ entry = NoRequest /\ locked = FALSE
  /\ calls = [c \in Connection |-> 0]
  /\ stale = {} /\ disturbed = {}

RemoveEntry(n) ==
  /\ freed' = freed \cup {UploadRequests[n]}
  /\ TransferStatus' = [TransferStatus EXCEPT ![UploadRequests[n]] = NoConnection]
  /\ UploadRequests' = [UploadRequests EXCEPT ![n] = NoRequest]

NotStarted(n) ==
  UploadRequests[n] # NoRequest /\ TransferStatus[UploadRequests[n]] = NoConnection

Ready == pc = "ready"
InTable(r) == r \in 1 .. made /\ UploadRequests[name[r]] = r
Empty(n) == size[temp[n]] = "empty"   \* ILibFileDir_GetFileSize is not positive

(* fopen "wb" makes the file or, where there is one, empties it: who has it  *)
(* open goes on behind what is lost.                                        *)
Overwrite(n, f) ==
  /\ temp' = IF temp[n] = NoFile THEN [temp EXCEPT ![n] = f] ELSE temp
  /\ size' = [size EXCEPT ![temp'[n]] = "empty"]
  /\ cut' = cut \cup {c \in Connection : file[c] = temp[n] /\ ~Empty(n)}

(* The transfers of a name that have a callback to make.                    *)
Under(n) ==
  {c \in Connection : /\ request[c] # NoRequest /\ name[request[c]] = n
                      /\ calls[c] = 0 \/ pool[c] # "idle"}
-----------------------------------------------------------------------------
(* CreateObject and DestroyObject, each on a thread of the pool             *)

At(r, step, next) ==
  /\ create[r] = step /\ create' = [create EXCEPT ![r] = next]
  /\ UNCHANGED <<requests, destroying, transfers, conn, pool, thread, history>>

(* FSE_HandleCreateObject: refused while there is a temporary file, ...     *)
CreateObject(n) ==
  LET r == made + 1 IN
  /\ made < MaxRequests /\ name[r] = n
  /\ temp[n] = NoFile
  /\ made' = r /\ UNCHANGED name
  /\ create' = [create EXCEPT ![r] = "delete"]
  /\ UNCHANGED <<files, table, timers, destroying, transfers, conn, pool, thread, history>>

(* ... else the medium that is uploaded anew is deleted.                    *)
DeleteMedia(r) ==
  /\ At(r, "delete", "open")
  /\ media' = [media EXCEPT ![name[r]] = NoFile]
  /\ UNCHANGED <<temp, size, cut, table, timers>>

(* _DMS_MsaHandler_OnCreateObjectAndUpload makes the file, whether there is *)
(* one by now or not, and answers; ...                                      *)
CreateFile(r) ==
  /\ At(r, "open", "add")
  /\ Overwrite(name[r], [by |-> r])
  /\ UNCHANGED <<media, table, timers>>

(* ... the request is put into the table, where it overwrites the entry of  *)
(* another, ...                                                             *)
AddEntry(r) ==
  /\ ~locked
  /\ At(r, "add", "time")
  /\ UploadRequests' = [UploadRequests EXCEPT ![name[r]] = r]
  /\ UNCHANGED <<files, TransferStatus, freed, timers>>

(* A faulty AddTimer that sets none.                                        *)
AddTimerForgotten(r) == At(r, "time", "idle") /\ UNCHANGED <<files, table, timers>>

(* ... and gets its timer.  The name is read from the request, which others *)
(* may have freed: it is still there or it is no name of an upload.         *)
AddTimer(r) ==
  /\ At(r, "time", "idle")
  /\ \/ timers' = timers \cup {r}
     \/ r \in freed /\ UNCHANGED timers
  /\ UNCHANGED <<files, table>>

(* FSE_HandleDestroyObject deletes the media file, then the temporary one,  *)
(* and leaves the table alone.                                              *)
DestroyObject(n) ==
  /\ media' = [media EXCEPT ![n] = NoFile]
  /\ destroying' = destroying \cup {n}
  /\ UNCHANGED <<temp, size, cut, requests, table, timers, create, transfers, conn, pool, thread,
                 history>>

(* Other threads may still be at it.                                        *)
DestroyTemp(n) ==
  /\ n \in destroying
  /\ temp' = [temp EXCEPT ![n] = NoFile]
  /\ destroying' \in {destroying, destroying \ {n}}
  /\ UNCHANGED <<media, size, cut, requests, table, timers, create, transfers, conn, pool, thread,
                 history>>
-----------------------------------------------------------------------------
(* _DMS_UploadRequestExpired: the timer names the upload, not the request.  *)
Expired(r) ==
  /\ Ready /\ r \in timers
  /\ timers' = timers \ {r}
  /\ IF NotStarted(name[r])
     THEN RemoveEntry(name[r]) /\ temp' = [temp EXCEPT ![name[r]] = NoFile]
     ELSE UNCHANGED <<temp, table>>
  /\ UNCHANGED <<media, size, cut, requests, actions, transfers, conn, pool, thread, history>>
-----------------------------------------------------------------------------
(* A POST: _DMS_WebServerHandler_OnContentUpload, under the lock            *)

(* A file that is empty or gone will be made anew.                          *)
OnContentUpload(c, n) ==
  /\ Ready /\ conn[c] = "new" /\ UploadRequests[n] # NoRequest
  /\ pc' = IF Empty(n) THEN "overwrite" ELSE "append"
  /\ cur' = c /\ entry' = UploadRequests[n] /\ locked' = TRUE
  /\ UNCHANGED <<files, requests, table, timers, actions, transfers, conn, pool, history>>

(* DHS_SavePostToLocalFile returns the transfer, or none, for the entry.    *)
Posting(c, transfer) ==
  /\ pc \in {"overwrite", "append"} /\ cur = c
  /\ TransferStatus' = [TransferStatus EXCEPT ![entry] = transfer]
  /\ pc' = "ready" /\ cur' = NoConnection /\ entry' = NoRequest /\ locked' = FALSE

(* The file is opened and the data of the transfer bound to the session.    *)
Register(c) ==
  LET n == name[entry] IN
  /\ \/ pc = "overwrite" /\ Overwrite(n, [by |-> c])
     \/ pc = "append" /\ temp[n] # NoFile /\ UNCHANGED <<temp, size, cut>>
  /\ User3' = User3 \cup {c}
  /\ request' = [request EXCEPT ![c] = entry]
  /\ file' = [file EXCEPT ![c] = temp'[n]]
  /\ disturbed' = disturbed \cup IF Under(n) = {} THEN {} ELSE Under(n) \cup {c}
  /\ UNCHANGED <<media, requests, UploadRequests, freed, timers, actions, calls, stale>>

(* The body follows, or all of it is there and left to the pool.            *)
Post(c) ==
  /\ Posting(c, c)
  /\ Register(c)
  /\ \/ conn' = [conn EXCEPT ![c] = "body"] /\ UNCHANGED <<pool, done>>
     \/ /\ conn' = [conn EXCEPT ![c] = "paused"] /\ pool' = [pool EXCEPT ![c] = "write"]
        /\ done' = done \cup {c}

(* 406, or 404 for a file that cannot be opened, before there is a transfer.*)
NotAcceptable(c) ==
  /\ Posting(c, NoConnection)
  /\ pc = "overwrite" \/ temp[name[entry]] = NoFile
  /\ conn' = [conn EXCEPT ![c] = "refused"]
  /\ disturbed' = disturbed \cup Under(name[entry])
  /\ UNCHANGED <<files, requests, UploadRequests, freed, timers, actions, transfers, pool, calls,
                 stale>>

(* 417: an expectation nobody knows is refused after the transfer has been  *)
(* bound, and the caller is told that there is none.                        *)
ExpectationFailed(c) ==
  /\ Posting(c, NoConnection)
  /\ Register(c)
  /\ conn' = [conn EXCEPT ![c] = "refused"]
  /\ UNCHANGED <<done, pool>>

(* 400 or 409: the range is not the one that is missing.  Unless the client *)
(* waits for the answer the socket is closed at once, under the lock.       *)
Conflict(c) ==
  /\ pc = "append" /\ Register(c)
  /\ \/ Posting(c, NoConnection) /\ conn' = [conn EXCEPT ![c] = "refused"]
     \/ /\ cur = c /\ pc' = "enter" /\ conn' = [conn EXCEPT ![c] = "closed"]
        /\ UNCHANGED <<TransferStatus, cur, entry, locked>>
  /\ UNCHANGED <<done, pool>>

(* DHS_OnReceive_SavePostToLocalFile: the next part of the body, or the     *)
(* last one, is left to the pool and the connection paused.                 *)
Receive(c) ==
  /\ Ready /\ conn[c] = "body"
  /\ conn' = [conn EXCEPT ![c] = "paused"]
  /\ pool' = [pool EXCEPT ![c] = "write"]
  /\ done' \in {done, done \cup {c}}
  /\ UNCHANGED <<files, requests, table, timers, actions, User3, request, file, thread, history>>
-----------------------------------------------------------------------------
(* The end of a transfer, by its callback and by either thread              *)

(* _DMS_WebServerHandler_OnContentUploadDone under the lock of the table:   *)
(* the request with the name of the transfer, if there still is one, is     *)
(* finished, or given up unless the client may resume it.                   *)
Finished(n) ==
  /\ RemoveEntry(n)
  /\ temp' = [temp EXCEPT ![n] = NoFile]
  /\ media' \in {media} \cup
       IF temp[n] = NoFile THEN {} ELSE {[media EXCEPT ![n] = temp[n]]}

(* Faulty variants: the error is not looked at, the file is not deleted.    *)
AbortedIsFinished(n) == Finished(n)

AbortedKeepsFile(n) ==
  /\ UNCHANGED <<media, temp>>
  /\ \/ UploadRequests[n] \notin Resumable /\ RemoveEntry(n)
     \/ UploadRequests[n] \in Resumable /\ UNCHANGED table

Aborted(n) ==
  /\ UNCHANGED media
  /\ \/ UploadRequests[n] \notin Resumable /\ RemoveEntry(n) /\ temp' = [temp EXCEPT ![n] = NoFile]
     \/ UploadRequests[n] \in Resumable /\ UNCHANGED <<table, temp>>

(* The name is read from the request of the transfer: one that was freed    *)
(* may still be known by it or by none.                                     *)
OnContentUploadDone(c, error) ==
  LET n == name[request[c]] IN
  /\ ~locked
  /\ calls' = [calls EXCEPT ![c] = @ + 1]
  /\ stale' = stale \cup (IF request[c] \in freed THEN {c} ELSE {})
  /\ \/ /\ UploadRequests[n] = NoRequest \/ request[c] \in freed
        /\ UNCHANGED <<table, temp, media>>
     \/ UploadRequests[n] # NoRequest /\ error = "none" /\ Finished(n)
     \/ UploadRequests[n] # NoRequest /\ error = "aborted" /\ Aborted(n)
  /\ file' = [file EXCEPT ![c] = NoFile] /\ done' = done \ {c}
  /\ UNCHANGED <<size, cut, requests, timers, actions, request, conn, disturbed>>

(* The connection ends: the peer closes it, or it was answered and is to be *)
(* closed or idle.  A paused one is not polled.  DHS_OnDisconnect.          *)
Disconnect(c) ==
  /\ Ready /\ conn[c] \in {"new", "body", "refused", "answered"}
  /\ conn' = [conn EXCEPT ![c] = "closed"]
  /\ \/ c \in User3 /\ pc' = "enter" /\ cur' = c
     \/ c \notin User3 /\ UNCHANGED <<pc, cur>>
  /\ disturbed' = disturbed \cup
       IF c \in User3 /\ (conn[c] = "refused" \/ pool[c] = "clear") THEN {c} ELSE {}
  /\ UNCHANGED <<files, requests, table, timers, actions, transfers, pool, entry, locked, calls,
                 stale>>

(* The callback, and the data of the transfer is freed.                     *)
AbortDone ==
  /\ pc = "enter"
  /\ OnContentUploadDone(cur, "aborted")
  /\ User3' = User3 \ {cur}
  /\ pc' = "ready" /\ cur' = NoConnection
  /\ UNCHANGED <<pool, entry, locked>>

(* DH_Pool_SavePostToLocalFile: a part is written and the connection goes   *)
(* on, or the last part is written and the file closed, ...                 *)
Goes(c, location) == pool' = [pool EXCEPT ![c] = location]

Write(c) ==
  /\ pool[c] = "write"
  /\ size' = [size EXCEPT ![file[c]] = IF c \in done \ cut THEN "whole" ELSE "part"]
  /\ \/ c \in done /\ Goes(c, "send") /\ UNCHANGED conn
     \/ c \notin done /\ Goes(c, "idle") /\ conn' = [conn EXCEPT ![c] = "body"]
  /\ UNCHANGED <<temp, media, cut, requests, table, timers, actions, transfers, thread, history>>

(* ... the request is answered, after which the connection may be closed or *)
(* read again, ...                                                          *)
SendOK(c) ==
  /\ pool[c] = "send"
  /\ conn' = [conn EXCEPT ![c] = "answered"]
  /\ Goes(c, "clear")
  /\ UNCHANGED <<files, requests, table, timers, actions, transfers, thread, history>>

(* A faulty Clear: the session keeps the transfer.                          *)
ClearForgotten(c) ==
  /\ pool[c] = "clear"
  /\ Goes(c, "enter")
  /\ UNCHANGED <<files, requests, table, timers, actions, transfers, conn, thread, history>>

(* ... the session forgets the transfer, ...                                *)
Clear(c) ==
  /\ pool[c] = "clear"
  /\ User3' = User3 \ {c}
  /\ Goes(c, "enter")
  /\ UNCHANGED <<files, requests, table, timers, actions, request, file, done, conn, thread,
                 history>>

(* ... the callback is made, and the data freed.                            *)
DoneDone(c) ==
  /\ pool[c] = "enter"
  /\ OnContentUploadDone(c, "none")
  /\ Goes(c, "idle")
  /\ UNCHANGED <<User3, thread>>
-----------------------------------------------------------------------------
Creates(r) == DeleteMedia(r) \/ CreateFile(r) \/ AddEntry(r) \/ AddTimer(r)

Saves(c) == Write(c) \/ SendOK(c) \/ Clear(c) \/ DoneDone(c)

Posts(c) == Post(c) \/ NotAcceptable(c) \/ ExpectationFailed(c) \/ Conflict(c)

Next ==
  \/ AbortDone
  \/ \E n \in Name : CreateObject(n) \/ DestroyObject(n) \/ DestroyTemp(n)
  \/ \E r \in Request : Creates(r) \/ Expired(r)
  \/ \E c \in Connection : Posts(c) \/ Receive(c) \/ Saves(c) \/ Disconnect(c)
  \/ \E c \in Connection, n \in Name : OnContentUpload(c, n)

(* A thread goes on, the pool serves what it is left, timers are fired, and *)
(* a connection the server has refused is closed or becomes idle.           *)
Refused(c) == conn[c] = "refused" /\ Disconnect(c)

Fairness ==
  /\ WF_vars(AbortDone)
  /\ \A c \in Connection : WF_vars(Saves(c)) /\ WF_vars(Posts(c)) /\ SF_vars(Refused(c))
  /\ \A r \in Request : WF_vars(Creates(r)) /\ SF_vars(Expired(r))

Spec == Init /\ [][Next]_vars /\ Fairness
-----------------------------------------------------------------------------
(* Properties                                                               *)

(* A temporary file belongs to an upload in the table, or to one whose      *)
(* CreateObject is about to put it there, and an upload in the table is a   *)
(* request that is not freed: a file that nobody knows would have every     *)
(* later CreateObject of its name refused.                                  *)
TempFilesOwned ==
  \A n \in Name :
    /\ \/ temp[n] = NoFile \/ UploadRequests[n] # NoRequest
       \/ \E r \in Request : create[r] = "add" /\ name[r] = n
    /\ UploadRequests[n] \notin freed

(* A transfer makes its callback once, with a request that is not freed,    *)
(* and is destroyed once, whatever is created or destroyed under its name   *)
(* meanwhile.  It holds but for transfers that meet another transfer or a   *)
(* POST of the same name, were refused once bound, or whose connection ends *)
(* between the answer of the pool and its forgetting the transfer.          *)
TransfersEndOnce ==
  \A c \in Connection \ disturbed :
    /\ calls[c] <= 1 /\ c \notin stale
    /\ conn[c] = "closed" /\ Ready /\ pool[c] = "idle" /\ request[c] # NoRequest =>
         calls[c] = 1 /\ c \notin User3

(* A file is published under the name of its medium only when its body was  *)
(* received as a whole.  The callback publishes whatever has the temporary  *)
(* name: not what the transfer wrote if that was destroyed and another      *)
(* file made, and not the whole if a second CreateObject that had found no  *)
(* file either has emptied it since.  These are left out, with those that   *)
(* TransfersEndOnce leaves out.                                             *)
PublishedWhole ==
  [][\A n \in Name :
       media'[n] \notin {NoFile, media[n]} =>
         \/ size[media'[n]] = "whole"
         \/ \E c \in Connection :
              /\ pool[c] = "enter" /\ name[request[c]] = n
              /\ c \in disturbed \cup cut \/ file[c] # temp[n]]_vars

(* An accepted upload is finished, given up or on its way: it has its timer *)
(* still or is about to get it, or a transfer whose callback is still to    *)
(* come, or it was begun and may be resumed.  A transfer always has a       *)
(* callback to come until it made one.                                      *)
CallbackToCome(c) ==
  \/ c \in User3 /\ conn[c] # "closed"
  \/ pool[c] # "idle"
  \/ pc = "enter" /\ cur = c

UploadsAreAwaited ==
  /\ \A r \in Request : InTable(r) =>
       \/ r \in timers \/ create[r] = "time"
       \/ \E c \in Connection : request[c] = r /\ (r \in Resumable \/ CallbackToCome(c))
  /\ \A c \in Connection :
       request[c] # NoRequest /\ calls[c] = 0 => CallbackToCome(c)

(* The server waits for a client to send the rest of a body.                *)
Stalled(r) == \E c \in Connection : conn[c] = "body" /\ request[c] = r

(* The server waits for its own lock, see Conflict.                         *)
Stuck == pc = "enter" /\ locked

(* An accepted upload does not stay for ever: it is finished, given up, or  *)
(* expires, unless a client keeps it waiting or has begun and may resume it,*)
(* or the server is stuck.                                                  *)
UploadsSettle ==
  \A r \in Request :
    []<>(\/ ~InTable(r) \/ Stuck \/ Stalled(r)
         \/ r \in Resumable /\ \E c \in Connection : request[c] = r)
=============================================================================
