---------------------------- MODULE FileTransfer ----------------------------
(***************************************************************************)
(* The file server (pkg/filetransfer/handler.go): concurrent requests of   *)
(* Handler.ServeHTTP on the shared directory, from which clients remove    *)
(* their temporary directories at any time.                                *)
(*                                                                         *)
(* A file is a name (link) for an inode; the inode a PUT creates is named  *)
(* after the request.  An upload is Size chunks, and a chunk of an inode   *)
(* records which request wrote it.                                         *)
(***************************************************************************)
EXTENDS Naturals, FiniteSets

CONSTANTS
  Requests,  \* HTTP requests
  Files,     \* locations below Root
  Size,      \* chunks in the body of a PUT
  None       \* no request

ASSUME FileTransferAssumption == Size \in Nat \ {0} /\ None \notin Requests

VARIABLES
  req,      \* what a request asks for
  pc,       \* where its handler is
  status,   \* the status it is answered with; 0 before
  fd,       \* the inode its handler has open
  off,      \* chunks written (PUT), length announced (GET)
  body,     \* what a GET sent
  link,     \* the inode a location names
  dir,      \* locations whose directory exists
  data      \* chunks of an inode

vars == <<req, pc, status, fd, off, body, link, dir, data>>

-----------------------------------------------------------------------------
Chunks == 1 .. Size
Inodes == Requests \cup {None}

\* auth: no header, both names wrong, or one of them right at least.
Request == [path : {"healthz", "dots", "file"}, auth : {"missing", "wrong", "right"},
            method : {"GET", "PUT", "other"}, file : Files]

Statuses == {0, 200, 201, 400, 401, 403, 404, 409, 500}

\* The answer that needs no file, 0 if there is none.
Early(q) ==
  CASE q.path = "healthz" -> 200
    [] q.path # "healthz" /\ q.auth # "right" -> 401
    [] q.path = "dots" /\ q.auth = "right" -> 400
    [] q.path = "file" /\ q.auth = "right" /\ q.method = "other" -> 400
    [] OTHER -> 0

Written(i) == {k \in Chunks : data[i][k] # None}
Whole(i)   == \A k \in Chunks : data[i][k] = i

Init ==
  /\ req    \in [Requests -> {[path |-> "file", auth |-> "right", method |-> "GET",
                               file |-> f] : f \in Files}]
  /\ pc     = [r \in Requests |-> "idle"]
  /\ status = [r \in Requests |-> 0]
  /\ fd     = [r \in Requests |-> None]
  /\ off    = [r \in Requests |-> 0]
  /\ body   = [r \in Requests |-> {}]
  /\ link   = [f \in Files |-> None]
  /\ dir    \in SUBSET Files
  /\ data   = [i \in Requests |-> [k \in Chunks |-> None]]

-----------------------------------------------------------------------------
Answer(r, code) ==
  /\ pc' = [pc EXCEPT ![r] = "answered"]
  /\ status' = [status EXCEPT ![r] = code]

\* The handler up to its switch on the method.
Arrive(r, q) ==
  /\ pc[r] = "idle"
  /\ req' = [req EXCEPT ![r] = q]
  /\ IF Early(q) # 0 THEN Answer(r, Early(q))
     ELSE pc' = [pc EXCEPT ![r] = q.method] /\ UNCHANGED status
  /\ UNCHANGED <<fd, off, body, link, dir, data>>

\* http.ServeFile (external): it opens the file, announces its length, ...
OpenGet(r) ==
  /\ pc[r] = "GET" /\ link[req[r].file] # None
  /\ pc' = [pc EXCEPT ![r] = "body"]
  /\ fd' = [fd EXCEPT ![r] = link[req[r].file]]
  /\ off' = [off EXCEPT ![r] = Cardinality(Written(link[req[r].file]))]
  /\ UNCHANGED <<req, status, body, link, dir, data>>

OpenGetFails(r, code) ==
  /\ pc[r] = "GET"
  /\ code = 404 => link[req[r].file] = None
  /\ Answer(r, code)
  /\ UNCHANGED <<req, fd, off, body, link, dir, data>>

\* ... and sends as much as it announced.
SendBody(r) ==
  /\ pc[r] = "body"
  /\ body' = [body EXCEPT ![r] = {data[fd[r]][k] : k \in 1 .. off[r]}]
  /\ Answer(r, 200)
  /\ UNCHANGED <<req, fd, off, link, dir, data>>

\* Fault: an existing file is truncated and written again (no O_EXCL).
OpenPutTruncates(r) ==
  LET f == req[r].file
      i == IF link[f] = None THEN r ELSE link[f] IN
  /\ pc[r] = "PUT" /\ f \in dir
  /\ pc' = [pc EXCEPT ![r] = "copy"]
  /\ fd' = [fd EXCEPT ![r] = i]
  /\ link' = [link EXCEPT ![f] = i]
  /\ data' = [data EXCEPT ![i] = [k \in Chunks |-> None]]
  /\ UNCHANGED <<req, status, off, body, dir>>

\* OpenFile with O_CREATE|O_EXCL.
OpenPut(r) ==
  LET f == req[r].file IN
  /\ pc[r] = "PUT" /\ f \in dir /\ link[f] = None
  /\ pc' = [pc EXCEPT ![r] = "copy"]
  /\ fd' = [fd EXCEPT ![r] = r]
  /\ link' = [link EXCEPT ![f] = r]
  /\ UNCHANGED <<req, status, off, body, dir, data>>

\* sendErrorResponse after OpenFile: 409 for a file that exists, 404 for a
\* directory that does not, otherwise what the storage reports.
OpenPutFails(r, code) ==
  LET f == req[r].file IN
  /\ pc[r] = "PUT"
  /\ code = 409 => f \in dir /\ link[f] # None
  /\ code = 404 => f \notin dir
  /\ Answer(r, code)
  /\ UNCHANGED <<req, fd, off, body, link, dir, data>>

\* io.Copy, chunk by chunk.
CopyChunk(r) ==
  /\ pc[r] = "copy"
  /\ off[r] < Size
  /\ off' = [off EXCEPT ![r] = @ + 1]
  /\ data' = [data EXCEPT ![fd[r]][off[r] + 1] = r]
  /\ UNCHANGED <<req, pc, status, fd, body, link, dir>>

\* The body breaks off or the storage is full; the file stays as it is.
CopyFails(r) ==
  /\ pc[r] = "copy"
  /\ Answer(r, 400)
  /\ UNCHANGED <<req, fd, off, body, link, dir, data>>

\* Fault: the answer is sent before the end of the body.
CopyDoneEarly(r) ==
  /\ pc[r] = "copy"
  /\ Answer(r, 201)
  /\ UNCHANGED <<req, fd, off, body, link, dir, data>>

CopyDone(r) ==
  /\ pc[r] = "copy" /\ off[r] = Size
  /\ Answer(r, 201)
  /\ UNCHANGED <<req, fd, off, body, link, dir, data>>

\* os.RemoveAll of a client: the file loses its name, then its directory goes;
\* whoever has it open keeps the inode.
RemoveFile(f) ==
  /\ f \in dir /\ link[f] # None
  /\ link' = [link EXCEPT ![f] = None]
  /\ UNCHANGED <<req, pc, status, fd, off, body, dir, data>>

RemoveDir(f) ==
  /\ f \in dir /\ link[f] = None
  /\ dir' = dir \ {f}
  /\ UNCHANGED <<req, pc, status, fd, off, body, link, data>>

Finished == (\A r \in Requests : pc[r] = "answered") /\ UNCHANGED vars

ServeHTTP(r) ==
  \/ \E q \in Request : Arrive(r, q)
  \/ OpenGet(r) \/ SendBody(r) \/ \E code \in {403, 404, 500} : OpenGetFails(r, code)
  \/ OpenPut(r) \/ \E code \in {400, 403, 404, 409} : OpenPutFails(r, code)
  \/ CopyChunk(r) \/ CopyFails(r) \/ CopyDone(r)

Next ==
  \/ \E r \in Requests : ServeHTTP(r)
  \/ \E f \in Files : RemoveFile(f) \/ RemoveDir(f)
  \/ Finished

Spec == Init /\ [][Next]_vars

-----------------------------------------------------------------------------
\* Type invariant of the requests and the files they work on.
TypeOK ==
  /\ req \in [Requests -> Request]
  /\ pc \in [Requests -> {"idle", "GET", "body", "PUT", "copy", "answered"}]
  /\ status \in [Requests -> Statuses]
  /\ fd \in [Requests -> Inodes] /\ off \in [Requests -> 0 .. Size]
  /\ body \in [Requests -> SUBSET Inodes]
  /\ link \in [Files -> Inodes] /\ dir \subseteq Files
  /\ data \in [Requests -> [Chunks -> Inodes]]

\* 201 is the truth whoever else uploads to the same location at the same time:
\* the file holds the whole body of this request and nothing of another
\* (handler.go 79, 90-96).
CreatedIsWhole == \A r \in Requests : status[r] = 201 => Whole(r)

\* A download never mixes uploads: all it sends was written by the one request
\* that created the file, even while that is still uploading (handler.go 73, 79).
ReadOfOneUpload ==
  \A r \in Requests : body[r] # {} => body[r] = {fd[r]}

\* What was stored is never overwritten, and a location that names a file
\* names it until the file is removed: a retry of a broken upload gets 409 and
\* changes nothing (handler.go 79-83).
StoredForGood ==
  [][/\ \A i \in Requests, k \in Chunks : data[i][k] # None => data'[i][k] = data[i][k]
     /\ \A f \in Files : link[f] # None => link'[f] \in {link[f], None}]_vars

\* A download that starts after the upload was answered with 201 gets all of it
\* (handler.go 90-96).
ReadAfterCreated ==
  [][\A r, i \in Requests :
       pc[r] = "GET" /\ pc'[r] = "body" /\ fd'[r] = i /\ status[i] = 201 => off'[r] = Size]_vars
=============================================================================
