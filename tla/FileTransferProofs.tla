------------------------- MODULE FileTransferProofs -------------------------
(***************************************************************************)
(* Proofs about FileTransfer, for any number of requests, locations and    *)
(* chunks.  What makes the properties inductive is that O_EXCL gives every *)
(* inode one writer, the request that created it: fd[i] = i says that      *)
(* request i has created its inode, and off[i] how much is in it.          *)
(***************************************************************************)
EXTENDS FileTransfer, FiniteSetTheorems, TLAPS

ReqInv(r) ==
  /\ pc[r] \in {"idle", "GET", "PUT"} => fd[r] = None /\ off[r] = 0
  /\ pc[r] = "copy" => fd[r] = r
  /\ fd[r] = r => pc[r] \in {"copy", "answered"}
  /\ pc[r] # "answered" => status[r] = 0 /\ body[r] = {}
  /\ status[r] = 201 => fd[r] = r /\ off[r] = Size
  /\ body[r] # {} => body[r] = {fd[r]}

\* What is open has been created; a download announced no more than there is.
OpenInv(r) ==
  /\ fd[r] # None => fd[fd[r]] = fd[r]
  /\ pc[r] = "body" => fd[r] \in Requests \ {r} /\ off[r] =< off[fd[r]]

\* The chunks of an inode are its creator's, from the first on.
DataInv(i) ==
  \A k \in Chunks : data[i][k] = IF fd[i] = i /\ k =< off[i] THEN i ELSE None

LinkInv == \A f \in Files : link[f] # None => fd[link[f]] = link[f]

IInv ==
  /\ TypeOK /\ LinkInv
  /\ \A r \in Requests : ReqInv(r) /\ OpenInv(r) /\ DataInv(r)

-----------------------------------------------------------------------------
LEMMA InvInit == Init => IInv
<1> SUFFICES ASSUME Init PROVE IInv
  OBVIOUS
<1>1. \A f \in Files : [path |-> "file", auth |-> "right", method |-> "GET", file |-> f] \in Request
  BY DEF Request
<1>2. req \in [Requests -> Request]
  BY <1>1 DEF Init
<1>3. None \in Inodes /\ 0 \in 0 .. Size /\ 0 \in Statuses
  BY FileTransferAssumption DEF Inodes, Statuses
<1>4. TypeOK
  BY <1>2, <1>3 DEF Init, TypeOK
<1>5. LinkInv
  BY DEF Init, LinkInv
<1>6. \A r \in Requests : ReqInv(r) /\ OpenInv(r)
  BY FileTransferAssumption DEF Init, ReqInv, OpenInv
<1>7. \A r \in Requests : DataInv(r)
  BY FileTransferAssumption DEF Init, DataInv
<1> QED BY <1>4, <1>5, <1>6, <1>7 DEF IInv

\* An inode has as many chunks as its creator has written.
LEMMA WrittenCount ==
  ASSUME IInv, NEW i \in Requests, fd[i] = i
  PROVE  Cardinality(Written(i)) = off[i]
<1>1. off[i] \in 0 .. Size /\ Size \in Nat
  BY FileTransferAssumption DEF IInv, TypeOK
<1>2. Written(i) = 1 .. off[i]
  BY <1>1, FileTransferAssumption DEF IInv, DataInv, Written, Chunks
<1>3. Cardinality(1 .. off[i]) = off[i]
  BY <1>1, FS_Interval
<1> QED BY <1>2, <1>3

-----------------------------------------------------------------------------
\* Steps that leave the files and what is open alone.
LEMMA AnswerStep ==
  ASSUME IInv, NEW r \in Requests,
         \/ \E q \in Request : Arrive(r, q)
         \/ SendBody(r) \/ CopyFails(r) \/ CopyDone(r)
         \/ \E code \in {403, 404, 500} : OpenGetFails(r, code)
         \/ \E code \in {400, 403, 404, 409} : OpenPutFails(r, code)
  PROVE  IInv'
<1> USE DEF IInv
<1>0. UNCHANGED <<fd, off, link, dir, data>>
  BY DEF Arrive, SendBody, CopyFails, CopyDone, OpenGetFails, OpenPutFails
<1>1. LinkInv' /\ \A s \in Requests : DataInv(s)'
  BY <1>0 DEF LinkInv, DataInv
<1>2. ASSUME NEW q \in Request, Arrive(r, q) PROVE IInv'
  <2>1. Early(q) \in Statuses \ {201} /\ q.method \in {"GET", "PUT", "other"}
    BY DEF Early, Statuses, Request
  <2>2. Early(q) = 0 => q.method \in {"GET", "PUT"}
    BY DEF Early, Request
  <2>3. TypeOK'
    <3>1. req' \in [Requests -> Request]
      BY <1>2 DEF Arrive, TypeOK
    <3>2. status' \in [Requests -> Statuses]
      BY <1>2, <2>1 DEF Arrive, Answer, TypeOK
    <3>3. pc' \in [Requests -> {"idle", "GET", "body", "PUT", "copy", "answered"}]
      <4>1. \E v \in {"answered", "GET", "PUT"} : pc' = [pc EXCEPT ![r] = v]
        BY <1>2, <2>2 DEF Arrive, Answer
      <4> QED BY <4>1 DEF TypeOK
    <3>4. UNCHANGED body
      BY <1>2 DEF Arrive
    <3> QED BY <1>0, <3>1, <3>2, <3>3, <3>4 DEF TypeOK
  <2>4. \A s \in Requests : ReqInv(s)'
    BY <1>0, <1>2, <2>1, <2>2 DEF Arrive, Answer, TypeOK, ReqInv
  <2>5. \A s \in Requests : OpenInv(s)'
    BY <1>0, <1>2, <2>2 DEF Arrive, Answer, TypeOK, OpenInv
  <2> QED BY <1>1, <2>3, <2>4, <2>5
<1>3. ASSUME NEW code \in Statuses \ {0, 201}, Answer(r, code), UNCHANGED <<req, body>>,
             pc[r] \in {"GET", "PUT", "copy"}
      PROVE  IInv'
  <2>1. TypeOK'
    BY <1>0, <1>3 DEF Answer, TypeOK
  <2>2. \A s \in Requests : ReqInv(s)' /\ OpenInv(s)'
    BY <1>0, <1>3 DEF Answer, TypeOK, ReqInv, OpenInv
  <2> QED BY <1>1, <2>1, <2>2
<1>4. ASSUME NEW code \in {403, 404, 500}, OpenGetFails(r, code) PROVE IInv'
  BY <1>3, <1>4 DEF OpenGetFails, Statuses
<1>5. ASSUME NEW code \in {400, 403, 404, 409}, OpenPutFails(r, code) PROVE IInv'
  BY <1>3, <1>5 DEF OpenPutFails, Statuses
<1>6. CASE CopyFails(r)
  BY <1>3, <1>6 DEF CopyFails, Statuses
<1>7. CASE CopyDone(r)
  <2>1. TypeOK'
    BY <1>0, <1>7 DEF CopyDone, Answer, TypeOK, Statuses
  <2>2. \A s \in Requests : ReqInv(s)' /\ OpenInv(s)'
    BY <1>0, <1>7 DEF CopyDone, Answer, TypeOK, ReqInv, OpenInv
  <2> QED BY <1>1, <2>1, <2>2
<1>8. CASE SendBody(r)
  <2> DEFINE sent == {data[fd[r]][k] : k \in 1 .. off[r]}
  <2>1. body' = [body EXCEPT ![r] = sent] /\ Answer(r, 200) /\ req' = req /\ pc[r] = "body"
    BY <1>8 DEF SendBody
  <2>2. fd[r] \in Requests \ {r} /\ off[r] =< off[fd[r]] /\ fd[fd[r]] = fd[r]
    BY <2>1, FileTransferAssumption DEF OpenInv
  <2>3. \A k \in 1 .. off[r] : data[fd[r]][k] = fd[r]
    <3>1. off[r] \in 0 .. Size /\ off[fd[r]] \in 0 .. Size /\ Size \in Nat
      BY <2>2, FileTransferAssumption DEF TypeOK
    <3>2. ASSUME NEW k \in 1 .. off[r] PROVE k \in Chunks /\ k =< off[fd[r]]
      BY <2>2, <3>1 DEF Chunks
    <3> QED BY <2>2, <3>2 DEF DataInv
  <2>4. sent \subseteq {fd[r]}
    BY <2>3
  <2> HIDE DEF sent
  <2>5. sent \in SUBSET Inodes /\ (sent # {} => sent = {fd[r]})
    BY <2>2, <2>4 DEF Inodes
  <2>6. TypeOK'
    BY <1>0, <2>1, <2>5 DEF Answer, TypeOK, Statuses
  <2>7. \A s \in Requests : ReqInv(s)'
    BY <1>0, <2>1, <2>2, <2>5 DEF Answer, TypeOK, ReqInv
  <2>8. \A s \in Requests : OpenInv(s)'
    BY <1>0, <2>1 DEF Answer, TypeOK, OpenInv
  <2> QED BY <1>1, <2>6, <2>7, <2>8
<1> QED BY <1>2, <1>4, <1>5, <1>6, <1>7, <1>8

\* A download opens a file.
LEMMA OpenGetStep ==
  ASSUME IInv, NEW r \in Requests, OpenGet(r)
  PROVE  IInv'
<1> USE DEF IInv
<1> DEFINE i == link[req[r].file]
<1>1. /\ pc[r] = "GET" /\ i # None /\ pc' = [pc EXCEPT ![r] = "body"]
      /\ fd' = [fd EXCEPT ![r] = i] /\ off' = [off EXCEPT ![r] = Cardinality(Written(i))]
      /\ UNCHANGED <<req, status, body, link, dir, data>>
  BY DEF OpenGet
<1>2. req[r].file \in Files
  BY DEF TypeOK, Request
<1>3. i \in Requests /\ fd[i] = i /\ fd[r] = None /\ i # r /\ off[r] = 0
  BY <1>1, <1>2, FileTransferAssumption DEF TypeOK, Inodes, LinkInv, ReqInv
<1> HIDE DEF i
<1>4. off' = [off EXCEPT ![r] = off[i]] /\ off[i] \in 0 .. Size
  BY <1>1, <1>3, WrittenCount DEF TypeOK
<1>5. TypeOK'
  BY <1>1, <1>3, <1>4 DEF TypeOK, Inodes
<1>6. \A s \in Requests : ReqInv(s)'
  BY <1>1, <1>3, <1>4 DEF TypeOK, ReqInv
<1>7. ASSUME NEW s \in Requests PROVE OpenInv(s)'
  <2>0. fd[s] # None => fd[s] \in Requests /\ fd[s] # r /\ fd[fd[s]] = fd[s]
    BY <1>3, FileTransferAssumption DEF TypeOK, Inodes, OpenInv
  <2>1. CASE s = r
    BY <1>1, <1>3, <1>4, <2>1 DEF TypeOK, OpenInv
  <2>2. CASE s # r
    BY <1>1, <1>3, <1>4, <2>0, <2>2, FileTransferAssumption DEF TypeOK, OpenInv
  <2> QED BY <2>1, <2>2
<1>8. \A s \in Requests : DataInv(s)'
  BY <1>1, <1>3, <1>4, FileTransferAssumption DEF TypeOK, DataInv
<1>9. LinkInv'
  BY <1>1, <1>3, FileTransferAssumption DEF TypeOK, LinkInv, Inodes
<1> QED BY <1>5, <1>6, <1>7, <1>8, <1>9

\* An upload creates a file.
LEMMA OpenPutStep ==
  ASSUME IInv, NEW r \in Requests, OpenPut(r)
  PROVE  IInv'
<1> USE DEF IInv
<1>1. /\ pc[r] = "PUT" /\ pc' = [pc EXCEPT ![r] = "copy"] /\ fd' = [fd EXCEPT ![r] = r]
      /\ link' = [link EXCEPT ![req[r].file] = r]
      /\ UNCHANGED <<req, status, off, body, dir, data>>
  BY DEF OpenPut
<1>2. fd[r] = None /\ off[r] = 0 /\ req[r].file \in Files
  BY <1>1 DEF ReqInv, TypeOK, Request
<1>3. TypeOK'
  BY <1>1, <1>2 DEF TypeOK, Inodes
<1>4. \A s \in Requests : ReqInv(s)'
  BY <1>1, <1>2 DEF TypeOK, ReqInv
<1>5. ASSUME NEW s \in Requests PROVE OpenInv(s)'
  <2>0. fd[s] # None => fd[s] \in Requests /\ fd[s] # r /\ fd[fd[s]] = fd[s]
    BY <1>2, FileTransferAssumption DEF TypeOK, Inodes, OpenInv
  <2>1. CASE s = r
    BY <1>1, <2>1 DEF TypeOK, OpenInv
  <2>2. CASE s # r
    BY <1>1, <2>0, <2>2, FileTransferAssumption DEF TypeOK, OpenInv
  <2> QED BY <2>1, <2>2
<1>6. \A s \in Requests : DataInv(s)'
  BY <1>1, <1>2, FileTransferAssumption DEF TypeOK, DataInv, Chunks
<1>7. LinkInv'
  BY <1>1, <1>2, FileTransferAssumption DEF TypeOK, LinkInv, Inodes
<1> QED BY <1>3, <1>4, <1>5, <1>6, <1>7

\* An upload writes a chunk of its own inode.
LEMMA CopyStep ==
  ASSUME IInv, NEW r \in Requests, CopyChunk(r)
  PROVE  IInv' /\ \A i \in Requests, k \in Chunks : data[i][k] # None => data'[i][k] = data[i][k]
<1> USE DEF IInv
<1>1. /\ pc[r] = "copy" /\ fd[r] = r /\ off[r] < Size
      /\ off' = [off EXCEPT ![r] = off[r] + 1]
      /\ data' = [data EXCEPT ![r] = [data[r] EXCEPT ![off[r] + 1] = r]]
      /\ UNCHANGED <<req, pc, status, fd, body, link, dir>>
  BY DEF CopyChunk, ReqInv
<1>2. off[r] \in Nat /\ Size \in Nat /\ off[r] + 1 \in Chunks /\ off[r] + 1 \in 0 .. Size
      /\ off[r] # Size
  BY <1>1, FileTransferAssumption DEF TypeOK, Chunks
<1>3. data' \in [Requests -> [Chunks -> Inodes]]
  BY <1>1, <1>2 DEF TypeOK, Inodes
<1>4. TypeOK'
  BY <1>1, <1>2, <1>3 DEF TypeOK
<1>5. \A s \in Requests : ReqInv(s)'
  BY <1>1, <1>2 DEF TypeOK, ReqInv
<1>6. ASSUME NEW s \in Requests PROVE OpenInv(s)'
  <2>1. pc[s] = "body" => s # r
    BY <1>1
  <2>2. pc[s] = "body" => fd[s] \in Requests /\ off[s] \in Nat /\ off[fd[s]] \in Nat
    BY DEF OpenInv, TypeOK
  <2> QED BY <1>1, <1>2, <2>1, <2>2 DEF TypeOK, OpenInv
<1>7. \A k \in Chunks : data'[r][k] = IF k = off[r] + 1 THEN r ELSE data[r][k]
  BY <1>1, <1>2 DEF TypeOK
<1>8. \A s \in Requests \ {r} : data'[s] = data[s] /\ off'[s] = off[s]
  BY <1>1 DEF TypeOK
<1>9. DataInv(r)'
  <2> SUFFICES ASSUME NEW k \in Chunks
               PROVE  data'[r][k] = IF k =< off[r] + 1 THEN r ELSE None
    BY <1>1, <1>2 DEF DataInv, TypeOK
  <2>1. data[r][k] = IF k =< off[r] THEN r ELSE None
    BY <1>1 DEF DataInv
  <2>2. k \in Nat
    BY <1>2 DEF Chunks
  <2> QED BY <1>2, <1>7, <2>1, <2>2
<1>10. \A s \in Requests : DataInv(s)'
  BY <1>1, <1>8, <1>9 DEF DataInv
<1>11. LinkInv'
  BY <1>1 DEF LinkInv
<1>12. data[r][off[r] + 1] = None
  BY <1>2 DEF DataInv
<1>13. \A i \in Requests, k \in Chunks : data[i][k] # None => data'[i][k] = data[i][k]
  BY <1>7, <1>8, <1>12
<1> QED BY <1>4, <1>5, <1>6, <1>10, <1>11, <1>13

\* A client removes its directory.
LEMMA RemoveStep ==
  ASSUME IInv, NEW f \in Files, RemoveFile(f) \/ RemoveDir(f)
  PROVE  IInv'
<1> USE DEF IInv
<1>1. UNCHANGED <<req, pc, status, fd, off, body, data>>
  BY DEF RemoveFile, RemoveDir
<1>2. TypeOK' /\ LinkInv'
  BY <1>1 DEF RemoveFile, RemoveDir, TypeOK, LinkInv, Inodes
<1>3. \A s \in Requests : ReqInv(s)' /\ OpenInv(s)' /\ DataInv(s)'
  BY <1>1 DEF ReqInv, OpenInv, DataInv
<1> QED BY <1>2, <1>3

LEMMA InvStep == IInv /\ [Next]_vars => IInv'
<1> SUFFICES ASSUME IInv, [Next]_vars PROVE IInv'
  OBVIOUS
<1>1. CASE UNCHANGED vars
  BY <1>1 DEF vars, IInv, TypeOK, LinkInv, ReqInv, OpenInv, DataInv
<1>2. ASSUME NEW r \in Requests, ServeHTTP(r) PROVE IInv'
  BY <1>2, AnswerStep, OpenGetStep, OpenPutStep, CopyStep DEF ServeHTTP
<1>3. ASSUME NEW f \in Files, RemoveFile(f) \/ RemoveDir(f) PROVE IInv'
  BY <1>3, RemoveStep
<1> QED BY <1>1, <1>2, <1>3 DEF Next, Finished

LEMMA InvImplies == IInv => CreatedIsWhole /\ ReadOfOneUpload
<1> SUFFICES ASSUME IInv PROVE CreatedIsWhole /\ ReadOfOneUpload
  OBVIOUS
<1>1. ASSUME NEW r \in Requests, status[r] = 201 PROVE Whole(r)
  <2>1. fd[r] = r /\ off[r] = Size
    BY <1>1 DEF IInv, ReqInv
  <2>2. \A k \in Chunks : k =< Size
    BY FileTransferAssumption DEF Chunks
  <2> QED BY <2>1, <2>2 DEF IInv, DataInv, Whole
<1>2. ReadOfOneUpload
  BY DEF IInv, ReqInv, ReadOfOneUpload
<1> QED BY <1>1, <1>2 DEF CreatedIsWhole

-----------------------------------------------------------------------------
\* Only a chunk that is not there yet is written, and a name only given to a
\* location that has none.
LEMMA StoredStep ==
  IInv /\ [Next]_vars =>
    [/\ \A i \in Requests, k \in Chunks : data[i][k] # None => data'[i][k] = data[i][k]
     /\ \A f \in Files : link[f] # None => link'[f] \in {link[f], None}]_vars
<1> SUFFICES ASSUME IInv, Next
             PROVE  /\ \A i \in Requests, k \in Chunks :
                         data[i][k] # None => data'[i][k] = data[i][k]
                    /\ \A f \in Files : link[f] # None => link'[f] \in {link[f], None}
  OBVIOUS
<1>1. ASSUME NEW r \in Requests, CopyChunk(r)
      PROVE  /\ \A i \in Requests, k \in Chunks : data[i][k] # None => data'[i][k] = data[i][k]
             /\ link' = link
  BY <1>1, CopyStep DEF CopyChunk
<1>2. ASSUME NEW r \in Requests, OpenPut(r)
      PROVE  data' = data /\ \A f \in Files : link[f] # None => link'[f] \in {link[f], None}
  BY <1>2 DEF OpenPut, IInv, TypeOK
<1>3. ASSUME NEW r \in Requests, ServeHTTP(r), ~CopyChunk(r), ~OpenPut(r)
      PROVE  data' = data /\ link' = link
  BY <1>3 DEF ServeHTTP, Arrive, OpenGet, SendBody, OpenGetFails, OpenPutFails, CopyFails,
     CopyDone
<1>4. ASSUME NEW g \in Files, RemoveFile(g) \/ RemoveDir(g)
      PROVE  data' = data /\ \A f \in Files : link[f] # None => link'[f] \in {link[f], None}
  BY <1>4 DEF RemoveFile, RemoveDir, IInv, TypeOK
<1>5. Finished => data' = data /\ link' = link
  BY DEF Finished, vars
<1> QED BY <1>1, <1>2, <1>3, <1>4, <1>5 DEF Next

\* A download of an answered upload announces all of it.
LEMMA ReadStep ==
  IInv /\ [Next]_vars =>
    [\A r, i \in Requests :
       pc[r] = "GET" /\ pc'[r] = "body" /\ fd'[r] = i /\ status[i] = 201 => off'[r] = Size]_vars
<1> SUFFICES ASSUME IInv, Next, NEW r \in Requests, NEW i \in Requests,
                    pc[r] = "GET", pc'[r] = "body", fd'[r] = i, status[i] = 201
             PROVE  off'[r] = Size
  OBVIOUS
<1>0. pc \in [Requests -> {"idle", "GET", "body", "PUT", "copy", "answered"}]
  BY DEF IInv, TypeOK
<1>1. OpenGet(r)
  <2>1. ASSUME NEW s \in Requests, ServeHTTP(s) PROVE OpenGet(r)
    <3>1. s = r
      BY <1>0, <2>1 DEF ServeHTTP, Arrive, Answer, OpenGet, SendBody, OpenGetFails, OpenPut,
         OpenPutFails, CopyChunk, CopyFails, CopyDone
    <3>2. ASSUME NEW code, Answer(r, code) PROVE FALSE
      BY <1>0, <3>2 DEF Answer
    <3> QED BY <2>1, <3>1, <3>2 DEF ServeHTTP, Arrive, SendBody, OpenGetFails, OpenPut,
               OpenPutFails, CopyChunk, CopyFails, CopyDone
  <2>2. ASSUME NEW f \in Files, RemoveFile(f) \/ RemoveDir(f) PROVE FALSE
    BY <2>2 DEF RemoveFile, RemoveDir
  <2>3. ~Finished
    BY DEF Finished, vars
  <2> QED BY <2>1, <2>2, <2>3 DEF Next
<1>2. fd'[r] = link[req[r].file] /\ off'[r] = Cardinality(Written(link[req[r].file]))
  BY <1>1 DEF OpenGet, IInv, TypeOK
<1>3. fd[i] = i /\ off[i] = Size
  BY DEF IInv, ReqInv
<1> QED BY <1>2, <1>3, WrittenCount

-----------------------------------------------------------------------------
\* The inductive invariant holds in every state of the file server.
THEOREM Invariance == Spec => []IInv
BY InvInit, InvStep, PTL DEF Spec

\* Requests and files have their types (handler.go 37-117).
THEOREM TypeCorrect == Spec => []TypeOK
<1>1. IInv => TypeOK
  BY DEF IInv
<1> QED BY <1>1, Invariance, PTL

\* An upload answered with 201 is stored whole and alone (handler.go 79, 90-96).
THEOREM CreatedFilesAreWhole == Spec => []CreatedIsWhole
BY Invariance, InvImplies, PTL

\* A download shows one upload only (handler.go 73, 79).
THEOREM ReadsShowOneUpload == Spec => []ReadOfOneUpload
BY Invariance, InvImplies, PTL

\* Nothing that was stored is overwritten (handler.go 79-83).
THEOREM NothingOverwritten == Spec => StoredForGood
BY Invariance, StoredStep, PTL DEF Spec, StoredForGood

\* A download that starts after 201 is of the whole upload (handler.go 90-96).
THEOREM ReadsFollowCreation == Spec => ReadAfterCreated
BY Invariance, ReadStep, PTL DEF Spec, ReadAfterCreated
=============================================================================
