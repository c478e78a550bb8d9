--------------------------- MODULE StartupProofs ----------------------------
(***************************************************************************)
(* Proofs about Startup, for any number of starts and pods.  The invariant *)
(* says which step of main has brought which file up to date, whatever     *)
(* earlier starts left in it, and what every pod was given.                *)
(***************************************************************************)
EXTENDS Startup, TLAPS

\* What main has done when it is at a step.
FilesInv ==
  /\ auth = start
  /\ at \in {"keyOpen", "keyWrite", "env", "grpc", "listen", "load", "serving"}
       => certFile = start
  /\ at \in {"env", "grpc", "listen", "load", "serving"} => keyFile = start
  /\ at = "serving" => cert = start /\ key = start
  /\ at \in Steps \ {"kube", "certgen"} => certHost = IF baseURL THEN "base" ELSE "none"

\* A pod has the credentials and the certificate of the start that created it.
PodInv(p) ==
  \/ pods[p] = NoPod
  \/ /\ pods[p].start \in 1 .. start /\ pods[p].cert = pods[p].start
     /\ pods[p].host = fsBaseURL

IInv == TypeOK /\ FilesInv /\ \A p \in Pods : PodInv(p)

-----------------------------------------------------------------------------
LEMMA InvInit == Init => IInv
<1> SUFFICES ASSUME Init PROVE IInv
  OBVIOUS
<1>1. start \in 1 .. MaxStarts /\ 0 \in 0 .. MaxStarts /\ 1 \in 0 .. MaxStarts
  BY StartupAssumption DEF Init
<1>2. NoPod \in Pod
  BY <1>1 DEF NoPod, Pod, Hosts
<1>3. pods \in [Pods -> Pod]
  BY <1>2 DEF Init
<1>4. TypeOK
  BY <1>1, <1>3 DEF Init, TypeOK, Steps, Hosts
<1>5. FilesInv /\ \A p \in Pods : PodInv(p)
  BY DEF Init, FilesInv, PodInv, Steps
<1> QED BY <1>4, <1>5 DEF IInv

\* main's steps: nothing happens to the pods.
LEMMA MainStep ==
  ASSUME IInv,
         \/ ConnectKubernetes \/ GenerateCert \/ WriteCert \/ WriteKey \/ ReadEnvironment
         \/ ListenSidecar \/ ListenFiles \/ LoadPair
  PROVE  IInv'
<1> USE DEF IInv
<1>1. UNCHANGED <<start, exit, baseURL, pods, auth, aged>>
  BY DEF ConnectKubernetes, GenerateCert, WriteCert, WriteKey, ReadEnvironment,
     ListenSidecar, ListenFiles, LoadPair, serverVars, fileVars
<1>2. \A p \in Pods : PodInv(p)'
  BY <1>1 DEF PodInv, fsBaseURL
<1>3. 0 \in 0 .. MaxStarts /\ start \in 0 .. MaxStarts
  BY StartupAssumption DEF TypeOK
<1>4. TypeOK'
  BY <1>1, <1>3 DEF TypeOK, ConnectKubernetes, GenerateCert, WriteCert, WriteKey,
     ReadEnvironment, ListenSidecar, ListenFiles, LoadPair, serverVars, fileVars, Steps, Hosts
<1>5. FilesInv'
  BY <1>1 DEF FilesInv, ConnectKubernetes, GenerateCert, WriteCert, WriteKey,
     ReadEnvironment, ListenSidecar, ListenFiles, LoadPair, serverVars, fileVars, Steps
<1> QED BY <1>2, <1>4, <1>5

LEMMA PodStep ==
  ASSUME IInv, NEW p \in Pods, CreatePod(p)
  PROVE  IInv'
<1> USE DEF IInv
<1> DEFINE new == [start |-> auth, cert |-> start, host |-> fsBaseURL]
<1>1. pods' = [pods EXCEPT ![p] = new]
      /\ UNCHANGED <<at, start, exit, baseURL, fileVars, serverVars>>
  BY DEF CreatePod
<1>2. new \in Pod /\ new.start = start /\ new.cert = start /\ new.host = fsBaseURL
  BY StartupAssumption DEF TypeOK, FilesInv, Pod, Hosts, fsBaseURL
<1> HIDE DEF new
<1>3. pods' \in [Pods -> Pod]
  BY <1>1, <1>2 DEF TypeOK
<1>4. TypeOK'
  BY <1>1, <1>3 DEF TypeOK, fileVars, serverVars
<1>5. FilesInv'
  BY <1>1 DEF FilesInv, fileVars, serverVars
<1>6. start \in 1 .. start
  BY StartupAssumption DEF TypeOK
<1>7. \A q \in Pods : PodInv(q)'
  BY <1>1, <1>2, <1>6 DEF PodInv, fsBaseURL, TypeOK
<1> QED BY <1>4, <1>5, <1>7

\* The end of a process and the next start.
LEMMA ProcessStep ==
  ASSUME IInv, Exits \/ Crash \/ Restart \/ Age
  PROVE  IInv'
<1> USE DEF IInv
<1>1. CASE Exits
  <2>1. exit' \in {0, 1, 10, 11, 12, 13, 21}
    BY <1>1 DEF Exits, Status, Steps
  <2> QED BY <1>1, <2>1 DEF Exits, TypeOK, FilesInv, PodInv, fsBaseURL, fileVars, serverVars,
             Steps
<1>2. CASE Crash
  BY <1>2 DEF Crash, TypeOK, FilesInv, PodInv, fsBaseURL, fileVars, serverVars, Steps
<1>4. CASE Age
  <2>1. FilesInv' /\ \A p \in Pods : PodInv(p)'
    BY <1>4 DEF Age, FilesInv, PodInv, fsBaseURL, fileVars
  <2>2. aged' \in BOOLEAN
    BY <1>4 DEF Age
  <2>3. TypeOK'
    BY <1>4, <2>2 DEF Age, TypeOK, fileVars
  <2> QED BY <2>1, <2>3
<1>3. CASE Restart
  <2>1. start' = start + 1 /\ start' \in 1 .. MaxStarts /\ start' \in 0 .. MaxStarts
        /\ 0 \in 0 .. MaxStarts /\ 1 .. start \subseteq 1 .. start'
    BY <1>3, StartupAssumption DEF Restart, TypeOK
  <2>2. TypeOK'
    BY <1>3, <2>1 DEF Restart, TypeOK, fileVars, Steps, Hosts
  <2>3. FilesInv'
    BY <1>3 DEF Restart, FilesInv, Steps
  <2>4. \A p \in Pods : PodInv(p)'
    BY <1>3, <2>1 DEF Restart, PodInv, fsBaseURL
  <2> QED BY <2>2, <2>3, <2>4
<1> QED BY <1>1, <1>2, <1>3, <1>4

LEMMA InvStep == IInv /\ [Next]_vars => IInv'
<1> SUFFICES ASSUME IInv, [Next]_vars PROVE IInv'
  OBVIOUS
<1>1. CASE UNCHANGED vars
  BY <1>1 DEF vars, IInv, TypeOK, FilesInv, PodInv, fsBaseURL, fileVars, serverVars
<1> QED BY <1>1, MainStep, PodStep, ProcessStep DEF Next, Finished

LEMMA InvImplies == IInv => OwnPodsServed /\ OldPodsCutOff
<1> SUFFICES ASSUME IInv, at = "serving"
             PROVE  OwnPodsServed /\ OldPodsCutOff
  BY DEF OwnPodsServed, OldPodsCutOff
<1>1. cert = start /\ key = start /\ auth = start /\ start \in Nat \ {0}
      /\ certHost = IF baseURL THEN "base" ELSE "none"
  BY StartupAssumption DEF IInv, FilesInv, TypeOK, Steps
<1>2. OwnPodsServed
  BY <1>1 DEF IInv, PodInv, OwnPodsServed, Trusts, Known, NoPod, fsBaseURL
<1>3. OldPodsCutOff
  BY <1>1 DEF IInv, PodInv, OldPodsCutOff, Trusts, Known, NoPod
<1> QED BY <1>2, <1>3

-----------------------------------------------------------------------------
\* The inductive invariant holds in every state of main.
THEOREM Invariance == Spec => []IInv
BY InvInit, InvStep, PTL DEF Spec

\* main, its files and the pods have their types (main.go 99-190).
THEOREM TypeCorrect == Spec => []TypeOK
<1>1. IInv => TypeOK
  BY DEF IInv
<1> QED BY <1>1, Invariance, PTL

\* A file server that serves has a pair that fits and the trust of the pods of
\* its own start, whatever crashes left on the disk (main.go 108-109, 136,
\* 187, 291-307).
THEOREM OwnPodsAreServed == Spec => []OwnPodsServed
BY Invariance, InvImplies, PTL

\* Pods of earlier starts can no longer use the file server (main.go 108-109,
\* 136).
THEOREM OldPodsAreCutOff == Spec => []OldPodsCutOff
BY Invariance, InvImplies, PTL
=============================================================================
