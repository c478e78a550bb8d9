--------------------------- MODULE PipelineProofs ---------------------------
(***************************************************************************)
(* Pipeline is correct for every set of jobs and every number of crashes:  *)
(* type correctness, the wholeness and the tidiness of a success, the      *)
(* currency of an awaited pod and the finality of a removal.               *)
(***************************************************************************)
EXTENDS Pipeline, TLAPS

\* The client's steps before its call is answered.
Before == Staging \cup {"dial", "tempDir", "call", "recv"}

\* The call, the client that waits for it and the pod it waits for.
CallInv(j) ==
  /\ rpc[j] = "none" => pod[j] = "none"
  /\ rpc[j] = "nil" => pod[j] = "Succeeded"
  /\ rpc[j] = "open" => sidecar # "down"
  /\ rpc[j] = "open" /\ pod[j] # "none" => podGen[j] = gen
  /\ pc[j] \in Before \ {"recv"} => rpc[j] = "none"
  /\ pc[j] = "copy" => rpc[j] = "nil"

\* The temporary directory is there as long as the client needs it.
DirInv(j) ==
  /\ pc[j] \in {"dial", "tempDir"} => dir[j] = "none"
  /\ pc[j] \in Staging \cup {"call", "recv", "copy", "remove"} => dir[j] = "there"
  /\ pc[j] = "rmdir" => dir[j] = "emptied"
  /\ dir[j] = "gone" => pc[j] = "exited" /\ out[j] = "absent"

\* Exit status 0 is decided by the end of the call, after which no pod uploads.
ExitInv(j) ==
  /\ pc[j] \in Before \cup {"copy"} => exit[j] = 99
  /\ exit[j] = 0 => rpc[j] = "nil"
  /\ exit[j] = 0 /\ pc[j] = "rmdir" => out[j] = "absent"
  /\ exit[j] = 0 /\ pc[j] = "exited" => dir[j] \in {"gone", "stuck"}

\* What the containers pass on, unless a failed transfer was overlooked.
WholeInv(j) ==
  /\ pod[j] \in {"setup", "build", "upload", "put"} => kind[j] = "build"
  /\ pod[j] \in {"start", "running"} => kind[j] = "run"
  /\ pod[j] = "put" /\ dir[j] = "there" => out[j] = "partial"
  /\ j \notin masked =>
       /\ pod[j] \in {"build", "upload", "put", "start", "running"} => got[j] = "whole"
       /\ kind[j] = "build" /\ pod[j] = "Succeeded" =>
            got[j] = "whole" /\ (dir[j] = "there" => out[j] = "whole")
       /\ kind[j] = "build" /\ exit[j] = 0 => saved[j] = "whole"

JobInv(j) == CallInv(j) /\ DirInv(j) /\ ExitInv(j) /\ WholeInv(j)

\* A sidecar that is down has not used up its crashes.
GenInv == sidecar = "down" => gen < MaxCrashes

\* The inductive invariant.
IInv == TypeOK /\ GenInv /\ \A j \in Jobs : JobInv(j)

-----------------------------------------------------------------------------
\* The steps of the client.
LEMMA ClientStep ==
  ASSUME IInv, NEW j \in Jobs,
         Dial(j) \/ TempDir(j) \/ Stage(j) \/ StageFails(j) \/ Call(j) \/ Recv(j) \/
         CopyOutput(j) \/ CopyOutputFails(j) \/ RemoveEntries(j) \/ RemoveDirectory(j) \/
         RemoveFails(j)
  PROVE  IInv'
<1> USE DEF IInv, GenInv, JobInv, CallInv, DirInv, ExitInv, WholeInv
<1>1. ASSUME Dial(j) PROVE IInv'
  <2>1. TypeOK' /\ GenInv'
    BY <1>1 DEF Dial, Leave, Goto, sideVars, dirVars, podVars, TypeOK, Commands
  <2>2. \A k \in Jobs : JobInv(k)'
    BY <1>1 DEF Dial, Leave, Goto, sideVars, dirVars, podVars, TypeOK, Before, Staging
  <2> QED BY <2>1, <2>2
<1>2. ASSUME TempDir(j) PROVE IInv'
  <2>1. TypeOK' /\ GenInv'
    BY <1>2 DEF TempDir, Leave, Goto, sideVars, podVars, TypeOK, Staging, Commands
  <2>2. \A k \in Jobs : JobInv(k)'
    BY <1>2 DEF TempDir, Leave, Goto, sideVars, podVars, TypeOK, Before, Staging
  <2> QED BY <2>1, <2>2
<1>3. ASSUME Stage(j) PROVE IInv'
  <2>1. TypeOK' /\ GenInv'
    BY <1>3 DEF Stage, Goto, sideVars, podVars, TypeOK, Staging, Commands, After
  <2>2. \A k \in Jobs : JobInv(k)'
    BY <1>3 DEF Stage, Goto, sideVars, podVars, Before, Staging, After
  <2> QED BY <2>1, <2>2
<1>4. ASSUME StageFails(j) PROVE IInv'
  <2>1. TypeOK' /\ GenInv'
    BY <1>4 DEF StageFails, Leave, Goto, sideVars, dirVars, podVars, TypeOK, Commands
  <2>2. \A k \in Jobs : JobInv(k)'
    BY <1>4 DEF StageFails, Leave, Goto, sideVars, dirVars, podVars, TypeOK, Before,
      Staging
  <2> QED BY <2>1, <2>2
<1>5. ASSUME Call(j) PROVE IInv'
  <2>1. TypeOK' /\ GenInv'
    BY <1>5 DEF Call, Leave, Goto, sideVars, dirVars, podVars, TypeOK, Commands
  <2>2. \A k \in Jobs : JobInv(k)'
    BY <1>5 DEF Call, Leave, Goto, sideVars, dirVars, podVars, TypeOK, Before, Staging
  <2> QED BY <2>1, <2>2
<1>6. ASSUME Recv(j) PROVE IInv'
  <2>1. TypeOK' /\ GenInv'
    BY <1>6 DEF Recv, Leave, Goto, sideVars, dirVars, podVars, TypeOK, Commands
  <2>2. \A k \in Jobs : JobInv(k)'
    BY <1>6 DEF Recv, Leave, Goto, sideVars, dirVars, podVars, TypeOK, Before, Staging
  <2> QED BY <2>1, <2>2
<1>7. ASSUME CopyOutput(j) PROVE IInv'
  <2>1. TypeOK' /\ GenInv'
    BY <1>7 DEF CopyOutput, Leave, Goto, sideVars, dirVars, podVars, TypeOK, Commands
  <2>2. \A k \in Jobs : JobInv(k)'
    BY <1>7 DEF CopyOutput, Leave, Goto, sideVars, dirVars, podVars, TypeOK, Before,
      Staging
  <2> QED BY <2>1, <2>2
<1>8. ASSUME CopyOutputFails(j) PROVE IInv'
  <2>1. TypeOK' /\ GenInv'
    BY <1>8 DEF CopyOutputFails, Leave, Goto, sideVars, dirVars, podVars, TypeOK,
      Commands, Contents
  <2>2. \A k \in Jobs : JobInv(k)'
    BY <1>8 DEF CopyOutputFails, Leave, Goto, sideVars, dirVars, podVars, TypeOK,
      Before, Staging
  <2> QED BY <2>1, <2>2
<1>9. ASSUME RemoveEntries(j) PROVE IInv'
  <2>1. TypeOK' /\ GenInv'
    BY <1>9 DEF RemoveEntries, Goto, sideVars, podVars, TypeOK, Commands, Contents
  <2>2. \A k \in Jobs : JobInv(k)'
    BY <1>9 DEF RemoveEntries, Goto, sideVars, podVars, TypeOK, Before, Staging
  <2> QED BY <2>1, <2>2
<1>10. ASSUME RemoveDirectory(j) PROVE IInv'
  <2>1. TypeOK' /\ GenInv'
    BY <1>10 DEF RemoveDirectory, Goto, sideVars, podVars, TypeOK
  <2>2. \A k \in Jobs : JobInv(k)'
    BY <1>10 DEF RemoveDirectory, Goto, sideVars, podVars, TypeOK, Before, Staging
  <2> QED BY <2>1, <2>2
<1>11. ASSUME RemoveFails(j) PROVE IInv'
  <2>1. TypeOK' /\ GenInv'
    BY <1>11 DEF RemoveFails, Goto, sideVars, podVars, TypeOK, Contents
  <2>2. \A k \in Jobs : JobInv(k)'
    BY <1>11 DEF RemoveFails, Goto, sideVars, podVars, TypeOK, Before, Staging
  <2> QED BY <2>1, <2>2
<1> QED BY <1>1, <1>2, <1>3, <1>4, <1>5, <1>6, <1>7, <1>8, <1>9, <1>10, <1>11

\* The steps of the containers; a pod that succeeded takes none, so what the
\* client found after its call stays.
LEMMA PodStep ==
  ASSUME IInv, NEW j \in Jobs,
         SetupVolume(j) \/ Download(j) \/ Execute(j) \/ Upload(j) \/ UploadRefused(j) \/
         UploadDone(j) \/ ChaincodeEnds(j) \/ PodFails(j)
  PROVE  IInv'
<1> USE DEF IInv, GenInv, JobInv, CallInv, DirInv, ExitInv, WholeInv
<1>1. ASSUME SetupVolume(j) PROVE IInv'
  <2>1. TypeOK' /\ GenInv'
    BY <1>1 DEF SetupVolume, Enter, sideVars, clientVars, dirVars, TypeOK, PodSteps
  <2>2. \A k \in Jobs : JobInv(k)'
    BY <1>1 DEF SetupVolume, Enter, sideVars, clientVars, dirVars
  <2> QED BY <2>1, <2>2
<1>2. ASSUME Download(j) PROVE IInv'
  <2>1. TypeOK' /\ GenInv'
    BY <1>2 DEF Download, Enter, sideVars, clientVars, dirVars, TypeOK, PodSteps
  <2>2. \A k \in Jobs : JobInv(k)'
    BY <1>2 DEF Download, Enter, sideVars, clientVars, dirVars, TypeOK
  <2> QED BY <2>1, <2>2
<1>3. ASSUME Execute(j) PROVE IInv'
  <2>1. TypeOK' /\ GenInv'
    BY <1>3 DEF Execute, Enter, sideVars, clientVars, dirVars, TypeOK, PodSteps
  <2>2. \A k \in Jobs : JobInv(k)'
    BY <1>3 DEF Execute, Enter, sideVars, clientVars, dirVars
  <2> QED BY <2>1, <2>2
<1>4. ASSUME Upload(j) PROVE IInv'
  <2>1. TypeOK' /\ GenInv'
    BY <1>4 DEF Upload, Enter, sideVars, clientVars, TypeOK, PodSteps, Contents
  <2>2. \A k \in Jobs : JobInv(k)'
    BY <1>4 DEF Upload, Enter, sideVars, clientVars, TypeOK
  <2> QED BY <2>1, <2>2
<1>5. ASSUME UploadRefused(j) PROVE IInv'
  <2>1. TypeOK' /\ GenInv'
    BY <1>5 DEF UploadRefused, Enter, sideVars, clientVars, dirVars, TypeOK
  <2>2. \A k \in Jobs : JobInv(k)'
    BY <1>5 DEF UploadRefused, Enter, sideVars, clientVars, dirVars
  <2> QED BY <2>1, <2>2
<1>6. ASSUME UploadDone(j) PROVE IInv'
  <2>1. TypeOK' /\ GenInv'
    BY <1>6 DEF UploadDone, Enter, sideVars, clientVars, TypeOK, Contents
  <2>2. \A k \in Jobs : JobInv(k)'
    BY <1>6 DEF UploadDone, Enter, sideVars, clientVars, TypeOK
  <2> QED BY <2>1, <2>2
<1>7. ASSUME ChaincodeEnds(j) PROVE IInv'
  <2>1. TypeOK' /\ GenInv'
    BY <1>7 DEF ChaincodeEnds, Enter, sideVars, clientVars, dirVars, TypeOK
  <2>2. \A k \in Jobs : JobInv(k)'
    BY <1>7 DEF ChaincodeEnds, Enter, sideVars, clientVars, dirVars
  <2> QED BY <2>1, <2>2
<1>8. ASSUME PodFails(j) PROVE IInv'
  <2>1. TypeOK' /\ GenInv'
    BY <1>8 DEF PodFails, Enter, sideVars, clientVars, dirVars, TypeOK
  <2>2. \A k \in Jobs : JobInv(k)'
    BY <1>8 DEF PodFails, Enter, sideVars, clientVars, dirVars, PodSteps
  <2> QED BY <2>1, <2>2
<1> QED BY <1>1, <1>2, <1>3, <1>4, <1>5, <1>6, <1>7, <1>8

\* A job's pod is created, its client killed, its chaincode run.
LEMMA JobStep ==
  ASSUME IInv, NEW j \in Jobs,
         CreatePod(j) \/ Kill(j) \/ StartRun(j)
  PROVE  IInv'
<1> USE DEF IInv, GenInv, JobInv, CallInv, DirInv, ExitInv, WholeInv
<1>1. ASSUME CreatePod(j) PROVE IInv'
  <2>1. TypeOK' /\ GenInv'
    BY <1>1 DEF CreatePod, sideVars, clientVars, dirVars, TypeOK, PodSteps
  <2>2. \A k \in Jobs : JobInv(k)'
    BY <1>1 DEF CreatePod, sideVars, clientVars, dirVars, TypeOK
  <2> QED BY <2>1, <2>2
<1>2. ASSUME Kill(j) PROVE IInv'
  <2>1. TypeOK' /\ GenInv'
    BY <1>2 DEF Kill, Goto, sideVars, dirVars, podVars, TypeOK
  <2>2. \A k \in Jobs : JobInv(k)'
    BY <1>2 DEF Kill, Goto, sideVars, dirVars, podVars, Before, Staging, Commands
  <2> QED BY <2>1, <2>2
<1>3. ASSUME StartRun(j) PROVE IInv'
  <2>1. TypeOK' /\ GenInv'
    BY <1>3 DEF StartRun, Goto, sideVars, TypeOK, Commands, Contents
  <2>2. \A k \in Jobs : JobInv(k)'
    BY <1>3 DEF StartRun, Goto, sideVars, TypeOK, Staging
  <2> QED BY <2>1, <2>2
<1> QED BY <1>1, <1>2, <1>3

\* The sidecar: a call that is answered with nil has a pod that succeeded, and a
\* crash leaves no call open that the next start's pods could be mistaken for.
LEMMA SidecarStep ==
  ASSUME IInv,
         \/ \E j \in Jobs, e \in {"nil", "err"} : EndCall(j, e)
         \/ Crash \/ Restart \/ ListenFiles
  PROVE  IInv'
<1> USE DEF IInv, GenInv, JobInv, CallInv, DirInv, ExitInv, WholeInv
<1>1. ASSUME NEW j \in Jobs, NEW e \in {"nil", "err"}, EndCall(j, e) PROVE IInv'
  <2>1. TypeOK' /\ GenInv'
    BY <1>1 DEF EndCall, sideVars, clientVars, dirVars, podVars, TypeOK
  <2>2. \A k \in Jobs : JobInv(k)'
    BY <1>1 DEF EndCall, sideVars, clientVars, dirVars, podVars, TypeOK, Before
  <2> QED BY <2>1, <2>2
<1>2. ASSUME Crash PROVE IInv'
  <2>1. TypeOK' /\ GenInv'
    BY <1>2 DEF Crash, clientVars, dirVars, podVars, TypeOK
  <2>2. \A k \in Jobs : JobInv(k)'
    BY <1>2 DEF Crash, clientVars, dirVars, podVars, TypeOK, Before
  <2> QED BY <2>1, <2>2
<1>3. ASSUME Restart PROVE IInv'
  <2>1. gen < MaxCrashes
    BY <1>3 DEF Restart
  <2>2. TypeOK' /\ GenInv'
    BY <1>3, <2>1, PipelineAssumption DEF Restart, clientVars, dirVars, podVars, TypeOK
  <2>3. \A k \in Jobs : JobInv(k)'
    BY <1>3 DEF Restart, clientVars, dirVars, podVars, TypeOK
  <2> QED BY <2>2, <2>3
<1>4. ASSUME ListenFiles PROVE IInv'
  BY <1>4 DEF ListenFiles, clientVars, dirVars, podVars, TypeOK
<1> QED BY <1>1, <1>2, <1>3, <1>4

-----------------------------------------------------------------------------
LEMMA InitIInv == Init => IInv
<1> SUFFICES ASSUME Init PROVE IInv
  OBVIOUS
<1>1. TypeOK /\ GenInv
  BY PipelineAssumption DEF Init, TypeOK, GenInv, Commands, Contents
<1>2. \A j \in Jobs : CallInv(j)
  BY DEF Init, CallInv, Before, Staging
<1>3. \A j \in Jobs : DirInv(j)
  BY DEF Init, DirInv, Staging
<1>4. \A j \in Jobs : exit[j] = 99 /\ pod[j] = "none"
  BY DEF Init
<1>5. \A j \in Jobs : exit[j] # 0
  <2> TAKE j \in Jobs
  <2>1. exit[j] = 99
    BY <1>4
  <2> QED BY <2>1
<1>6. \A j \in Jobs : ExitInv(j) /\ WholeInv(j)
  BY <1>4, <1>5 DEF ExitInv, WholeInv
<1> QED BY <1>1, <1>2, <1>3, <1>6 DEF IInv, JobInv

LEMMA NextIInv == IInv /\ [Next]_vars => IInv'
<1> SUFFICES ASSUME IInv, [Next]_vars PROVE IInv'
  OBVIOUS
<1>1. CASE UNCHANGED vars
  BY <1>1 DEF vars, sideVars, clientVars, dirVars, podVars, IInv, TypeOK, GenInv, JobInv,
    CallInv, DirInv, ExitInv, WholeInv
<1>2. ASSUME NEW j \in Jobs, Client(j) \/ Pod(j) \/ CreatePod(j) \/ Kill(j) \/ StartRun(j)
      PROVE  IInv'
  BY <1>2, ClientStep, PodStep, JobStep DEF Client, Pod
<1> QED BY <1>1, <1>2, SidecarStep DEF Next, Finished

\* IInv is an invariant of Pipeline.
THEOREM Invariance == Spec => []IInv
BY InitIInv, NextIInv, PTL DEF Spec

\* Type correctness of clients, sidecar, pods and directories.
THEOREM TypeCorrect == Spec => []TypeOK
<1>1. IInv => TypeOK
  BY DEF IInv
<1> QED BY <1>1, Invariance, PTL

\* Without an overlooked transfer failure a build that exits with 0 has its whole
\* output and a chaincode that runs is whole, with any number of jobs and crashes
\* (build.go 91-117, run.go 60-102, server.go 396, 422, 534).
THEOREM SuccessesAreWhole == Spec => []SuccessIsWhole
<1>1. IInv => SuccessIsWhole
  BY DEF IInv, JobInv, CallInv, ExitInv, WholeInv, SuccessIsWhole, Built
<1> QED BY <1>1, Invariance, PTL

\* A command that succeeds leaves its directory behind only if RemoveAll itself
\* failed, and no pod uploads to it any more (build.go 60, run.go 54).
THEOREM SuccessesLeaveNothing == Spec => []SuccessLeavesNothing
<1>1. IInv => SuccessLeavesNothing
  BY DEF IInv, JobInv, CallInv, ExitInv, SuccessLeavesNothing
<1> QED BY <1>1, Invariance, PTL

\* The pod of a call that a client waits for is one the running file server
\* knows (main.go 108-109, 153-157).
THEOREM AwaitedPodsAreKnown == Spec => []AwaitedPodIsKnown
<1>1. IInv => AwaitedPodIsKnown
  BY DEF IInv, JobInv, CallInv, AwaitedPodIsKnown
<1> QED BY <1>1, Invariance, PTL

\* What RemovedForGood says of one job.
Gone(i) ==
  dir[i] = "gone" /\ kind'[i] = kind[i] => dir'[i] = "gone" /\ out'[i] = out[i]

\* Only the client's own steps and an upload to a directory that is there change
\* a directory.
LEMMA RemovedStep ==
  IInv /\ [Next]_vars =>
    [\A j \in Jobs : dir[j] = "gone" /\ kind'[j] = kind[j]
       => dir'[j] = "gone" /\ out'[j] = out[j]]_vars
<1> SUFFICES ASSUME IInv, Next, NEW i \in Jobs PROVE Gone(i)
  BY DEF Gone
<1>1. CASE UNCHANGED <<dir, out>>
  BY <1>1 DEF Gone
<1>2. ASSUME NEW j \in Jobs,
             TempDir(j) \/ Stage(j) \/ RemoveEntries(j) \/ RemoveDirectory(j) \/
             RemoveFails(j) \/ StartRun(j)
      PROVE  Gone(i)
  BY <1>2 DEF TempDir, Stage, RemoveEntries, RemoveDirectory, RemoveFails, StartRun, Staging,
    IInv, TypeOK, JobInv, DirInv, Gone
<1>3. ASSUME NEW j \in Jobs, Upload(j) \/ UploadDone(j) PROVE Gone(i)
  BY <1>3 DEF Upload, UploadDone, IInv, TypeOK, JobInv, DirInv, Gone
<1>4. ASSUME NEW j \in Jobs, Client(j) \/ Pod(j) \/ CreatePod(j) \/ Kill(j) \/ StartRun(j)
      PROVE  Gone(i)
  BY <1>1, <1>2, <1>3, <1>4 DEF Client, Pod, Dial, StageFails, Call, Recv, CopyOutput,
    CopyOutputFails, SetupVolume, Download, Execute, UploadRefused, ChaincodeEnds, PodFails,
    CreatePod, Kill, dirVars
<1>5. CASE Crash \/ Restart \/ ListenFiles \/ \E j \in Jobs, e \in {"nil", "err"} : EndCall(j, e)
  BY <1>1, <1>5 DEF Crash, Restart, ListenFiles, EndCall, dirVars
<1>6. CASE UNCHANGED vars
  BY <1>1, <1>6 DEF vars, dirVars
<1> QED BY <1>4, <1>5, <1>6 DEF Next, Finished

\* A temporary directory that was removed stays removed, whatever a pod that
\* outlives its call uploads (handler.go 79).
THEOREM RemovalsAreFinal == Spec => RemovedForGood
BY Invariance, RemovedStep, PTL DEF Spec, RemovedForGood
=============================================================================
