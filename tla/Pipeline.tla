------------------------------ MODULE Pipeline ------------------------------
(***************************************************************************)
(* A chaincode on its way through the system: the build and the run        *)
(* command of the client (pkg/command, cmd/ibp-builder-client), the        *)
(* sidecar's calls, the containers of the pods they create (the scripts in *)
(* pkg/k8sbuilder) and the file server the containers use, with a client   *)
(* that may be killed and a sidecar that may crash.                        *)
(*                                                                         *)
(* A job is one chaincode: the peer lets the client build it and, after    *)
(* exit status 0, run it.  Each command has a temporary directory and a    *)
(* pod of its own.  Server and ExecutePod refine what is one step here of  *)
(* the sidecar, FileTransfer what is one step of the file server.          *)
(***************************************************************************)
EXTENDS Naturals

CONSTANTS
  Jobs,       \* chaincodes
  MaxCrashes  \* bound: how often the sidecar crashes

ASSUME PipelineAssumption == MaxCrashes \in Nat

VARIABLES
  sidecar,  \* "down", "grpc" (calls are served) or "files" (files as well)
  gen,      \* which start of the sidecar this is
  kind,     \* the job's command: "build" or "run"
  pc,       \* where the client is
  exit,     \* its exit status; 99 before
  saved,    \* chaincode-output.tar in the build's output directory
  dir,      \* temporary directory: "none", "there", "emptied", "gone", or kept by
            \* a late entry ("left") or because it could not be removed ("stuck")
  out,      \* chaincode-output.tar in it: "absent", "partial", "whole"
  rpc,      \* the call: "none", "open", "nil", "err"
  pod,      \* the container that runs, or how the pod ended
  podGen,   \* start of the sidecar whose credentials and certificate it has
  got,      \* what its download gave: "none", "partial", "whole"
  masked    \* jobs with a failed transfer that the pod's script did not notice

sideVars   == <<sidecar, gen>>
clientVars == <<kind, pc, exit, saved>>
dirVars    == <<dir, out>>
podVars    == <<pod, podGen, got, masked>>
vars == <<sideVars, clientVars, dirVars, rpc, podVars>>

-----------------------------------------------------------------------------
Contents == {"absent", "partial", "whole"}
Staging  == {"source", "metaInf", "package", "output", "artifacts"}
Commands == Staging \cup {"dial", "tempDir", "call", "recv", "copy", "remove", "rmdir"}
PodSteps == {"setup", "download", "build", "upload", "put", "start", "running"}
Over(j)  == pc[j] \in {"exited", "killed"}

\* The step after file s has been put into the temporary directory.
After(k, s) ==
  CASE s = "source" -> "metaInf"
    [] s = "metaInf" -> "package"
    [] s = "output" -> "package"
    [] s = "package" -> IF k = "build" THEN "call" ELSE "artifacts"
    [] s = "artifacts" -> "call"

\* Does the file server know the pod and the pod the file server?  Both are
\* from the same start of the sidecar.
Reachable(j) == sidecar = "files" /\ podGen[j] = gen

Init ==
  /\ sidecar = "files" /\ gen = 0
  /\ kind = [j \in Jobs |-> "build"] /\ pc = [j \in Jobs |-> "dial"]
  /\ exit = [j \in Jobs |-> 99] /\ saved = [j \in Jobs |-> "absent"]
  /\ dir = [j \in Jobs |-> "none"] /\ out = [j \in Jobs |-> "absent"]
  /\ rpc = [j \in Jobs |-> "none"]
  /\ pod = [j \in Jobs |-> "none"] /\ podGen = [j \in Jobs |-> 0]
  /\ got = [j \in Jobs |-> "none"] /\ masked = {}

-----------------------------------------------------------------------------
(***************************************************************************)
(* The client.                                                             *)
(***************************************************************************)
Goto(j, step) == pc' = [pc EXCEPT ![j] = step]

\* Run returns: the deferred RemoveAll comes first, if there is a directory.
Leave(j, code) ==
  /\ exit' = [exit EXCEPT ![j] = code]
  /\ Goto(j, IF dir[j] = "none" THEN "exited" ELSE "remove")

\* main: the connection must be there within five seconds.
Dial(j) ==
  /\ pc[j] = "dial"
  /\ \/ sidecar # "down" /\ Goto(j, "tempDir") /\ UNCHANGED exit
     \/ Leave(j, 10)
  /\ UNCHANGED <<sideVars, kind, saved, dirVars, rpc, podVars>>

TempDir(j) ==
  /\ pc[j] = "tempDir"
  /\ \/ /\ dir' = [dir EXCEPT ![j] = "there"]
        /\ Goto(j, IF kind[j] = "build" THEN "source" ELSE "output")
        /\ UNCHANGED exit
     \/ Leave(j, 3) /\ UNCHANGED dir
  /\ UNCHANGED <<sideVars, kind, saved, out, rpc, podVars>>

\* createTar (build) or CopyFile (run) of one file.
Stage(j) ==
  /\ pc[j] \in Staging
  /\ pc[j] = "output" => saved[j] # "absent"
  /\ Goto(j, After(kind[j], pc[j]))
  /\ out' = IF pc[j] = "output" THEN [out EXCEPT ![j] = saved[j]] ELSE out
  /\ UNCHANGED <<sideVars, kind, exit, saved, dir, rpc, podVars>>

StageFails(j) ==
  /\ pc[j] \in Staging
  /\ Leave(j, 3)
  /\ UNCHANGED <<sideVars, kind, saved, dirVars, rpc, podVars>>

Call(j) ==
  /\ pc[j] = "call"
  /\ \/ /\ sidecar # "down"
        /\ rpc' = [rpc EXCEPT ![j] = "open"] /\ Goto(j, "recv") /\ UNCHANGED exit
     \/ Leave(j, 3) /\ UNCHANGED rpc
  /\ UNCHANGED <<sideVars, kind, saved, dirVars, podVars>>

\* Fault: every end of the stream counts as io.EOF.
RecvAnyEnd(j) ==
  /\ pc[j] = "recv" /\ rpc[j] \in {"nil", "err"}
  /\ IF kind[j] = "build" THEN Goto(j, "copy") /\ UNCHANGED exit ELSE Leave(j, 0)
  /\ UNCHANGED <<sideVars, kind, saved, dirVars, rpc, podVars>>

\* Fault: the client goes on receiving after an error.
RecvRetries(j) ==
  /\ pc[j] = "recv" /\ rpc[j] \in {"nil", "err"}
  /\ IF rpc[j] = "err" THEN UNCHANGED <<pc, exit>>
     ELSE IF kind[j] = "build" THEN Goto(j, "copy") /\ UNCHANGED exit ELSE Leave(j, 0)
  /\ UNCHANGED <<sideVars, kind, saved, dirVars, rpc, podVars>>

\* The end of the loop over Recv; the log lines before it are only printed.
Recv(j) ==
  /\ pc[j] = "recv" /\ rpc[j] \in {"nil", "err"}
  /\ IF rpc[j] = "err" THEN Leave(j, 3)
     ELSE IF kind[j] = "build" THEN Goto(j, "copy") /\ UNCHANGED exit ELSE Leave(j, 0)
  /\ UNCHANGED <<sideVars, kind, saved, dirVars, rpc, podVars>>

\* CopyDir of the temporary directory to the output directory.
CopyOutput(j) ==
  /\ pc[j] = "copy"
  /\ saved' = [saved EXCEPT ![j] = out[j]]
  /\ Leave(j, 0)
  /\ UNCHANGED <<sideVars, kind, dirVars, rpc, podVars>>

CopyOutputFails(j) ==
  /\ pc[j] = "copy"
  /\ saved' \in {[saved EXCEPT ![j] = c] : c \in {"absent", "partial", out[j]}}
  /\ Leave(j, 3)
  /\ UNCHANGED <<sideVars, kind, dirVars, rpc, podVars>>

\* RemoveAll removes the entries and then the directory, which stays if there
\* is a new entry.
RemoveEntries(j) ==
  /\ pc[j] = "remove"
  /\ dir' = [dir EXCEPT ![j] = "emptied"] /\ out' = [out EXCEPT ![j] = "absent"]
  /\ Goto(j, "rmdir")
  /\ UNCHANGED <<sideVars, kind, exit, saved, rpc, podVars>>

RemoveDirectory(j) ==
  /\ pc[j] = "rmdir"
  /\ dir' = [dir EXCEPT ![j] = IF out[j] = "absent" THEN "gone" ELSE "left"]
  /\ Goto(j, "exited")
  /\ UNCHANGED <<sideVars, kind, exit, saved, out, rpc, podVars>>

\* RemoveAll fails, with some of the entries removed; its error is dropped.
RemoveFails(j) ==
  /\ pc[j] \in {"remove", "rmdir"}
  /\ dir' = [dir EXCEPT ![j] = "stuck"]
  /\ \/ UNCHANGED out
     \/ pc[j] = "remove" /\ out' = [out EXCEPT ![j] = "absent"]
  /\ Goto(j, "exited")
  /\ UNCHANGED <<sideVars, kind, exit, saved, rpc, podVars>>

Client(j) ==
  \/ Dial(j) \/ TempDir(j) \/ Stage(j) \/ StageFails(j) \/ Call(j) \/ Recv(j)
  \/ CopyOutput(j) \/ CopyOutputFails(j)
  \/ RemoveEntries(j) \/ RemoveDirectory(j) \/ RemoveFails(j)

-----------------------------------------------------------------------------
(***************************************************************************)
(* The sidecar's side of the call.                                         *)
(***************************************************************************)
\* Fault: the pods get the credentials of the sidecar's first start.
CreatePodOldAuth(j) ==
  /\ rpc[j] = "open" /\ pod[j] = "none" /\ sidecar # "down"
  /\ pod' = [pod EXCEPT ![j] = IF kind[j] = "build" THEN "setup" ELSE "download"]
  /\ podGen' = [podGen EXCEPT ![j] = 0]
  /\ UNCHANGED <<sideVars, clientVars, dirVars, rpc, got, masked>>

CreatePod(j) ==
  /\ rpc[j] = "open" /\ pod[j] = "none" /\ sidecar # "down"
  /\ pod' = [pod EXCEPT ![j] = IF kind[j] = "build" THEN "setup" ELSE "download"]
  /\ podGen' = [podGen EXCEPT ![j] = gen]
  /\ UNCHANGED <<sideVars, clientVars, dirVars, rpc, got, masked>>

\* Fault: the call does not wait for the last container of the pod.
EndCallEarly(j, e) ==
  /\ rpc[j] = "open" /\ sidecar # "down"
  /\ e = "nil" => pod[j] \in {"upload", "put", "Succeeded"}
  /\ rpc' = [rpc EXCEPT ![j] = e]
  /\ UNCHANGED <<sideVars, clientVars, dirVars, podVars>>

\* PodExecution: nil only for a pod that succeeded, an error at any time, and
\* then the pod may go on.
EndCall(j, e) ==
  /\ rpc[j] = "open" /\ sidecar # "down"
  /\ e = "nil" => pod[j] = "Succeeded"
  /\ rpc' = [rpc EXCEPT ![j] = e]
  /\ UNCHANGED <<sideVars, clientVars, dirVars, podVars>>

\* The calls of a process that crashes break (external).
Crash ==
  /\ sidecar # "down" /\ gen < MaxCrashes
  /\ sidecar' = "down"
  /\ rpc' = [j \in Jobs |-> IF rpc[j] = "open" THEN "err" ELSE rpc[j]]
  /\ UNCHANGED <<gen, clientVars, dirVars, podVars>>

\* New credentials and a new certificate; calls are served before files are.
Restart ==
  /\ sidecar = "down" /\ sidecar' = "grpc" /\ gen' = gen + 1
  /\ UNCHANGED <<clientVars, dirVars, rpc, podVars>>

ListenFiles ==
  /\ sidecar = "grpc" /\ sidecar' = "files"
  /\ UNCHANGED <<gen, clientVars, dirVars, rpc, podVars>>

-----------------------------------------------------------------------------
(***************************************************************************)
(* The containers of the pod, one after the other, and the file server.    *)
(***************************************************************************)
Enter(j, step) == pod' = [pod EXCEPT ![j] = step]

\* The certificate is written to the volume.
SetupVolume(j) ==
  /\ pod[j] = "setup"
  /\ Enter(j, "download")
  /\ UNCHANGED <<sideVars, clientVars, dirVars, rpc, podGen, got, masked>>

\* curl | tar: the container's status is the one of tar, which notices an empty
\* or a foreign input but not one that ends between two entries.
Download(j) ==
  /\ pod[j] = "download" /\ Reachable(j)
  /\ dir[j] \in {"there", "stuck"} /\ (kind[j] = "run" => out[j] # "absent")
  /\ Enter(j, IF kind[j] = "build" THEN "build" ELSE "start")
  /\ LET file == IF kind[j] = "build" THEN "whole" ELSE out[j] IN
     \/ file = "whole" /\ got' = [got EXCEPT ![j] = "whole"] /\ UNCHANGED masked
     \/ got' = [got EXCEPT ![j] = "partial"] /\ masked' = masked \cup {j}
  /\ UNCHANGED <<sideVars, clientVars, dirVars, rpc, podGen>>

\* The build script of the chaincode's language, or the start of the chaincode.
Execute(j) ==
  /\ pod[j] \in {"build", "start"}
  /\ Enter(j, IF pod[j] = "build" THEN "upload" ELSE "running")
  /\ UNCHANGED <<sideVars, clientVars, dirVars, rpc, podGen, got, masked>>

\* Fault: the file server makes the directory if it is missing.
UploadMkdir(j) ==
  /\ pod[j] = "upload" /\ Reachable(j)
  /\ out[j] = "absent"
  /\ Enter(j, "put") /\ out' = [out EXCEPT ![j] = "partial"]
  /\ dir' = [dir EXCEPT ![j] = IF dir[j] = "gone" THEN "left" ELSE dir[j]]
  /\ UNCHANGED <<sideVars, clientVars, rpc, podGen, got, masked>>

\* curl --upload-file: the file server creates the file exclusively.
Upload(j) ==
  /\ pod[j] = "upload" /\ Reachable(j)
  /\ out[j] = "absent" /\ dir[j] \in {"there", "emptied", "stuck"}
  /\ Enter(j, "put") /\ out' = [out EXCEPT ![j] = "partial"]
  /\ UNCHANGED <<sideVars, clientVars, dir, rpc, podGen, got, masked>>

\* The file server refuses the upload, for want of the directory or for its
\* storage, or breaks it off; curl has no --fail and exits with 0.
UploadRefused(j) ==
  /\ pod[j] \in {"upload", "put"} /\ Reachable(j)
  /\ Enter(j, "Succeeded") /\ masked' = masked \cup {j}
  /\ UNCHANGED <<sideVars, clientVars, dirVars, rpc, podGen, got>>

UploadDone(j) ==
  /\ pod[j] = "put" /\ Reachable(j)
  /\ Enter(j, "Succeeded")
  /\ out' = IF out[j] = "partial" THEN [out EXCEPT ![j] = "whole"] ELSE out
  /\ UNCHANGED <<sideVars, clientVars, dir, rpc, podGen, got, masked>>

ChaincodeEnds(j) ==
  /\ pod[j] = "running" /\ Enter(j, "Succeeded")
  /\ UNCHANGED <<sideVars, clientVars, dirVars, rpc, podGen, got, masked>>

\* A container fails, loses the file server or is killed (external).
PodFails(j) ==
  /\ pod[j] \in PodSteps /\ Enter(j, "Failed")
  /\ UNCHANGED <<sideVars, clientVars, dirVars, rpc, podGen, got, masked>>

Pod(j) ==
  \/ SetupVolume(j) \/ Download(j) \/ Execute(j) \/ Upload(j) \/ UploadRefused(j)
  \/ UploadDone(j) \/ ChaincodeEnds(j) \/ PodFails(j)

-----------------------------------------------------------------------------
(***************************************************************************)
(* The peer (external).                                                    *)
(***************************************************************************)
Kill(j) ==
  /\ pc[j] \in Commands \ {"dial"}
  /\ Goto(j, "killed")
  /\ UNCHANGED <<sideVars, kind, exit, saved, dirVars, rpc, podVars>>

StartRun(j) ==
  /\ pc[j] = "exited" /\ exit[j] = 0 /\ kind[j] = "build"
  /\ kind' = [kind EXCEPT ![j] = "run"] /\ Goto(j, "dial")
  /\ exit' = [exit EXCEPT ![j] = 99]
  /\ dir' = [dir EXCEPT ![j] = "none"] /\ out' = [out EXCEPT ![j] = "absent"]
  /\ rpc' = [rpc EXCEPT ![j] = "none"] /\ pod' = [pod EXCEPT ![j] = "none"]
  /\ got' = [got EXCEPT ![j] = "none"]
  /\ UNCHANGED <<sideVars, saved, podGen, masked>>

Finished == (\A j \in Jobs : Over(j)) /\ UNCHANGED vars

Next ==
  \/ \E j \in Jobs : Client(j) \/ Pod(j) \/ CreatePod(j) \/ Kill(j) \/ StartRun(j)
  \/ \E j \in Jobs, e \in {"nil", "err"} : EndCall(j, e)
  \/ Crash \/ Restart \/ ListenFiles \/ Finished

Spec == Init /\ [][Next]_vars

\* A command that can go on does; the sidecar is restarted and ends each call,
\* because its requests and watches time out.  Nothing is assumed of pods.
FairSpec ==
  /\ Spec /\ WF_vars(Restart \/ ListenFiles)
  /\ \A j \in Jobs : WF_vars(Client(j)) /\ WF_vars(\E e \in {"nil", "err"} : EndCall(j, e))

-----------------------------------------------------------------------------
\* Type invariant of clients, sidecar, pods and directories.
TypeOK ==
  /\ sidecar \in {"down", "grpc", "files"} /\ gen \in 0 .. MaxCrashes
  /\ kind \in [Jobs -> {"build", "run"}]
  /\ pc \in [Jobs -> Commands \cup {"exited", "killed"}]
  /\ exit \in [Jobs -> {0, 3, 10, 99}] /\ saved \in [Jobs -> Contents]
  /\ dir \in [Jobs -> {"none", "there", "emptied", "gone", "left", "stuck"}]
  /\ out \in [Jobs -> Contents] /\ rpc \in [Jobs -> {"none", "open", "nil", "err"}]
  /\ pod \in [Jobs -> PodSteps \cup {"none", "Succeeded", "Failed"}]
  /\ podGen \in [Jobs -> 0 .. MaxCrashes]
  /\ got \in [Jobs -> {"none", "partial", "whole"}] /\ masked \subseteq Jobs

Built(j) == kind[j] = "build" /\ pc[j] = "exited" /\ exit[j] = 0

\* Nothing but a transfer failure that a pod's script overlooks can spoil a
\* success: otherwise a build that exits with 0 was made from the whole source
\* and has left its whole output, and a chaincode that runs is whole
\* (build.go 91-117, run.go 60-102, server.go 396, 422, 534).
SuccessIsWhole ==
  \A j \in Jobs \ masked :
    /\ Built(j) => saved[j] = "whole" /\ got[j] = "whole"
    /\ pod[j] = "running" => got[j] = "whole"

\* A command that succeeds leaves its directory behind only if RemoveAll itself
\* failed, which it does not report: no pod uploads to the directory any more
\* while it is removed, or to what could not be removed (build.go 60, run.go 54).
SuccessLeavesNothing ==
  \A j \in Jobs : pc[j] = "exited" /\ exit[j] = 0 =>
    dir[j] \in {"gone", "stuck"} /\ pod[j] \notin {"upload", "put"}

\* What integration/buildpack_test.go 152-153 expects of a build: after exit status
\* 0 the output directory has chaincode-output.tar (build.go 91-117).
BuiltHasOutput == \A j \in Jobs : Built(j) => saved[j] # "absent"

\* While a client waits for its call, the call's pod is one the running file
\* server knows: credentials of an earlier start belong to calls that broke
\* with it (main.go 108-109, 153-157).
AwaitedPodIsKnown ==
  \A j \in Jobs : rpc[j] = "open" /\ pod[j] # "none" => podGen[j] = gen

\* A late upload of a pod that outlives its call brings nothing back: a
\* temporary directory that was removed stays removed (handler.go 79).
RemovedForGood ==
  [][\A j \in Jobs : dir[j] = "gone" /\ kind'[j] = kind[j]
       => dir'[j] = "gone" /\ out'[j] = out[j]]_vars

\* Every command of the client ends, though it sets no deadline for its call.
CommandsEnd == \A j \in Jobs : pc[j] = "dial" ~> Over(j)
=============================================================================
