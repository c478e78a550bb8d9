------------------------------- MODULE Server -------------------------------
(***************************************************************************)
(* The sidecar: concurrent calls of Server.Build and Server.Run            *)
(* (pkg/k8sbuilder/server.go), the pods and crypto secrets they create,    *)
(* and main's cleanup of completed pods when the process starts            *)
(* (cmd/ibp-builder/main.go, pkg/pod/handler.go).  The process may crash   *)
(* between any two requests to Kubernetes and is restarted by it.          *)
(*                                                                         *)
(* A call stands for its UUID: it names the call's pod and its secret.     *)
(* The event loop of executePod is one step here, Await; what it promises  *)
(* is what the ExecutePod module establishes of it.                        *)
(***************************************************************************)
EXTENDS Naturals

CONSTANTS
  Calls,       \* the RPCs the sidecar receives
  MaxCrashes   \* bound: how often the sidecar crashes

ASSUME ServerAssumption == MaxCrashes \in Nat

VARIABLES
  up,       \* the process: "down", "listing", "deleting" (startup) or "serving"
  crashes,  \* how often it crashed
  todo,     \* completed pods that startup has still to delete
  peerEnv,  \* are PEER_POD_NAME and PEER_POD_UID set?
  stage,    \* of a call: "BUILD" or "RUN"
  ccType,   \* chaincode type in the call's metadata
  pc,       \* where the call is
  exec,     \* what its executePod returned
  res,      \* what the call returns
  secret,   \* its crypto secret: "none", "unowned", "owned" or "gone"
  exists,   \* its pod object: "none", "live", "deleting" or "gone"
  phase,    \* its pod's phase
  blind     \* calls whose cleanup could not read the secret

processVars == <<up, crashes, todo, peerEnv>>
callVars    == <<stage, ccType, pc, exec, res, blind>>
kubeVars    == <<secret, exists, phase>>
vars == <<processVars, callVars, kubeVars>>

-----------------------------------------------------------------------------
\* golang, java, node and executable, in any case, differ in the container only.
Types == {"supported", "external", "unsupported"}

\* Is there a container for the call's chaincode?  Neither switch has one for
\* "external".
Supported(r) == ccType[r] = "supported"

\* A run pod has a volume for the secret of its call.
MountsSecret(r) == stage[r] = "RUN"

Outcomes == {"ok", "refused", "lost"}

\* A request that changes an object succeeds, is refused, or is carried out
\* although its caller gets an error (the answer is lost).
Applied(o) == o # "refused"
Failed(o)  == o # "ok"

ExecResults == {"none", "nil", "errWatch", "errCreate", "errReference",
                "errPodFailed", "errAwait"}
Results == ExecResults \cup {"errMetadata", "errRunMetadata", "errSecret",
                             "errContainer", "errEnv", "errDelete"}
Steps == {"idle", "metadata", "runMetadata", "createSecret", "container", "watch",
          "createPod", "getSecret", "updateSecret", "await", "deletePod", "cleanup",
          "deleteSecret", "returned", "killed"}

Over(r) == pc[r] \in {"returned", "killed"}

Init ==
  /\ up = "listing" /\ crashes = 0 /\ todo = {} /\ peerEnv \in BOOLEAN
  /\ stage  = [r \in Calls |-> "BUILD"]
  /\ ccType = [r \in Calls |-> "supported"]
  /\ pc     = [r \in Calls |-> "idle"]
  /\ exec   = [r \in Calls |-> "none"]
  /\ res    = [r \in Calls |-> "none"]
  /\ secret = [r \in Calls |-> "none"]
  /\ exists = [r \in Calls |-> "none"]
  /\ phase  = [r \in Calls |-> "Pending"]
  /\ blind = {}

-----------------------------------------------------------------------------
(***************************************************************************)
(* Build and Run up to executePod.                                         *)
(***************************************************************************)
Goto(r, step) == pc' = [pc EXCEPT ![r] = step]

\* A return before anything is deferred.
Return(r, e) == Goto(r, "returned") /\ res' = [res EXCEPT ![r] = e]

\* A return once Run has deferred deleteCryptoSecret; Build defers nothing.
Unwind(r, e) ==
  /\ Goto(r, IF stage[r] = "RUN" THEN "cleanup" ELSE "returned")
  /\ res' = [res EXCEPT ![r] = e]

Receive(r, s) ==
  /\ up = "serving" /\ pc[r] = "idle"
  /\ stage' = [stage EXCEPT ![r] = s]
  /\ Goto(r, "metadata")
  /\ UNCHANGED <<processVars, ccType, exec, res, blind, kubeVars>>

ExtractMetadata(r, t) ==
  /\ pc[r] = "metadata"
  /\ ccType' = [ccType EXCEPT ![r] = t]
  /\ \/ stage[r] = "BUILD" /\ Goto(r, "container") /\ UNCHANGED res
     \/ stage[r] = "RUN" /\ t = "external" /\ Return(r, "nil")
     \/ stage[r] = "RUN" /\ t # "external" /\ Goto(r, "runMetadata") /\ UNCHANGED res
  /\ UNCHANGED <<processVars, stage, exec, blind, kubeVars>>

ExtractMetadataFails(r) ==
  /\ pc[r] = "metadata"
  /\ Return(r, "errMetadata")
  /\ UNCHANGED <<processVars, stage, ccType, exec, blind, kubeVars>>

ReadRunMetadata(r) ==
  /\ pc[r] = "runMetadata"
  /\ Goto(r, "createSecret")
  /\ UNCHANGED <<processVars, stage, ccType, exec, res, blind, kubeVars>>

ReadRunMetadataFails(r) ==
  /\ pc[r] = "runMetadata"
  /\ Return(r, "errRunMetadata")
  /\ UNCHANGED <<processVars, stage, ccType, exec, blind, kubeVars>>

\* createCryptoSecret; the cleanup is deferred only after it succeeded.
CreateSecret(r, o) ==
  /\ pc[r] = "createSecret"
  /\ secret' = IF Applied(o) THEN [secret EXCEPT ![r] = "unowned"] ELSE secret
  /\ IF Failed(o) THEN Return(r, "errSecret")
                  ELSE Goto(r, "container") /\ UNCHANGED res
  /\ UNCHANGED <<processVars, stage, ccType, exec, blind, exists, phase>>

\* Fault: an error after the secret was created returns without the cleanup.
DefineContainerNoCleanup(r) ==
  /\ pc[r] = "container"
  /\ IF ~Supported(r) THEN Return(r, "errContainer")
     ELSE IF ~peerEnv THEN Return(r, "errEnv")
     ELSE Goto(r, "watch") /\ UNCHANGED res
  /\ UNCHANGED <<processVars, stage, ccType, exec, blind, kubeVars>>

\* buildContainerDefinition or runContainerDefinition, then the environment.
DefineContainer(r) ==
  /\ pc[r] = "container"
  /\ IF ~Supported(r) THEN Unwind(r, "errContainer")
     ELSE IF ~peerEnv THEN Unwind(r, "errEnv")
     ELSE Goto(r, "watch") /\ UNCHANGED res
  /\ UNCHANGED <<processVars, stage, ccType, exec, blind, kubeVars>>

-----------------------------------------------------------------------------
(***************************************************************************)
(* executePod.                                                             *)
(***************************************************************************)
\* executePod returns e without having deferred anything.
ExecReturns(r, e) == exec' = [exec EXCEPT ![r] = e] /\ Unwind(r, e)

WatchPod(r) ==
  /\ pc[r] = "watch"
  /\ Goto(r, "createPod")
  /\ UNCHANGED <<processVars, stage, ccType, exec, res, blind, kubeVars>>

WatchPodFails(r) ==
  /\ pc[r] = "watch"
  /\ ExecReturns(r, "errWatch")
  /\ UNCHANGED <<processVars, stage, ccType, blind, kubeVars>>

CreatePod(r, o) ==
  /\ pc[r] = "createPod"
  /\ exists' = IF Applied(o) THEN [exists EXCEPT ![r] = "live"] ELSE exists
  /\ IF Failed(o) THEN ExecReturns(r, "errCreate")
     ELSE /\ Goto(r, IF stage[r] = "RUN" THEN "getSecret" ELSE "await")
          /\ UNCHANGED <<exec, res>>
  /\ UNCHANGED <<processVars, stage, ccType, blind, secret, phase>>

\* addControllerReferenceToCryptoSecret: Get, then Update.
GetSecret(r) ==
  /\ pc[r] = "getSecret" /\ secret[r] \in {"unowned", "owned"}
  /\ Goto(r, "updateSecret")
  /\ UNCHANGED <<processVars, stage, ccType, exec, res, blind, kubeVars>>

\* Fault: executePod returns the error of another request.
GetSecretFailsMixedUp(r) ==
  /\ pc[r] = "getSecret"
  /\ ExecReturns(r, "errSecret")
  /\ UNCHANGED <<processVars, stage, ccType, blind, kubeVars>>

\* Fault: executePod starts again for as long as the secret cannot be read.
GetSecretFailsRetries(r) ==
  /\ pc[r] = "getSecret"
  /\ Goto(r, "watch")
  /\ UNCHANGED <<processVars, stage, ccType, exec, res, blind, kubeVars>>

GetSecretFails(r) ==
  /\ pc[r] = "getSecret"
  /\ ExecReturns(r, "errReference")
  /\ UNCHANGED <<processVars, stage, ccType, blind, kubeVars>>

\* Fault: the owner reference is set on the copy but not written back.
UpdateSecretNotStored(r, o) ==
  /\ pc[r] = "updateSecret"
  /\ IF Failed(o) THEN ExecReturns(r, "errReference")
                  ELSE Goto(r, "await") /\ UNCHANGED <<exec, res>>
  /\ UNCHANGED <<processVars, stage, ccType, blind, kubeVars>>

UpdateSecret(r, o) ==
  /\ pc[r] = "updateSecret"
  /\ secret' = IF Applied(o) THEN [secret EXCEPT ![r] = "owned"] ELSE secret
  /\ IF Failed(o) THEN ExecReturns(r, "errReference")
                  ELSE Goto(r, "await") /\ UNCHANGED <<exec, res>>
  /\ UNCHANGED <<processVars, stage, ccType, blind, exists, phase>>

\* Fault: any end of the pod counts as success.
AwaitAnyEnd(r, e) ==
  /\ pc[r] = "await"
  /\ e # "errAwait" => phase[r] \in {"Succeeded", "Failed"}
  /\ exec' = [exec EXCEPT ![r] = e]
  /\ IF stage[r] = "BUILD" THEN Goto(r, "deletePod") /\ res' = [res EXCEPT ![r] = e]
                           ELSE Unwind(r, e)
  /\ UNCHANGED <<processVars, stage, ccType, blind, kubeVars>>

\* The event loop ends: for the pod, or (errAwait) for the context or the
\* watch.  A build pod is deleted by a deferred function of executePod.
Await(r, e) ==
  /\ pc[r] = "await"
  /\ e = "nil" => phase[r] = "Succeeded"
  /\ e = "errPodFailed" => phase[r] = "Failed"
  /\ exec' = [exec EXCEPT ![r] = e]
  /\ IF stage[r] = "BUILD" THEN Goto(r, "deletePod") /\ res' = [res EXCEPT ![r] = e]
                           ELSE Unwind(r, e)
  /\ UNCHANGED <<processVars, stage, ccType, blind, kubeVars>>

\* What a Delete request does to pod r; one that is gone is an error.
PodDeleted(r, o) ==
  /\ exists[r] = "gone" => o = "refused"
  /\ exists' = IF Applied(o) THEN [exists EXCEPT ![r] = "deleting"] ELSE exists

\* deletePod: an error is logged and dropped.
DeletePod(r, o) ==
  /\ pc[r] = "deletePod"
  /\ PodDeleted(r, o)
  /\ Goto(r, "returned")
  /\ UNCHANGED <<processVars, stage, ccType, exec, res, blind, secret, phase>>

-----------------------------------------------------------------------------
(***************************************************************************)
(* deleteCryptoSecret, deferred by Run.                                    *)
(***************************************************************************)
\* Fault: the owner references are not looked at.
CleanupAnySecret(r) ==
  /\ pc[r] = "cleanup"
  /\ Goto(r, IF secret[r] \in {"unowned", "owned"} THEN "deleteSecret" ELSE "returned")
  /\ UNCHANGED <<processVars, stage, ccType, exec, res, blind, kubeVars>>

\* Get: a secret that is gone or has an owner is left alone.
Cleanup(r) ==
  /\ pc[r] = "cleanup"
  /\ Goto(r, IF secret[r] = "unowned" THEN "deleteSecret" ELSE "returned")
  /\ UNCHANGED <<processVars, stage, ccType, exec, res, blind, kubeVars>>

\* Any other error of Get is taken for a secret that is gone.
CleanupGetFails(r) ==
  /\ pc[r] = "cleanup"
  /\ blind' = blind \cup {r}
  /\ Goto(r, "returned")
  /\ UNCHANGED <<processVars, stage, ccType, exec, res, kubeVars>>

\* An error of Delete replaces the result of the call.
DeleteSecret(r, o) ==
  /\ pc[r] = "deleteSecret"
  /\ secret' = IF Applied(o) THEN [secret EXCEPT ![r] = "gone"] ELSE secret
  /\ IF Failed(o) THEN Return(r, "errDelete")
                  ELSE Goto(r, "returned") /\ UNCHANGED res
  /\ UNCHANGED <<processVars, stage, ccType, exec, blind, exists, phase>>

-----------------------------------------------------------------------------
(***************************************************************************)
(* The process: crash (external), restart, and the cleanup in main.        *)
(***************************************************************************)
Crash ==
  /\ up # "down" /\ crashes < MaxCrashes
  /\ up' = "down" /\ crashes' = crashes + 1 /\ todo' = {}
  /\ pc' = [r \in Calls |-> IF pc[r] \in {"idle", "returned"} THEN pc[r] ELSE "killed"]
  /\ UNCHANGED <<peerEnv, stage, ccType, exec, res, blind, kubeVars>>

Restart ==
  /\ up = "down" /\ up' = "listing"
  /\ UNCHANGED <<crashes, todo, peerEnv, callVars, kubeVars>>

\* Fault: pods are listed whatever the state of their container.
ListAllPods ==
  /\ up = "listing" /\ up' = "deleting"
  /\ todo' = {r \in Calls : exists[r] \in {"live", "deleting"}}
  /\ UNCHANGED <<crashes, peerEnv, callVars, kubeVars>>

\* Build pods carry the label of the peer too, so they are listed as well.
ListCompletedExecutionPods ==
  /\ up = "listing" /\ up' = "deleting"
  /\ todo' = {r \in Calls : exists[r] \in {"live", "deleting"} /\ phase[r] = "Succeeded"}
  /\ UNCHANGED <<crashes, peerEnv, callVars, kubeVars>>

\* The error is printed; DeletePods is given an empty list.
ListFails ==
  /\ up = "listing" /\ up' = "deleting" /\ todo' = {}
  /\ UNCHANGED <<crashes, peerEnv, callVars, kubeVars>>

\* Fault: a pod whose deletion fails is tried again.
DeletePodsRetries(r, o) ==
  /\ up = "deleting" /\ r \in todo
  /\ PodDeleted(r, o)
  /\ todo' = IF Failed(o) THEN todo ELSE todo \ {r}
  /\ UNCHANGED <<up, crashes, peerEnv, callVars, secret, phase>>

\* One round of DeletePods; the first error ends it.
DeletePods(r, o) ==
  /\ up = "deleting" /\ r \in todo
  /\ PodDeleted(r, o)
  /\ todo' = IF Failed(o) THEN {} ELSE todo \ {r}
  /\ UNCHANGED <<up, crashes, peerEnv, callVars, secret, phase>>

Serve ==
  /\ up = "deleting" /\ todo = {}
  /\ up' = "serving"
  /\ UNCHANGED <<crashes, todo, peerEnv, callVars, kubeVars>>

-----------------------------------------------------------------------------
(***************************************************************************)
(* Kubernetes (external).                                                  *)
(***************************************************************************)
KubeOnly == UNCHANGED <<processVars, callVars>>

\* The containers of a run pod wait for the secret they mount.
StartPod(r) ==
  /\ exists[r] = "live" /\ phase[r] = "Pending"
  /\ MountsSecret(r) => secret[r] \in {"unowned", "owned"}
  /\ phase' = [phase EXCEPT ![r] = "Running"]
  /\ KubeOnly /\ UNCHANGED <<secret, exists>>

EndPod(r, p) ==
  /\ exists[r] \in {"live", "deleting"}
  /\ phase[r] = "Running" \/ (phase[r] = "Pending" /\ p = "Failed")
  /\ phase' = [phase EXCEPT ![r] = p]
  /\ KubeOnly /\ UNCHANGED <<secret, exists>>

\* A deletion completes, or somebody else deletes the pod.
RemovePod(r) ==
  /\ exists[r] \in {"live", "deleting"}
  /\ exists' = [exists EXCEPT ![r] = "gone"]
  /\ KubeOnly /\ UNCHANGED <<secret, phase>>

\* Garbage collection of a secret whose owner is gone.
CollectSecret(r) ==
  /\ secret[r] = "owned" /\ exists[r] = "gone"
  /\ secret' = [secret EXCEPT ![r] = "gone"]
  /\ KubeOnly /\ UNCHANGED <<exists, phase>>

-----------------------------------------------------------------------------
\* The steps of the goroutine that serves call r.
Step(r) ==
  \/ \E t \in Types : ExtractMetadata(r, t)
  \/ ExtractMetadataFails(r) \/ ReadRunMetadata(r) \/ ReadRunMetadataFails(r)
  \/ DefineContainer(r) \/ WatchPod(r) \/ WatchPodFails(r)
  \/ GetSecret(r) \/ GetSecretFails(r) \/ Cleanup(r) \/ CleanupGetFails(r)
  \/ \E o \in Outcomes : CreateSecret(r, o) \/ CreatePod(r, o) \/ UpdateSecret(r, o)
  \/ \E o \in Outcomes : DeletePod(r, o) \/ DeleteSecret(r, o)
  \/ \E e \in {"nil", "errPodFailed", "errAwait"} : Await(r, e)

Startup ==
  \/ Restart \/ ListCompletedExecutionPods \/ ListFails \/ Serve
  \/ \E r \in Calls, o \in Outcomes : DeletePods(r, o)

Kubernetes(r) ==
  \/ StartPod(r) \/ RemovePod(r) \/ CollectSecret(r)
  \/ \E p \in {"Succeeded", "Failed"} : EndPod(r, p)

\* Every call is over; the sidecar waits for ever.
Finished == up = "serving" /\ (\A r \in Calls : Over(r)) /\ UNCHANGED vars

Next ==
  \/ \E r \in Calls, s \in {"BUILD", "RUN"} : Receive(r, s)
  \/ \E r \in Calls : Step(r) \/ Kubernetes(r)
  \/ Startup \/ Crash \/ Finished

(***************************************************************************)
(* Fairness.  A goroutine that can run does; requests and the watch end    *)
(* because the client has a timeout (clientConfig.Timeout).  Kubernetes    *)
(* restarts the container.  Nothing is assumed of pods or of callers.      *)
(***************************************************************************)
Fairness == WF_vars(Startup) /\ \A r \in Calls : WF_vars(Step(r))

Spec == Init /\ [][Next]_vars
FairSpec == Spec /\ Fairness

-----------------------------------------------------------------------------
\* Type invariant of the sidecar, its calls and their Kubernetes objects.
TypeOK ==
  /\ up \in {"down", "listing", "deleting", "serving"}
  /\ crashes \in 0 .. MaxCrashes /\ todo \subseteq Calls /\ peerEnv \in BOOLEAN
  /\ stage \in [Calls -> {"BUILD", "RUN"}] /\ ccType \in [Calls -> Types]
  /\ pc \in [Calls -> Steps]
  /\ exec \in [Calls -> ExecResults] /\ res \in [Calls -> Results]
  /\ secret \in [Calls -> {"none", "unowned", "owned", "gone"}]
  /\ exists \in [Calls -> {"none", "live", "deleting", "gone"}]
  /\ phase \in [Calls -> {"Pending", "Running", "Succeeded", "Failed"}]
  /\ blind \subseteq Calls

\* No crypto secret outlives its Run without an owner that will take it along:
\* on every path out of Run it is deleted or owned, unless the call reports
\* that it could not create or delete it, or could not look (server.go
\* 153-160, 730-746).
SecretReclaimed ==
  \A r \in Calls : pc[r] = "returned" /\ secret[r] = "unowned" =>
    res[r] \in {"errSecret", "errDelete"} \/ r \in blind

\* The comment in deleteCryptoSecret: after a Get error there is nothing to do
\* because the "secret has already been deleted" (server.go 734).
DoNothingIfDeleted ==
  \A r \in Calls : pc[r] = "returned" /\ r \in blind => secret[r] # "unowned"

\* A pod that can still start has the secret it mounts: cleanup after a
\* cancelled or broken Run never takes it from a pod that goes on running.
\* Only a Run that failed to create the pod or to set the owner reference
\* leaves a pod without its secret (server.go 222-232, 738).
PodKeepsSecret ==
  \A r \in Calls :
    /\ MountsSecret(r) /\ exists[r] \in {"live", "deleting"}
    /\ phase[r] \in {"Pending", "Running"} /\ secret[r] \notin {"unowned", "owned"}
    => exec[r] \in {"errCreate", "errReference"}

\* Once executePod waits for a run pod, the secret goes where the pod goes: it
\* has the pod for its owner, or both are gone.  A sidecar that crashes from
\* then on leaks nothing, although no start looks for secrets (server.go
\* 227-232, 765-781).
AwaitedPodOwnsSecret ==
  \A r \in Calls : stage[r] = "RUN" /\ pc[r] = "await" =>
    secret[r] = "owned" \/ (secret[r] = "gone" /\ exists[r] = "gone")

\* Success is neither invented nor masked: a call returns nil exactly when its
\* pod succeeded and executePod saw it, or the chaincode is external; the
\* deferred cleanup never turns success into an error (server.go 143, 156-160,
\* 177-182).
SuccessIsReal ==
  \A r \in Calls : pc[r] = "returned" =>
    /\ res[r] = "nil" => \/ exec[r] = "nil" /\ phase[r] = "Succeeded"
                         \/ stage[r] = "RUN" /\ ccType[r] = "external"
    /\ exec[r] = "nil" => res[r] = "nil"

\* What startup is about to delete is nobody's: the pod has completed and its
\* call is over, however old the list is (main.go 126-134, handler.go 64-70).
StartupSparesPods ==
  \A r \in todo : phase[r] = "Succeeded" /\ Over(r)

\* The owner's reference is respected: a secret with an owner is removed only
\* once that pod is gone (server.go 738-742).
OwnedSecretKept ==
  [][\A r \in Calls : secret[r] = "owned" /\ secret'[r] # "owned" => exists[r] = "gone"]_vars

\* Every call comes to an end whatever Kubernetes answers.
CallsEnd == \A r \in Calls : pc[r] # "idle" ~> Over(r)

\* A sidecar that starts gets to serve, even if no pod can be listed or
\* deleted (main.go 126-134).
StartupEnds == up = "listing" ~> up \in {"serving", "down"}
=============================================================================
