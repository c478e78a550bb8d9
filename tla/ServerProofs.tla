---------------------------- MODULE ServerProofs ----------------------------
(***************************************************************************)
(* Proofs about Server for every set of calls and every bound on crashes:  *)
(* its type invariant, its safety invariants and the action property on    *)
(* owned secrets, all from one inductive invariant.                        *)
(***************************************************************************)
EXTENDS Server, TLAPS

-----------------------------------------------------------------------------
(***************************************************************************)
(* The inductive invariant, call by call.                                  *)
(***************************************************************************)
\* Which steps belong to Run and which to Build.
StageInv(r) ==
  /\ pc[r] \in {"runMetadata", "createSecret", "getSecret", "updateSecret", "cleanup",
                "deleteSecret"} => stage[r] = "RUN"
  /\ pc[r] = "deletePod" => stage[r] = "BUILD"

\* The secret is there from createCryptoSecret on, and has an owner once
\* executePod waits for the pod.
SecretInv(r) ==
  /\ pc[r] \in {"idle", "metadata", "runMetadata", "createSecret"} => secret[r] = "none"
  /\ stage[r] = "BUILD" => secret[r] = "none"
  /\ stage[r] = "RUN" /\ pc[r] \in {"container", "watch", "createPod", "getSecret",
                                    "updateSecret"} => secret[r] = "unowned"
  /\ pc[r] = "deleteSecret" => secret[r] = "unowned"
  /\ stage[r] = "RUN" /\ (pc[r] = "await" \/ exec[r] \in {"nil", "errPodFailed", "errAwait"})
       => secret[r] \in {"owned", "gone"}
  /\ secret[r] = "none" /\ stage[r] = "RUN" => exists[r] = "none"
  /\ secret[r] = "gone" => \/ exists[r] \in {"none", "gone"}
                           \/ exec[r] \in {"errCreate", "errReference"}

\* The pod is there from Create on; a call that has not come so far, or whose
\* watch failed, has none.
PodInv(r) ==
  /\ pc[r] \in {"idle", "metadata", "runMetadata", "createSecret", "container", "watch",
                "createPod"} => exists[r] = "none"
  /\ pc[r] \in {"cleanup", "deleteSecret", "returned"} /\ exec[r] \in {"none", "errWatch"}
       => exists[r] = "none"
  /\ pc[r] \in {"getSecret", "updateSecret", "await", "deletePod"} => exists[r] # "none"

\* The results of executePod and of the call.
ResultInv(r) ==
  /\ pc[r] \in {"idle", "metadata", "runMetadata", "createSecret", "container", "watch",
                "createPod", "getSecret", "updateSecret", "await"}
       => exec[r] = "none" /\ res[r] = "none"
  /\ pc[r] = "deletePod" => exec[r] \in {"nil", "errPodFailed", "errAwait"}
  /\ exec[r] = "nil" => phase[r] = "Succeeded"
  /\ pc[r] \in {"deletePod", "cleanup", "deleteSecret"} => (res[r] = "nil" <=> exec[r] = "nil")

\* Startup is over before the first call, and deletes completed pods only.
ProcessInv ==
  /\ up # "serving" => \A r \in Calls : pc[r] \in {"idle", "returned", "killed"}
  /\ up # "deleting" => todo = {}
  /\ \A r \in todo : exists[r] # "none"

\* What SecretReclaimed and SuccessIsReal say of one call.
Reclaimed(r) ==
  pc[r] = "returned" /\ secret[r] = "unowned" =>
    res[r] \in {"errSecret", "errDelete"} \/ r \in blind
Real(r) ==
  pc[r] = "returned" =>
    /\ res[r] = "nil" => \/ exec[r] = "nil" /\ phase[r] = "Succeeded"
                         \/ stage[r] = "RUN" /\ ccType[r] = "external"
    /\ exec[r] = "nil" => res[r] = "nil"

CallInv(r) ==
  /\ StageInv(r) /\ SecretInv(r) /\ PodInv(r) /\ ResultInv(r)
  /\ Reclaimed(r) /\ Real(r)

IInv == TypeOK /\ ProcessInv /\ StartupSparesPods /\ \A r \in Calls : CallInv(r)

-----------------------------------------------------------------------------
(***************************************************************************)
(* Type correctness.                                                       *)
(***************************************************************************)
LEMMA TypeInit == Init => TypeOK
BY ServerAssumption DEF Init, TypeOK, Types, Steps, Results, ExecResults

\* Moving on and returning keep the types of pc and res.
LEMMA MoveType ==
  ASSUME TypeOK, NEW r \in Calls
  PROVE  /\ \A l \in Steps : Goto(r, l) => pc' \in [Calls -> Steps]
         /\ \A e \in Results : Return(r, e) \/ Unwind(r, e) =>
              pc' \in [Calls -> Steps] /\ res' \in [Calls -> Results]
<1>1. \A l \in Steps : [pc EXCEPT ![r] = l] \in [Calls -> Steps]
  BY DEF TypeOK
<1>2. \A e \in Results : [res EXCEPT ![r] = e] \in [Calls -> Results]
  BY DEF TypeOK
<1>3. {"returned", "cleanup"} \subseteq Steps
  BY DEF Steps
<1> QED BY <1>1, <1>2, <1>3 DEF Goto, Return, Unwind

\* executePod's results are results of the call as well.
LEMMA ExecType ==
  ASSUME TypeOK, NEW r \in Calls, NEW e \in ExecResults, ExecReturns(r, e)
  PROVE  /\ exec' \in [Calls -> ExecResults] /\ pc' \in [Calls -> Steps]
         /\ res' \in [Calls -> Results]
<1>1. e \in Results
  BY DEF Results
<1> QED BY <1>1, MoveType DEF ExecReturns, TypeOK

LEMMA TypeCall == ASSUME TypeOK, NEW r \in Calls, Step(r) PROVE TypeOK'
<1> USE DEF processVars, kubeVars
<1>a. Steps = Steps \cup {"metadata", "runMetadata", "createSecret", "container", "watch",
                          "createPod", "getSecret", "updateSecret", "await", "deletePod",
                          "cleanup", "deleteSecret", "returned"}
  BY DEF Steps
<1>b. Results = Results \cup {"nil", "errMetadata", "errRunMetadata", "errSecret",
                              "errContainer", "errEnv", "errDelete", "errPodFailed", "errAwait"}
  BY DEF Results, ExecResults
<1>c. ExecResults = ExecResults \cup {"nil", "errWatch", "errCreate", "errReference",
                                      "errPodFailed", "errAwait"}
  BY DEF ExecResults
<1>1. ASSUME NEW t \in Types, ExtractMetadata(r, t) PROVE TypeOK'
  <2>1. pc' \in [Calls -> Steps] /\ res' \in [Calls -> Results]
    BY <1>1, <1>a, <1>b, MoveType DEF ExtractMetadata, TypeOK
  <2> QED BY <1>1, <2>1 DEF ExtractMetadata, TypeOK
<1>2. CASE ExtractMetadataFails(r) \/ ReadRunMetadataFails(r)
  <2>1. pc' \in [Calls -> Steps] /\ res' \in [Calls -> Results]
    BY <1>2, <1>b, MoveType DEF ExtractMetadataFails, ReadRunMetadataFails
  <2> QED BY <1>2, <2>1 DEF ExtractMetadataFails, ReadRunMetadataFails, TypeOK
<1>3. CASE ReadRunMetadata(r) \/ WatchPod(r) \/ GetSecret(r) \/ Cleanup(r)
  <2>1. pc' \in [Calls -> Steps]
    BY <1>3, <1>a, MoveType DEF ReadRunMetadata, WatchPod, GetSecret, Cleanup
  <2> QED BY <1>3, <2>1 DEF ReadRunMetadata, WatchPod, GetSecret, Cleanup, TypeOK
<1>4. CASE DefineContainer(r)
  <2>1. pc' \in [Calls -> Steps] /\ res' \in [Calls -> Results]
    BY <1>4, <1>a, <1>b, MoveType DEF DefineContainer, TypeOK
  <2> QED BY <1>4, <2>1 DEF DefineContainer, TypeOK
<1>5. CASE WatchPodFails(r) \/ GetSecretFails(r)
  <2>1. /\ exec' \in [Calls -> ExecResults] /\ pc' \in [Calls -> Steps]
        /\ res' \in [Calls -> Results]
    BY <1>5, <1>c, ExecType DEF WatchPodFails, GetSecretFails
  <2> QED BY <1>5, <2>1 DEF WatchPodFails, GetSecretFails, TypeOK
<1>6. CASE CleanupGetFails(r)
  <2>1. pc' \in [Calls -> Steps]
    BY <1>6, <1>a, MoveType DEF CleanupGetFails
  <2> QED BY <1>6, <2>1 DEF CleanupGetFails, TypeOK
<1>7. ASSUME NEW o \in Outcomes, CreateSecret(r, o) PROVE TypeOK'
  <2>1. pc' \in [Calls -> Steps] /\ res' \in [Calls -> Results]
    BY <1>7, <1>a, <1>b, MoveType DEF CreateSecret, TypeOK
  <2> QED BY <1>7, <2>1 DEF CreateSecret, TypeOK
<1>8. ASSUME NEW o \in Outcomes, CreatePod(r, o) PROVE TypeOK'
  <2>1. /\ exec' \in [Calls -> ExecResults] /\ pc' \in [Calls -> Steps]
        /\ res' \in [Calls -> Results]
    BY <1>8, <1>a, <1>c, ExecType, MoveType DEF CreatePod, TypeOK
  <2> QED BY <1>8, <2>1 DEF CreatePod, TypeOK
<1>9. ASSUME NEW o \in Outcomes, UpdateSecret(r, o) PROVE TypeOK'
  <2>1. /\ exec' \in [Calls -> ExecResults] /\ pc' \in [Calls -> Steps]
        /\ res' \in [Calls -> Results]
    BY <1>9, <1>a, <1>c, ExecType, MoveType DEF UpdateSecret, TypeOK
  <2> QED BY <1>9, <2>1 DEF UpdateSecret, TypeOK
<1>10. ASSUME NEW o \in Outcomes, DeletePod(r, o) PROVE TypeOK'
  <2>1. pc' \in [Calls -> Steps]
    BY <1>10, <1>a, MoveType DEF DeletePod
  <2> QED BY <1>10, <2>1 DEF DeletePod, PodDeleted, TypeOK
<1>11. ASSUME NEW o \in Outcomes, DeleteSecret(r, o) PROVE TypeOK'
  <2>1. pc' \in [Calls -> Steps] /\ res' \in [Calls -> Results]
    BY <1>11, <1>a, <1>b, MoveType DEF DeleteSecret, TypeOK
  <2> QED BY <1>11, <2>1 DEF DeleteSecret, TypeOK
<1>12. ASSUME NEW e \in {"nil", "errPodFailed", "errAwait"}, Await(r, e) PROVE TypeOK'
  <2>1. e \in Results /\ e \in ExecResults
    BY <1>b, <1>c
  <2>2. pc' \in [Calls -> Steps] /\ res' \in [Calls -> Results]
    BY <1>12, <1>a, <2>1, MoveType DEF Await, TypeOK
  <2>3. exec' \in [Calls -> ExecResults]
    BY <1>12, <2>1 DEF Await, TypeOK
  <2> QED BY <1>12, <2>2, <2>3 DEF Await, TypeOK
<1> QED BY <1>1, <1>2, <1>3, <1>4, <1>5, <1>6, <1>7, <1>8, <1>9, <1>10, <1>11, <1>12
        DEF Step

LEMMA TypeStep == TypeOK /\ [Next]_vars => TypeOK'
<1> SUFFICES ASSUME TypeOK, [Next]_vars PROVE TypeOK'
  OBVIOUS
<1> USE DEF processVars, callVars, kubeVars
<1>1. ASSUME NEW r \in Calls, NEW s \in {"BUILD", "RUN"}, Receive(r, s) PROVE TypeOK'
  BY <1>1 DEF Receive, Goto, TypeOK, Steps
<1>2. ASSUME NEW r \in Calls, Kubernetes(r) PROVE TypeOK'
  BY <1>2 DEF Kubernetes, StartPod, EndPod, RemovePod, CollectSecret, KubeOnly, TypeOK
<1>3. CASE Startup
  <2>1. ASSUME NEW r \in Calls, NEW o \in Outcomes, DeletePods(r, o) PROVE TypeOK'
    BY <2>1 DEF DeletePods, PodDeleted, TypeOK
  <2>2. CASE Restart \/ ListCompletedExecutionPods \/ ListFails \/ Serve
    BY <2>2 DEF Restart, ListCompletedExecutionPods, ListFails, Serve, TypeOK
  <2> QED BY <1>3, <2>1, <2>2 DEF Startup
<1>4. CASE Crash
  <2>1. pc' \in [Calls -> Steps]
    BY <1>4 DEF Crash, TypeOK, Steps
  <2>2. crashes' \in 0 .. MaxCrashes
    BY <1>4, ServerAssumption DEF Crash, TypeOK
  <2> QED BY <1>4, <2>1, <2>2 DEF Crash, TypeOK
<1>5. CASE Finished \/ UNCHANGED vars
  BY <1>5 DEF Finished, vars, TypeOK
<1> QED BY <1>1, <1>2, <1>3, <1>4, <1>5, TypeCall DEF Next

\* Every state of the sidecar has its type.
THEOREM TypeCorrect == Spec => []TypeOK
BY TypeInit, TypeStep, PTL DEF Spec

-----------------------------------------------------------------------------
(***************************************************************************)
(* A call's own steps keep what the invariant says of it.                  *)
(***************************************************************************)
LEMMA OwnStep ==
  ASSUME TypeOK, NEW r \in Calls, CallInv(r), Step(r)
  PROVE  CallInv(r)'
<1> USE DEF CallInv, StageInv, SecretInv, PodInv, ResultInv, Reclaimed, Real,
            processVars, kubeVars, Goto, Return, Unwind
<1>0. stage[r] \in {"BUILD", "RUN"} /\ secret[r] \in {"none", "unowned", "owned", "gone"}
  BY DEF TypeOK
<1>1. ASSUME NEW t \in Types, ExtractMetadata(r, t) PROVE CallInv(r)'
  BY <1>0, <1>1 DEF ExtractMetadata, TypeOK
<1>2. CASE ExtractMetadataFails(r) \/ ReadRunMetadataFails(r)
  BY <1>0, <1>2 DEF ExtractMetadataFails, ReadRunMetadataFails, TypeOK
<1>3. CASE ReadRunMetadata(r) \/ WatchPod(r) \/ GetSecret(r)
  BY <1>0, <1>3 DEF ReadRunMetadata, WatchPod, GetSecret, TypeOK
<1>4. CASE Cleanup(r)
  BY <1>0, <1>4 DEF Cleanup, TypeOK
<1>5. CASE DefineContainer(r)
  BY <1>0, <1>5 DEF DefineContainer, TypeOK
<1>6. CASE WatchPodFails(r) \/ GetSecretFails(r)
  BY <1>0, <1>6 DEF WatchPodFails, GetSecretFails, ExecReturns, TypeOK
<1>7. CASE CleanupGetFails(r)
  BY <1>0, <1>7 DEF CleanupGetFails, TypeOK
<1>8. ASSUME NEW o \in Outcomes, CreateSecret(r, o) PROVE CallInv(r)'
  BY <1>0, <1>8 DEF CreateSecret, Applied, Failed, Outcomes, TypeOK
<1>9. ASSUME NEW o \in Outcomes, CreatePod(r, o) PROVE CallInv(r)'
  BY <1>0, <1>9 DEF CreatePod, ExecReturns, Applied, Failed, Outcomes, TypeOK
<1>10. ASSUME NEW o \in Outcomes, UpdateSecret(r, o) PROVE CallInv(r)'
  BY <1>0, <1>10 DEF UpdateSecret, ExecReturns, Applied, Failed, Outcomes, TypeOK
<1>11. ASSUME NEW o \in Outcomes, DeletePod(r, o) PROVE CallInv(r)'
  BY <1>0, <1>11 DEF DeletePod, PodDeleted, Applied, Outcomes, TypeOK
<1>12. ASSUME NEW o \in Outcomes, DeleteSecret(r, o) PROVE CallInv(r)'
  BY <1>0, <1>12 DEF DeleteSecret, Applied, Failed, Outcomes, TypeOK, ExecResults
<1>13. ASSUME NEW e \in {"nil", "errPodFailed", "errAwait"}, Await(r, e) PROVE CallInv(r)'
  BY <1>0, <1>13 DEF Await, TypeOK
<1> QED BY <1>1, <1>2, <1>3, <1>4, <1>5, <1>6, <1>7, <1>8, <1>9, <1>10, <1>11, <1>12,
           <1>13 DEF Step

\* A step on behalf of call r leaves every other call as it is.
LEMMA OtherCalls ==
  ASSUME TypeOK, NEW r \in Calls, NEW d \in Calls, d # r, CallInv(d),
         Step(r) \/ Kubernetes(r) \/ \E s \in {"BUILD", "RUN"} : Receive(r, s)
  PROVE  CallInv(d)'
<1> DEFINE Same == /\ stage'[d] = stage[d] /\ ccType'[d] = ccType[d] /\ pc'[d] = pc[d]
                   /\ exec'[d] = exec[d] /\ res'[d] = res[d] /\ secret'[d] = secret[d]
                   /\ exists'[d] = exists[d] /\ phase'[d] = phase[d]
                   /\ (d \in blind' <=> d \in blind)
<1> USE DEF TypeOK, processVars, callVars, kubeVars, Goto, Return, Unwind
<1>1. ASSUME \E t \in Types : ExtractMetadata(r, t) PROVE Same
  BY <1>1 DEF ExtractMetadata
<1>2. ASSUME \/ ExtractMetadataFails(r) \/ ReadRunMetadataFails(r) \/ ReadRunMetadata(r)
             \/ WatchPod(r) \/ GetSecret(r) \/ Cleanup(r)
      PROVE  Same
  BY <1>2 DEF ExtractMetadataFails, ReadRunMetadataFails, ReadRunMetadata, WatchPod,
              GetSecret, Cleanup
<1>3. ASSUME \/ DefineContainer(r) \/ WatchPodFails(r) \/ GetSecretFails(r)
             \/ CleanupGetFails(r)
      PROVE  Same
  BY <1>3 DEF DefineContainer, WatchPodFails, GetSecretFails, CleanupGetFails, ExecReturns
<1>4. ASSUME \E o \in Outcomes : CreateSecret(r, o) \/ DeleteSecret(r, o) PROVE Same
  BY <1>4 DEF CreateSecret, DeleteSecret
<1>5. ASSUME \E o \in Outcomes : CreatePod(r, o) \/ UpdateSecret(r, o) PROVE Same
  BY <1>5 DEF CreatePod, UpdateSecret, ExecReturns
<1>6. ASSUME \E o \in Outcomes : DeletePod(r, o) PROVE Same
  BY <1>6 DEF DeletePod, PodDeleted
<1>7. ASSUME \E e \in {"nil", "errPodFailed", "errAwait"} : Await(r, e) PROVE Same
  BY <1>7 DEF Await
<1>8. ASSUME Kubernetes(r) PROVE Same
  BY <1>8 DEF Kubernetes, StartPod, EndPod, RemovePod, CollectSecret, KubeOnly
<1>9. ASSUME \E s \in {"BUILD", "RUN"} : Receive(r, s) PROVE Same
  BY <1>9 DEF Receive
<1>10. Same
  BY <1>1, <1>2, <1>3, <1>4, <1>5, <1>6, <1>7, <1>8, <1>9 DEF Step
<1> QED BY <1>10 DEF CallInv, StageInv, SecretInv, PodInv, ResultInv, Reclaimed, Real

-----------------------------------------------------------------------------
(***************************************************************************)
(* The environment and the process.                                        *)
(***************************************************************************)
LEMMA KubernetesStep ==
  ASSUME TypeOK, NEW r \in Calls, CallInv(r), Kubernetes(r)
  PROVE  CallInv(r)'
<1> USE DEF CallInv, StageInv, SecretInv, PodInv, ResultInv, Reclaimed, Real,
            processVars, callVars, KubeOnly, TypeOK
<1>1. CASE StartPod(r)
  BY <1>1 DEF StartPod
<1>2. ASSUME NEW p \in {"Succeeded", "Failed"}, EndPod(r, p) PROVE CallInv(r)'
  BY <1>2 DEF EndPod
<1>3. CASE RemovePod(r)
  BY <1>3 DEF RemovePod
<1>4. CASE CollectSecret(r)
  BY <1>4 DEF CollectSecret
<1> QED BY <1>1, <1>2, <1>3, <1>4 DEF Kubernetes

LEMMA ReceiveStep ==
  ASSUME TypeOK, NEW r \in Calls, CallInv(r), NEW s \in {"BUILD", "RUN"}, Receive(r, s)
  PROVE  CallInv(r)'
BY DEF CallInv, StageInv, SecretInv, PodInv, ResultInv, Reclaimed, Real,
       Receive, Goto, processVars, kubeVars, TypeOK

\* A crash takes calls from where they are to "killed", where the invariant
\* asks for no more than what held before.
LEMMA CrashStep == ASSUME TypeOK, NEW r \in Calls, CallInv(r), Crash PROVE CallInv(r)'
<1>1. pc'[r] \in {pc[r], "killed"}
  BY DEF Crash, TypeOK
<1>2. UNCHANGED <<stage, ccType, exec, res, blind, secret, exists, phase>>
  BY DEF Crash, kubeVars
<1> QED BY <1>1, <1>2 DEF CallInv, StageInv, SecretInv, PodInv, ResultInv, Reclaimed, Real

LEMMA StartupStep ==
  ASSUME TypeOK, ProcessInv, NEW r \in Calls, CallInv(r), Startup
  PROVE  CallInv(r)'
<1> USE DEF CallInv, StageInv, SecretInv, PodInv, ResultInv, Reclaimed, Real,
            callVars, kubeVars
<1>1. CASE Restart \/ ListCompletedExecutionPods \/ ListFails \/ Serve
  BY <1>1 DEF Restart, ListCompletedExecutionPods, ListFails, Serve
<1>2. ASSUME NEW d \in Calls, NEW o \in Outcomes, DeletePods(d, o) PROVE CallInv(r)'
  <2>1. UNCHANGED <<stage, ccType, pc, exec, res, blind, secret, phase>>
    BY <1>2 DEF DeletePods
  <2>2. \/ exists'[r] = exists[r]
        \/ exists[r] \in {"live", "deleting"} /\ exists'[r] = "deleting"
    <3>1. exists[d] # "none" /\ exists[d] \in {"none", "live", "deleting", "gone"}
      BY <1>2 DEF DeletePods, ProcessInv, TypeOK
    <3> QED BY <1>2, <3>1 DEF DeletePods, PodDeleted, Applied, TypeOK
  <2> QED BY <2>1, <2>2
<1> QED BY <1>1, <1>2 DEF Startup

LEMMA CallStep == IInv /\ [Next]_vars => (\A r \in Calls : CallInv(r))'
<1> SUFFICES ASSUME IInv, [Next]_vars, NEW d \in Calls PROVE CallInv(d)'
  OBVIOUS
<1> USE DEF IInv
<1>1. ASSUME NEW r \in Calls, Step(r) PROVE CallInv(d)'
  BY <1>1, OwnStep, OtherCalls
<1>2. ASSUME NEW r \in Calls, Kubernetes(r) PROVE CallInv(d)'
  BY <1>2, KubernetesStep, OtherCalls
<1>3. ASSUME NEW r \in Calls, NEW s \in {"BUILD", "RUN"}, Receive(r, s) PROVE CallInv(d)'
  BY <1>3, ReceiveStep, OtherCalls
<1>4. CASE Startup
  BY <1>4, StartupStep
<1>5. CASE Crash
  BY <1>5, CrashStep
<1>6. CASE Finished \/ UNCHANGED vars
  BY <1>6 DEF Finished, vars, callVars, kubeVars, CallInv, StageInv, SecretInv, PodInv,
              ResultInv, Reclaimed, Real
<1> QED BY <1>1, <1>2, <1>3, <1>4, <1>5, <1>6 DEF Next

\* Only a step of the process changes the process.
LEMMA ProcessFrame ==
  ASSUME TypeOK, NEW r \in Calls,
         Step(r) \/ Kubernetes(r) \/ \E s \in {"BUILD", "RUN"} : Receive(r, s)
  PROVE  UNCHANGED processVars
<1> USE DEF processVars, KubeOnly
<1>1. Step(r) => UNCHANGED processVars
  BY DEF Step, ExtractMetadata, ExtractMetadataFails, ReadRunMetadata, ReadRunMetadataFails,
         DefineContainer, WatchPod, WatchPodFails, GetSecret, GetSecretFails, Cleanup,
         CleanupGetFails, CreateSecret, CreatePod, UpdateSecret, DeletePod, DeleteSecret, Await
<1>2. Kubernetes(r) => UNCHANGED processVars
  BY DEF Kubernetes, StartPod, EndPod, RemovePod, CollectSecret
<1>3. (\E s \in {"BUILD", "RUN"} : Receive(r, s)) => UNCHANGED processVars
  BY DEF Receive
<1> QED BY <1>1, <1>2, <1>3

\* A call that is idle or over takes no step.
LEMMA StepNeedsCall ==
  ASSUME NEW r \in Calls, Step(r) PROVE pc[r] \notin {"idle", "returned", "killed"}
BY DEF Step, ExtractMetadata, ExtractMetadataFails, ReadRunMetadata, ReadRunMetadataFails,
       DefineContainer, WatchPod, WatchPodFails, GetSecret, GetSecretFails, Cleanup,
       CleanupGetFails, CreateSecret, CreatePod, UpdateSecret, DeletePod, DeleteSecret, Await

\* The startup part of the invariant.
LEMMA ProcessStep ==
  IInv /\ [Next]_vars => ProcessInv' /\ StartupSparesPods'
<1> SUFFICES ASSUME IInv, [Next]_vars PROVE ProcessInv' /\ StartupSparesPods'
  OBVIOUS
<1> USE DEF IInv, ProcessInv, StartupSparesPods, Over, processVars, callVars, kubeVars
<1>1. ASSUME NEW r \in Calls, Step(r) PROVE ProcessInv' /\ StartupSparesPods'
  <2>1. up = "serving" /\ todo = {} /\ UNCHANGED processVars
    BY <1>1, ProcessFrame, StepNeedsCall
  <2> QED BY <2>1
<1>2. ASSUME NEW r \in Calls, NEW s \in {"BUILD", "RUN"}, Receive(r, s)
      PROVE  ProcessInv' /\ StartupSparesPods'
  BY <1>2 DEF Receive
<1>3. ASSUME NEW r \in Calls, Kubernetes(r) PROVE ProcessInv' /\ StartupSparesPods'
  <2>1. UNCHANGED processVars /\ pc' = pc
    BY <1>3 DEF Kubernetes, StartPod, EndPod, RemovePod, CollectSecret, KubeOnly
  <2>2. \A d \in Calls : /\ exists[d] # "none" => exists'[d] # "none"
                         /\ phase[d] = "Succeeded" => phase'[d] = "Succeeded"
    BY <1>3 DEF Kubernetes, StartPod, EndPod, RemovePod, CollectSecret, TypeOK
  <2> QED BY <2>1, <2>2 DEF TypeOK
<1>4. CASE Startup
  <2>1. CASE Restart \/ ListFails \/ Serve
    BY <2>1 DEF Restart, ListFails, Serve
  <2>2. CASE ListCompletedExecutionPods
    <3>1. \A r \in Calls : exists[r] # "none" => pc[r] # "idle"
      BY DEF CallInv, PodInv
    <3> QED BY <2>2, <3>1 DEF ListCompletedExecutionPods
  <2>3. ASSUME NEW r \in Calls, NEW o \in Outcomes, DeletePods(r, o)
        PROVE  ProcessInv' /\ StartupSparesPods'
    <3>1. todo' \subseteq todo /\ UNCHANGED <<up, pc, phase>> /\ up = "deleting"
      BY <2>3 DEF DeletePods
    <3>2. \A d \in todo : exists'[d] # "none"
      BY <2>3 DEF DeletePods, PodDeleted, TypeOK
    <3> QED BY <3>1, <3>2
  <2> QED BY <1>4, <2>1, <2>2, <2>3 DEF Startup
<1>5. CASE Crash
  BY <1>5 DEF Crash, TypeOK
<1>6. CASE Finished \/ UNCHANGED vars
  BY <1>6 DEF Finished, vars
<1> QED BY <1>1, <1>2, <1>3, <1>4, <1>5, <1>6 DEF Next

-----------------------------------------------------------------------------
(***************************************************************************)
(* The theorems.                                                           *)
(***************************************************************************)
LEMMA InvInit == Init => IInv
<1> SUFFICES ASSUME Init PROVE IInv
  OBVIOUS
<1>1. ProcessInv /\ StartupSparesPods
  BY DEF Init, ProcessInv, StartupSparesPods
<1>2. ASSUME NEW r \in Calls PROVE CallInv(r)
  BY DEF Init, CallInv, StageInv, SecretInv, PodInv, ResultInv, Reclaimed, Real
<1> QED BY <1>1, <1>2, TypeInit DEF IInv

LEMMA InvStep == IInv /\ [Next]_vars => IInv'
BY TypeStep, CallStep, ProcessStep DEF IInv

LEMMA InvImplies ==
  IInv => /\ SecretReclaimed /\ PodKeepsSecret /\ AwaitedPodOwnsSecret
          /\ SuccessIsReal /\ StartupSparesPods
<1> SUFFICES ASSUME IInv
             PROVE  /\ SecretReclaimed /\ PodKeepsSecret /\ AwaitedPodOwnsSecret
                    /\ SuccessIsReal /\ StartupSparesPods
  OBVIOUS
<1>1. SecretReclaimed
  BY DEF IInv, CallInv, Reclaimed, SecretReclaimed
<1>2. PodKeepsSecret
  BY DEF IInv, CallInv, SecretInv, PodKeepsSecret, MountsSecret, TypeOK
<1>3. SuccessIsReal
  BY DEF IInv, CallInv, Real, SuccessIsReal
<1>4. AwaitedPodOwnsSecret
  BY DEF IInv, CallInv, SecretInv, PodInv, ResultInv, AwaitedPodOwnsSecret
<1> QED BY <1>1, <1>2, <1>3, <1>4 DEF IInv

\* Of the steps that remove a secret, cleanup meets an unowned one only.
LEMMA SecretKeptStep ==
  IInv /\ [Next]_vars =>
    [\A r \in Calls : secret[r] = "owned" /\ secret'[r] # "owned" => exists[r] = "gone"]_vars
<1> SUFFICES ASSUME IInv, [Next]_vars, NEW d \in Calls, secret[d] = "owned",
                    secret'[d] # "owned"
             PROVE  exists[d] = "gone"
  OBVIOUS
<1> USE DEF IInv, processVars, callVars, kubeVars
<1>1. ASSUME NEW r \in Calls, Step(r) PROVE FALSE
  <2>1. ASSUME NEW o \in Outcomes, CreateSecret(r, o) \/ UpdateSecret(r, o) \/ DeleteSecret(r, o)
        PROVE  FALSE
    <3>1. pc[r] \in {"createSecret", "deleteSecret", "updateSecret"}
      BY <2>1 DEF CreateSecret, UpdateSecret, DeleteSecret
    <3>2. secret[r] \in {"none", "unowned"}
      BY <3>1 DEF CallInv, SecretInv, StageInv
    <3> QED BY <2>1, <3>2 DEF CreateSecret, UpdateSecret, DeleteSecret, TypeOK
  <2>2. (\A o \in Outcomes : ~CreateSecret(r, o) /\ ~UpdateSecret(r, o) /\ ~DeleteSecret(r, o))
          => secret' = secret
    BY <1>1 DEF Step, ExtractMetadata, ExtractMetadataFails, ReadRunMetadata,
       ReadRunMetadataFails, DefineContainer, WatchPod, WatchPodFails, GetSecret,
       GetSecretFails, Cleanup, CleanupGetFails, CreatePod, DeletePod, Await
  <2> QED BY <2>1, <2>2
<1>2. ASSUME NEW r \in Calls, Kubernetes(r) PROVE exists[d] = "gone"
  BY <1>2 DEF Kubernetes, StartPod, EndPod, RemovePod, CollectSecret, TypeOK
<1>3. (\E r \in Calls, s \in {"BUILD", "RUN"} : Receive(r, s)) => secret' = secret
  BY DEF Receive
<1>4. Startup => secret' = secret
  BY DEF Startup, Restart, ListCompletedExecutionPods, ListFails, Serve, DeletePods
<1>5. Crash \/ Finished \/ UNCHANGED vars => secret' = secret
  BY DEF Crash, Finished, vars
<1> QED BY <1>1, <1>2, <1>3, <1>4, <1>5 DEF Next

\* The inductive invariant holds in every state of the sidecar.
THEOREM Invariance == Spec => []IInv
BY InvInit, InvStep, PTL DEF Spec

\* No Run that returns leaves a secret without an owner, but for the listed
\* failures (server.go 153-160, 730-746).
THEOREM SecretsAreReclaimed == Spec => []SecretReclaimed
BY Invariance, InvImplies, PTL

\* No pod that can still start loses the secret it mounts, but for the listed
\* failures (server.go 222-232, 738).
THEOREM PodsKeepSecrets == Spec => []PodKeepsSecret
BY Invariance, InvImplies, PTL

\* The secret of a run pod that is awaited has the pod for its owner, so that a
\* crash from then on leaks nothing (server.go 227-232, 765-781).
THEOREM AwaitedPodsOwnSecrets == Spec => []AwaitedPodOwnsSecret
BY Invariance, InvImplies, PTL

\* A call returns nil exactly for success (server.go 143, 156-160, 177-182).
THEOREM ResultsAreReal == Spec => []SuccessIsReal
BY Invariance, InvImplies, PTL

\* Startup deletes only pods that completed and whose call is over (main.go
\* 126-134).
THEOREM StartupIsSafe == Spec => []StartupSparesPods
BY Invariance, InvImplies, PTL

\* A secret with an owner stays until the owner is gone (server.go 738-742).
THEOREM OwnersKeepSecrets == Spec => OwnedSecretKept
<1>1. IInv /\ [Next]_vars =>
        [\A r \in Calls : secret[r] = "owned" /\ secret'[r] # "owned" => exists[r] = "gone"]_vars
  BY SecretKeptStep
<1> QED BY <1>1, Invariance, PTL DEF Spec, OwnedSecretKept
=============================================================================
