---------------------------- MODULE PodExecution ----------------------------
(***************************************************************************)
(* What executePod (pkg/k8sbuilder/server.go) promises to Build and Run,   *)
(* without events, containers or log streams: one pod is created at most,  *)
(* the call returns once, it answers for the pod's end only when the pod   *)
(* has ended that way, and it deletes the pod only for a build.  The pod   *)
(* belongs to the cluster, where it ends and is deleted at any time.       *)
(***************************************************************************)
VARIABLES
  stage,    \* "BUILD" or "RUN"
  at,       \* "running" or "returned"
  result,   \* what executePod returned
  exists,   \* the pod object: "none", "live", "deleting" or "gone"
  phase     \* its phase: "Active", "Succeeded" or "Failed"

vars == <<stage, at, result, exists, phase>>

Errors == {"errWatch", "errCreate", "errReference", "errContext", "errWatchClosed",
           "errEvent"}

Init ==
  /\ stage \in {"BUILD", "RUN"} /\ at = "running" /\ result = "none"
  /\ exists = "none" /\ phase = "Active"

Create ==
  /\ at = "running" /\ exists = "none" /\ exists' = "live"
  /\ UNCHANGED <<stage, at, result, phase>>

\* The answer is backed by the pod's phase, or it is an error about something
\* else than the pod's end.
Backed(res) ==
  \/ res = "nil" /\ phase = "Succeeded"
  \/ res = "errPodFailed" /\ phase = "Failed"
  \/ res \in Errors

\* The call returns.  It may have created the pod although it reports an
\* error of Create, and it may have asked to delete a build pod.
Return(res) ==
  /\ at = "running" /\ at' = "returned" /\ result' = res
  /\ Backed(res)
  /\ \/ exists' = exists
     \/ res = "errCreate" /\ exists = "none" /\ exists' = "live"
     \/ stage = "BUILD" /\ exists = "live" /\ exists' = "deleting"
  /\ UNCHANGED <<stage, phase>>

End(p) ==
  /\ exists \in {"live", "deleting"} /\ phase = "Active" /\ phase' = p
  /\ UNCHANGED <<stage, at, result, exists>>

Delete ==
  /\ exists = "live" /\ exists' = "deleting"
  /\ UNCHANGED <<stage, at, result, phase>>

Remove ==
  /\ exists = "deleting" /\ exists' = "gone"
  /\ UNCHANGED <<stage, at, result, phase>>

Next ==
  \/ Create \/ Delete \/ Remove
  \/ \E res \in Errors \cup {"nil", "errPodFailed"} : Return(res)
  \/ \E p \in {"Succeeded", "Failed"} : End(p)

Spec == Init /\ [][Next]_vars
=============================================================================
