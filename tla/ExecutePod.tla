----------------------------- MODULE ExecutePod -----------------------------
(***************************************************************************)
(* One call of Server.executePod (pkg/k8sbuilder/server.go): the handler   *)
(* goroutine watches a pod, creates it, opens one log stream for every     *)
(* container it sees started, waits for the streams when the pod ends and  *)
(* cleans up through its deferred functions.  It runs concurrently with    *)
(*   - one streamLogs goroutine for each open log stream,                  *)
(*   - the kubelet and the API server, which run the containers one after  *)
(*     the other and publish snapshots of the pod's status,                *)
(*   - the client, which may cancel the RPC at any time,                   *)
(*   - the network, which may close the watch or break a log stream.       *)
(*                                                                         *)
(* Log lines are counted, not spelled out: line i of a container is the    *)
(* i-th one it writes.  A send on the RPC stream is one step here, because *)
(* serializedBuildStream and serializedRunStream hold a mutex around it.   *)
(***************************************************************************)
EXTENDS Naturals, Sequences

CONSTANTS
  NumContainers,  \* init containers followed by the pod's one main container
  MaxLines        \* bound: log lines a container may write

ASSUME ExecutePodAssumption ==
  /\ NumContainers \in Nat \ {0}
  /\ MaxLines \in Nat

VARIABLES
  stage,       \* "BUILD" or "RUN"
  pc,          \* where the handler goroutine is
  idx,         \* next container status the handler looks at
  cur,         \* pod status in the event being handled
  result,      \* what executePod returns
  deleteErr,   \* did the deferred deletePod log an error?
  ctxDone,     \* is the RPC's context done?
  exists,      \* the pod object: "none", "live", "deleting" or "gone"
  kubelet,     \* pod status on the node
  api,         \* pod status in the API server
  watch,       \* "none", "open", "closed" (by the server) or "stopped"
  events,      \* events of the watch that the handler has not received
  streamer,    \* streamLogs goroutine of a container: "none", "scanning", "done"
  follow,      \* PodLogOptions.Follow of the container's log stream
  snap,        \* lines in the log when the stream was opened
  pos,         \* lines the goroutine has read from the stream
  sent,        \* lines of the container passed to logger.Log
  lines,       \* lines the container has written
  closed,      \* streams the handler has closed
  complained   \* containers whose last log failure was logged

handlerVars == <<stage, pc, idx, cur, result, deleteErr>>
podVars     == <<exists, kubelet, api>>
watchVars   == <<watch, events>>
streamVars  == <<streamer, follow, snap, pos, sent, closed, complained>>
vars == <<handlerVars, ctxDone, podVars, watchVars, streamVars, lines>>

-----------------------------------------------------------------------------
Containers == 1 .. NumContainers
Main       == NumContainers

Stages     == {"BUILD", "RUN"}
CStates    == {"waiting", "running", "succeeded", "failed"}
\* Pending and Running are told apart nowhere in executePod.
Phases     == {"Active", "Succeeded", "Failed"}
PodStatus  == [phase : Phases, st : [Containers -> CStates]]
Event      == [type : {"Added", "Modified", "Deleted", "Error"}, pod : PodStatus]

Terminated(s) == s \in {"succeeded", "failed"}
Ended(p)      == p.phase # "Active"
NewPod        == [phase |-> "Active", st |-> [c \in Containers |-> "waiting"]]

\* Results of executePod: nil, or one of its error returns.
PodResults == {"nil", "errPodFailed"}
Results == PodResults \cup {"none", "errWatch", "errCreate", "errReference",
                            "errContext", "errWatchClosed", "errEvent"}

\* activeLogStreams: containers a log stream was opened for.
activeLogStreams == {c \in Containers : streamer[c] # "none"}

\* What a log stream holds: with Follow all that the container writes,
\* without it what was written when the stream was opened.
InStream(c) == IF follow[c] THEN lines[c] ELSE snap[c]

\* The queue of the watch after the API server publishes status p.
Publish(type, p) ==
  events' = IF watch = "open" THEN Append(events, [type |-> type, pod |-> p])
                              ELSE events

Init ==
  /\ stage \in Stages
  /\ pc = "watch" /\ idx = 1 /\ cur = NewPod /\ result = "none"
  /\ deleteErr = FALSE /\ ctxDone = FALSE
  /\ exists = "none" /\ kubelet = NewPod /\ api = NewPod
  /\ watch = "none" /\ events = << >>
  /\ streamer = [c \in Containers |-> "none"]
  /\ follow = [c \in Containers |-> FALSE]
  /\ snap  = [c \in Containers |-> 0]
  /\ pos   = [c \in Containers |-> 0]
  /\ sent  = [c \in Containers |-> 0]
  /\ lines = [c \in Containers |-> 0]
  /\ closed = {} /\ complained = {}

-----------------------------------------------------------------------------
(***************************************************************************)
(* The handler goroutine up to its event loop.                             *)
(***************************************************************************)
\* A return from executePod before any stream is open: the one deferred
\* function so far is watcher.Stop().
ReturnEarly(res) ==
  /\ result' = res /\ pc' = "returned"
  /\ watch' = "stopped" /\ events' = << >>
  /\ UNCHANGED <<stage, idx, cur, deleteErr, ctxDone, kubelet, api, streamVars, lines>>

WatchPod ==
  /\ pc = "watch"
  /\ pc' = "create" /\ watch' = "open"
  /\ UNCHANGED <<stage, idx, cur, result, deleteErr, ctxDone, podVars, events,
                 streamVars, lines>>

WatchFails ==
  /\ pc = "watch"
  /\ pc' = "returned" /\ result' = "errWatch"
  /\ UNCHANGED <<stage, idx, cur, deleteErr, ctxDone, podVars, watchVars,
                 streamVars, lines>>

CreatePod ==
  /\ pc = "create"
  /\ exists' = "live"
  /\ Publish("Added", api)
  /\ pc' = IF stage = "RUN" THEN "reference" ELSE "loop"
  /\ UNCHANGED <<stage, idx, cur, result, deleteErr, ctxDone, kubelet, api, watch,
                 streamVars, lines>>

\* An error from Create: the request was refused, or only its answer was lost.
CreateFails ==
  /\ pc = "create"
  /\ exists' \in {"none", "live"}
  /\ ReturnEarly("errCreate")

\* addControllerReferenceToCryptoSecret; the Server module models the secret.
AddReference ==
  /\ pc = "reference"
  /\ pc' = "loop"
  /\ UNCHANGED <<stage, idx, cur, result, deleteErr, ctxDone, podVars, watchVars,
                 streamVars, lines>>

AddReferenceFails ==
  /\ pc = "reference"
  /\ ReturnEarly("errReference")
  /\ UNCHANGED exists

-----------------------------------------------------------------------------
(***************************************************************************)
(* The event loop: one case of the select at a time.                       *)
(***************************************************************************)
\* A return out of the loop runs the deferred functions.
LeaveLoop(res) ==
  /\ result' = res /\ pc' = "closing"
  /\ UNCHANGED <<stage, idx, cur, deleteErr, ctxDone, podVars, watch, streamVars, lines>>

\* Fault: the select has no case for the context.
ContextDoneMissing == FALSE

ContextDone ==
  /\ pc = "loop" /\ ctxDone
  /\ LeaveLoop("errContext")
  /\ UNCHANGED events

WatchClosed ==
  /\ pc = "loop" /\ watch = "closed" /\ events = << >>
  /\ LeaveLoop("errWatchClosed")
  /\ UNCHANGED events

ErrorEvent ==
  /\ pc = "loop" /\ events # << >> /\ Head(events).type = "Error"
  /\ LeaveLoop("errEvent")
  /\ events' = Tail(events)

\* Every event type but Added, Modified and Error is skipped.
IgnoredEvent ==
  /\ pc = "loop" /\ events # << >> /\ Head(events).type = "Deleted"
  /\ events' = Tail(events)
  /\ UNCHANGED <<handlerVars, ctxDone, podVars, watch, streamVars, lines>>

\* Fault: the scan of the container statuses starts one too low.
PodEventOffByOne ==
  /\ pc = "loop" /\ events # << >> /\ Head(events).type \in {"Added", "Modified"}
  /\ cur' = Head(events).pod /\ events' = Tail(events)
  /\ idx' = 0 /\ pc' = "scan"
  /\ UNCHANGED <<stage, result, deleteErr, ctxDone, podVars, watch, streamVars, lines>>

PodEvent ==
  /\ pc = "loop" /\ events # << >> /\ Head(events).type \in {"Added", "Modified"}
  /\ cur' = Head(events).pod /\ events' = Tail(events)
  /\ idx' = 1 /\ pc' = "scan"
  /\ UNCHANGED <<stage, result, deleteErr, ctxDone, podVars, watch, streamVars, lines>>

-----------------------------------------------------------------------------
(***************************************************************************)
(* The loop over containerStatuses(pod), init containers first.            *)
(***************************************************************************)
AtContainer(c) == pc = "scan" /\ idx = c

SkipContainer(c) ==
  /\ AtContainer(c)
  /\ cur.st[c] = "waiting" \/ c \in activeLogStreams
  /\ idx' = idx + 1
  /\ UNCHANGED <<stage, pc, cur, result, deleteErr, ctxDone, podVars, watchVars,
                 streamVars, lines>>

\* The stream of container c is open and its goroutine started.
StartStreamer(c, withFollow) ==
  /\ idx' = idx + 1
  /\ streamer' = [streamer EXCEPT ![c] = "scanning"]
  /\ follow' = [follow EXCEPT ![c] = withFollow]
  /\ snap' = [snap EXCEPT ![c] = lines[c]]
  /\ pos' = [pos EXCEPT ![c] = 0]
  /\ complained' = complained \ {c}
  /\ UNCHANGED <<stage, pc, cur, result, deleteErr, ctxDone, podVars, watchVars,
                 sent, closed, lines>>

\* Fault: the log of a running container is fetched without Follow.
OpenLogsNoFollow(c) ==
  /\ AtContainer(c)
  /\ cur.st[c] # "waiting" /\ c \notin activeLogStreams
  /\ StartStreamer(c, FALSE)

\* Fault: a stream is opened at every event, open or not.
OpenLogsAgain(c) ==
  /\ AtContainer(c)
  /\ cur.st[c] # "waiting"
  /\ StartStreamer(c, cur.st[c] = "running")

OpenLogs(c) ==
  /\ AtContainer(c)
  /\ cur.st[c] # "waiting" /\ c \notin activeLogStreams
  /\ StartStreamer(c, cur.st[c] = "running")

\* The failure is logged; the stream stays out of activeLogStreams, so the
\* next event tries again.
GetLogsFails(c) ==
  /\ AtContainer(c)
  /\ cur.st[c] # "waiting" /\ c \notin activeLogStreams
  /\ idx' = idx + 1
  /\ complained' = complained \cup {c}
  /\ UNCHANGED <<stage, pc, cur, result, deleteErr, ctxDone, podVars, watchVars,
                 streamer, follow, snap, pos, sent, closed, lines>>

ScanDone ==
  /\ pc = "scan" /\ idx = NumContainers + 1
  /\ pc' = IF Ended(cur) THEN "wait" ELSE "loop"
  /\ UNCHANGED <<stage, idx, cur, result, deleteErr, ctxDone, podVars, watchVars,
                 streamVars, lines>>

\* Fault: the handler returns without waiting for the log goroutines.
WaitLogsSkipped ==
  /\ pc = "wait"
  /\ LeaveLoop(IF cur.phase = "Failed" THEN "errPodFailed" ELSE "nil")
  /\ UNCHANGED events

\* Fault: the phase is not looked at after the wait.
WaitLogsAlwaysNil ==
  /\ pc = "wait" /\ \A c \in Containers : streamer[c] # "scanning"
  /\ LeaveLoop("nil")
  /\ UNCHANGED events

\* wg.Wait(), then the return for the phase of the pod.
WaitLogs ==
  /\ pc = "wait" /\ \A c \in Containers : streamer[c] # "scanning"
  /\ LeaveLoop(IF cur.phase = "Failed" THEN "errPodFailed" ELSE "nil")
  /\ UNCHANGED events

-----------------------------------------------------------------------------
(***************************************************************************)
(* The deferred functions, last deferred first: the streams are closed,    *)
(* a build pod is deleted, the watch is stopped.                           *)
(***************************************************************************)
\* Fault: the build pod is deleted only after the pod has ended.
CloseStreamsKeepPod ==
  /\ pc = "closing"
  /\ closed' = closed \cup activeLogStreams
  /\ IF stage = "BUILD" /\ result \in PodResults
       THEN pc' = "delete" /\ UNCHANGED watchVars
       ELSE pc' = "returned" /\ watch' = "stopped" /\ events' = << >>
  /\ UNCHANGED <<stage, idx, cur, result, deleteErr, ctxDone, podVars, streamer,
                 follow, snap, pos, sent, complained, lines>>

\* Fault: the pod is deleted whatever the stage.
CloseStreamsDeleteAny ==
  /\ pc = "closing"
  /\ closed' = closed \cup activeLogStreams
  /\ pc' = "delete"
  /\ UNCHANGED <<stage, idx, cur, result, deleteErr, ctxDone, podVars, watchVars,
                 streamer, follow, snap, pos, sent, complained, lines>>

CloseStreams ==
  /\ pc = "closing"
  /\ closed' = closed \cup activeLogStreams
  /\ IF stage = "BUILD"
       THEN pc' = "delete" /\ UNCHANGED watchVars
       ELSE pc' = "returned" /\ watch' = "stopped" /\ events' = << >>
  /\ UNCHANGED <<stage, idx, cur, result, deleteErr, ctxDone, podVars, streamer,
                 follow, snap, pos, sent, complained, lines>>

\* What a Delete request does to the pod object: a graceful deletion begins.
AfterDelete == IF exists = "live" THEN "deleting" ELSE exists

\* deletePod: an error is logged and dropped; the request may have been
\* carried out even so.
DeletePod ==
  /\ pc = "delete"
  /\ \/ exists' = AfterDelete /\ UNCHANGED deleteErr
     \/ exists' \in {exists, AfterDelete} /\ deleteErr' = TRUE
  /\ pc' = "returned" /\ watch' = "stopped" /\ events' = << >>
  /\ UNCHANGED <<stage, idx, cur, result, ctxDone, kubelet, api, streamVars, lines>>

-----------------------------------------------------------------------------
(***************************************************************************)
(* The streamLogs goroutine of container c.                                *)
(***************************************************************************)
\* Log drops the error of Send.  A Send that fails is in SerializedStream: the
\* stream is broken then and the RPC ends with an error.
Log(c) ==
  /\ streamer[c] = "scanning" /\ pos[c] < InStream(c)
  /\ pos' = [pos EXCEPT ![c] = @ + 1]
  /\ sent' = [sent EXCEPT ![c] = @ + 1]
  /\ UNCHANGED <<handlerVars, ctxDone, podVars, watchVars, streamer, follow, snap,
                 closed, complained, lines>>

\* The scanner reaches the end of the stream; wg.Done() runs.  A stream that
\* was closed has no end: reading it is an error.
EndOfLog(c) ==
  /\ streamer[c] = "scanning" /\ pos[c] = InStream(c) /\ c \notin closed
  /\ follow[c] => Terminated(kubelet.st[c])
  /\ streamer' = [streamer EXCEPT ![c] = "done"]
  /\ UNCHANGED <<handlerVars, ctxDone, podVars, watchVars, follow, snap, pos, sent,
                 closed, complained, lines>>

\* Fault: wg.Done() is not deferred and a scanner error skips it.
ScanFailsNoDone(c) ==
  /\ streamer[c] = "scanning"
  /\ complained' = complained \cup {c}
  /\ UNCHANGED <<handlerVars, ctxDone, podVars, watchVars, streamer, follow, snap,
                 pos, sent, closed, lines>>

\* scanner.Err(): the stream was closed under the scanner, the connection
\* broke or timed out, or a line is longer than the scanner takes.
ScanFails(c) ==
  /\ streamer[c] = "scanning"
  /\ streamer' = [streamer EXCEPT ![c] = "done"]
  /\ complained' = complained \cup {c}
  /\ UNCHANGED <<handlerVars, ctxDone, podVars, watchVars, follow, snap, pos, sent,
                 closed, lines>>

-----------------------------------------------------------------------------
(***************************************************************************)
(* The kubelet (external).  RestartPolicyNever: a container runs once, the *)
(* next one starts after it succeeded, one that fails fails the pod.       *)
(***************************************************************************)
NodeUnchanged == UNCHANGED <<handlerVars, ctxDone, exists, api, watchVars, streamVars>>

StartContainer(c) ==
  /\ exists = "live" /\ ~Ended(kubelet) /\ kubelet.st[c] = "waiting"
  /\ \A d \in Containers : d < c => kubelet.st[d] = "succeeded"
  /\ kubelet' = [kubelet EXCEPT !.st[c] = "running"]
  /\ NodeUnchanged /\ UNCHANGED lines

WriteLine(c) ==
  /\ ~Ended(kubelet) /\ kubelet.st[c] = "running" /\ lines[c] < MaxLines
  /\ lines' = [lines EXCEPT ![c] = @ + 1]
  /\ NodeUnchanged /\ UNCHANGED kubelet

ExitContainer(c, s) ==
  /\ ~Ended(kubelet) /\ kubelet.st[c] = "running"
  /\ kubelet' = [phase |-> IF s = "failed" THEN "Failed"
                           ELSE IF c = Main THEN "Succeeded" ELSE "Active",
                 st |-> [kubelet.st EXCEPT ![c] = s]]
  /\ NodeUnchanged /\ UNCHANGED lines

\* The pod is evicted or refused by the node: what runs is killed and the pod
\* fails, perhaps before any container started.
Evict ==
  /\ exists = "live" /\ ~Ended(kubelet)
  /\ kubelet' = [phase |-> "Failed",
                 st |-> [c \in Containers |-> IF kubelet.st[c] = "running"
                                                THEN "failed" ELSE kubelet.st[c]]]
  /\ NodeUnchanged /\ UNCHANGED lines

-----------------------------------------------------------------------------
(***************************************************************************)
(* The API server (external).                                              *)
(***************************************************************************)
ApiUnchanged == UNCHANGED <<handlerVars, ctxDone, streamVars, lines>>

Stored == exists \in {"live", "deleting"}

\* The kubelet writes the status; changes since the last write are merged.
ReportStatus ==
  /\ Stored /\ api # kubelet
  /\ api' = kubelet
  /\ Publish("Modified", kubelet)
  /\ ApiUnchanged /\ UNCHANGED <<exists, kubelet, watch>>

\* A change of the pod that is not a change of its status.
ResendStatus ==
  /\ Stored /\ watch = "open" /\ events = << >>
  /\ Publish("Modified", api)
  /\ ApiUnchanged /\ UNCHANGED <<podVars, watch>>

\* The node is lost: the pod is marked failed, the container states stay as
\* last reported and nothing is ever reported again.
NodeLost ==
  /\ Stored /\ ~Ended(api)
  /\ api' = [api EXCEPT !.phase = "Failed"]
  /\ kubelet' = api'
  /\ Publish("Modified", api')
  /\ ApiUnchanged /\ UNCHANGED <<exists, watch>>

\* Somebody else deletes the pod (a user, or the garbage collector once the
\* peer's pod that owns it is gone).
RequestDelete ==
  /\ exists = "live"
  /\ exists' = "deleting"
  /\ ApiUnchanged /\ UNCHANGED <<kubelet, api, watchVars>>

RemovePod ==
  /\ exists = "deleting"
  /\ exists' = "gone"
  /\ Publish("Deleted", api)
  /\ ApiUnchanged /\ UNCHANGED <<kubelet, api, watch>>

\* The server or the client's timeout ends the watch.
EndWatch ==
  /\ watch = "open" /\ watch' = "closed"
  /\ ApiUnchanged /\ UNCHANGED <<podVars, events>>

\* The watch ends with an error event.
FailWatch ==
  /\ watch = "open" /\ watch' = "closed"
  /\ Publish("Error", api)
  /\ ApiUnchanged /\ UNCHANGED podVars

\* The client goes away or gives up (external).
Cancel ==
  /\ ~ctxDone /\ ctxDone' = TRUE
  /\ UNCHANGED <<handlerVars, podVars, watchVars, streamVars, lines>>

-----------------------------------------------------------------------------
Scan(c) == SkipContainer(c) \/ OpenLogs(c) \/ GetLogsFails(c)

Handler ==
  \/ WatchPod \/ WatchFails \/ CreatePod \/ CreateFails
  \/ AddReference \/ AddReferenceFails
  \/ WatchClosed \/ ErrorEvent \/ IgnoredEvent \/ PodEvent
  \/ \E c \in Containers : Scan(c)
  \/ ScanDone \/ WaitLogs \/ CloseStreams \/ DeletePod

StreamLogs(c) == Log(c) \/ EndOfLog(c)

Kubelet ==
  \/ \E c \in Containers : StartContainer(c) \/ WriteLine(c)
  \/ \E c \in Containers, s \in {"succeeded", "failed"} : ExitContainer(c, s)
  \/ Evict

ApiServer ==
  \/ ReportStatus \/ ResendStatus \/ NodeLost
  \/ RequestDelete \/ RemovePod \/ EndWatch \/ FailWatch

\* The call is over and so are its goroutines.
Finished ==
  /\ pc = "returned" /\ \A c \in Containers : streamer[c] # "scanning"
  /\ UNCHANGED vars

Next ==
  \/ Handler \/ ContextDone
  \/ \E c \in Containers : StreamLogs(c) \/ ScanFails(c)
  \/ Kubelet \/ ApiServer \/ Cancel \/ Finished

(***************************************************************************)
(* Fairness.  The handler and the log goroutines run (WF).  Go's select    *)
(* chooses among the ready cases at random, so a context that is done is   *)
(* not passed over for ever (SF).  Every request of the Kubernetes client  *)
(* has a timeout that also covers the body (clientConfig.Timeout), so a    *)
(* log stream that never ends breaks (WF ScanFails).  A status on a node   *)
(* that is up reaches the API server (WF ReportStatus).  Nothing is        *)
(* assumed of the containers, the client or the watch.                     *)
(***************************************************************************)
Fairness ==
  /\ WF_vars(Handler)
  /\ SF_vars(ContextDone)
  /\ \A c \in Containers : WF_vars(StreamLogs(c)) /\ WF_vars(ScanFails(c))
  /\ WF_vars(ReportStatus)

Spec == Init /\ [][Next]_vars
FairSpec == Spec /\ Fairness

-----------------------------------------------------------------------------
\* Type invariant of the state of an executePod call.
TypeOK ==
  /\ stage \in Stages
  /\ pc \in {"watch", "create", "reference", "loop", "scan", "wait", "closing",
             "delete", "returned"}
  /\ idx \in 1 .. NumContainers + 1
  /\ cur \in PodStatus /\ kubelet \in PodStatus /\ api \in PodStatus
  /\ result \in Results
  /\ deleteErr \in BOOLEAN /\ ctxDone \in BOOLEAN
  /\ exists \in {"none", "live", "deleting", "gone"}
  /\ watch \in {"none", "open", "closed", "stopped"}
  /\ events \in Seq(Event)
  /\ streamer \in [Containers -> {"none", "scanning", "done"}]
  /\ follow \in [Containers -> BOOLEAN]
  /\ snap \in [Containers -> Nat] /\ pos \in [Containers -> Nat]
  /\ sent \in [Containers -> Nat] /\ lines \in [Containers -> Nat]
  /\ closed \subseteq Containers /\ complained \subseteq Containers

\* The call has returned because it saw the pod end.
ReturnedForPod == pc = "returned" /\ result \in PodResults

\* executePod's answer is the fate of the pod: nil only for a pod that
\* succeeded, "pod status is failed" only for one that failed (server.go
\* 293-299), however late and merged the status events were.
ResultMatchesPod ==
  /\ result = "nil" => api.phase = "Succeeded"
  /\ result = "errPodFailed" => api.phase = "Failed"

\* No log line is lost without a trace: when the call returns because the pod
\* ended, each container that the last event showed as started has had all its
\* lines passed to the RPC stream, or a failure to read its log was logged
\* (server.go 263-294, 316-326).
NoSilentLogLoss ==
  ReturnedForPod =>
    \A c \in Containers : cur.st[c] # "waiting" =>
      sent[c] = lines[c] \/ c \in complained

\* No line reaches the client twice, however many events report the container
\* (the activeLogStreams check, server.go 267).
NoDuplicateLines == \A c \in Containers : sent[c] <= lines[c]

\* Once the call has returned because the pod ended, no log goroutine is left
\* to use the RPC stream of the finished call (wg.Wait, server.go 294).
NoLateSender ==
  ReturnedForPod => \A c \in Containers : streamer[c] # "scanning"

\* A build leaves no pod behind on any path out of executePod, unless the
\* deletion failed or Create returned an error for a pod it did create
\* (server.go 222-239, 305).
BuildPodReclaimed ==
  stage = "BUILD" /\ pc = "returned" /\ exists = "live" =>
    deleteErr \/ result = "errCreate"

\* The call as its callers see it: the result counts once it is returned, and
\* the pod is what the API server says it is.
Promise == INSTANCE PodExecution WITH
  at     <- IF pc = "returned" THEN "returned" ELSE "running",
  result <- IF pc = "returned" THEN result ELSE "none",
  phase  <- api.phase

\* executePod keeps its promise to Build and Run (server.go 213-302): it
\* implements the PodExecution specification.
KeepsPromise == Promise!Spec

\* A pod whose end is known to the API server ends the call: the handler is
\* not kept for ever by a log stream, a lost node or a broken watch.
TerminatedPodReturns == Ended(api) ~> pc = "returned"

\* A cancelled RPC ends the call even though its pod may run on (server.go
\* 246), and even if the handler is already waiting for log streams.
CancelReturns == ctxDone ~> pc = "returned"
=============================================================================
