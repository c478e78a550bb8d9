-------------------------- MODULE ExecutePodProofs --------------------------
(***************************************************************************)
(* Proofs about ExecutePod for every number of containers and of log       *)
(* lines: its type invariant and its safety properties, all from one       *)
(* inductive invariant.                                                    *)
(***************************************************************************)
EXTENDS ExecutePod, TLAPS

-----------------------------------------------------------------------------
(***************************************************************************)
(* The inductive invariant.                                                *)
(***************************************************************************)
\* Container c will write no more lines.  A node that is lost may take back
\* the state of a container, but it ends the pod.
Frozen(c) == Terminated(kubelet.st[c]) \/ Ended(kubelet)

\* What a status says is final: an end of the pod is the pod's end in the API
\* server, and a container shown as terminated writes no more lines.
Final(p) ==
  /\ Ended(p) => p.phase = api.phase
  /\ \A c \in Containers : Terminated(p.st[c]) => Frozen(c)

\* The end of a pod is stable, and every status the handler holds or will be
\* sent is final in what it says.
StatusInv ==
  /\ Ended(api) => kubelet = api
  /\ Final(api) /\ Final(cur)
  /\ \A i \in 1 .. Len(events) : Final(events[i].pod)

\* The result is set on the way out of the loop, from the status in hand.
ResultInv ==
  /\ pc \in {"watch", "create", "reference", "loop", "scan", "wait"} => result = "none"
  /\ pc = "wait" => Ended(cur)
  /\ pc \in {"closing", "delete"} =>
       result \in {"nil", "errPodFailed", "errContext", "errWatchClosed", "errEvent"}
  /\ result = "nil" => cur.phase = "Succeeded"
  /\ result = "errPodFailed" => cur.phase = "Failed"

\* What each log goroutine has read and sent.
StreamInv ==
  \A c \in Containers :
    /\ sent[c] = pos[c] /\ snap[c] <= lines[c] /\ pos[c] <= InStream(c)
    /\ streamer[c] = "none" => pos[c] = 0
    /\ streamer[c] = "scanning" /\ ~follow[c] => snap[c] = lines[c] /\ Frozen(c)
    /\ streamer[c] = "done" => c \in complained \/ (sent[c] = lines[c] /\ Frozen(c))

\* The handler has dealt with container c of the status in hand.
Handled(c) == cur.st[c] = "waiting" \/ streamer[c] # "none" \/ c \in complained

\* The scan leaves no started container without a stream or a complaint, and
\* the wait leaves no goroutine behind.
ScanInv ==
  /\ pc = "scan" => \A c \in Containers : c < idx => Handled(c)
  /\ pc = "wait" \/ result \in PodResults => \A c \in Containers : Handled(c)
  /\ result \in PodResults => \A c \in Containers : streamer[c] # "scanning"

\* A build pod that exists is deleted before the call returns.
DeleteInv ==
  /\ pc \in {"watch", "create"} => exists = "none"
  /\ stage = "BUILD" => pc # "reference"
  /\ pc = "delete" => stage = "BUILD"
  /\ BuildPodReclaimed

IInv == TypeOK /\ StatusInv /\ ResultInv /\ StreamInv /\ ScanInv /\ DeleteInv

-----------------------------------------------------------------------------
(***************************************************************************)
(* Type correctness.                                                       *)
(***************************************************************************)
\* The first statuses are statuses.
LEMMA NewPodType == NewPod \in PodStatus
BY DEF NewPod, PodStatus, Phases, CStates

\* Publishing a status keeps the queue of the watch a sequence of events.
LEMMA PublishType ==
  ASSUME events \in Seq(Event), NEW p \in PodStatus,
         NEW t \in {"Added", "Modified", "Deleted", "Error"}, Publish(t, p)
  PROVE  events' \in Seq(Event)
<1>1. [type |-> t, pod |-> p] \in Event
  BY DEF Event
<1> QED BY <1>1 DEF Publish

\* A watch that is stopped has no events.
LEMMA NoEventsType == << >> \in Seq(Event)
OBVIOUS

LEMMA TypeInit == Init => TypeOK
<1> SUFFICES ASSUME Init PROVE TypeOK
  OBVIOUS
<1>1. /\ idx \in 1 .. NumContainers + 1 /\ result \in Results
      /\ snap \in [Containers -> Nat] /\ pos \in [Containers -> Nat]
      /\ sent \in [Containers -> Nat] /\ lines \in [Containers -> Nat]
  BY ExecutePodAssumption DEF Init, Results
<1>2. events \in Seq(Event)
  BY DEF Init
<1> QED BY <1>1, <1>2, NewPodType DEF Init, TypeOK

LEMMA TypeHandler == TypeOK /\ (Handler \/ ContextDone) => TypeOK'
<1> SUFFICES ASSUME TypeOK, Handler \/ ContextDone PROVE TypeOK'
  OBVIOUS
<1> USE ExecutePodAssumption DEF TypeOK, handlerVars, podVars, watchVars, streamVars
<1>1. CASE WatchPod \/ WatchFails
  BY <1>1 DEF WatchPod, WatchFails, Results, PodResults
<1>2. CASE CreatePod
  BY <1>2, PublishType DEF CreatePod
<1>3. CASE CreateFails \/ AddReferenceFails
  <2>1. events' \in Seq(Event) /\ result' \in Results /\ exists' \in {"none", "live", exists}
    BY <1>3, NoEventsType DEF CreateFails, AddReferenceFails, ReturnEarly, Results
  <2> QED BY <1>3, <2>1 DEF CreateFails, AddReferenceFails, ReturnEarly
<1>4. CASE AddReference
  BY <1>4 DEF AddReference
<1>5. CASE ContextDone \/ WatchClosed \/ ErrorEvent \/ WaitLogs
  <2>1. events' \in Seq(Event)
    <3>1. CASE events # << >> /\ events' = Tail(events)
      BY <3>1
    <3> QED BY <1>5, <3>1 DEF ContextDone, WatchClosed, ErrorEvent, WaitLogs
  <2>2. \E r \in Results : LeaveLoop(r)
    <3>1. {"errContext", "errWatchClosed", "errEvent", "nil", "errPodFailed"} \subseteq Results
      BY DEF Results, PodResults
    <3> QED BY <1>5, <3>1 DEF ContextDone, WatchClosed, ErrorEvent, WaitLogs
  <2> QED BY <2>1, <2>2 DEF LeaveLoop
<1>6. CASE IgnoredEvent
  BY <1>6 DEF IgnoredEvent
<1>7. CASE PodEvent
  <2>1. Head(events) \in Event /\ Tail(events) \in Seq(Event)
    BY <1>7 DEF PodEvent
  <2>2. cur' \in PodStatus /\ events' \in Seq(Event) /\ idx' \in 1 .. NumContainers + 1
    BY <1>7, <2>1 DEF PodEvent, Event
  <2> QED BY <1>7, <2>2 DEF PodEvent
<1>8. ASSUME NEW c \in Containers, Scan(c) PROVE TypeOK'
  <2>1. c \in 1 .. NumContainers
    BY DEF Containers
  <2>2. CASE SkipContainer(c)
    BY <2>1, <2>2 DEF SkipContainer, AtContainer
  <2>3. CASE OpenLogs(c)
    <3>1. PICK f \in BOOLEAN : StartStreamer(c, f)
      BY <2>3 DEF OpenLogs
    <3>2. idx' \in 1 .. NumContainers + 1
      BY <2>1, <2>3 DEF OpenLogs, AtContainer, StartStreamer
    <3> QED BY <3>1, <3>2 DEF StartStreamer
  <2>4. CASE GetLogsFails(c)
    <3>1. idx' \in 1 .. NumContainers + 1
      BY <2>1, <2>4 DEF GetLogsFails, AtContainer
    <3> QED BY <2>4, <3>1 DEF GetLogsFails
  <2> QED BY <1>8, <2>2, <2>3, <2>4 DEF Scan
<1>9. CASE ScanDone
  BY <1>9 DEF ScanDone
<1>10. CASE CloseStreams
  <2>1. closed' \subseteq Containers
    BY <1>10 DEF CloseStreams, activeLogStreams
  <2>2. events' \in Seq(Event) /\ watch' \in {watch, "stopped"} /\ pc' \in {"delete", "returned"}
    BY <1>10, NoEventsType DEF CloseStreams
  <2> QED BY <1>10, <2>1, <2>2 DEF CloseStreams
<1>11. CASE DeletePod
  <2>1. exists' \in {exists, "deleting"} /\ deleteErr' \in BOOLEAN /\ events' \in Seq(Event)
    BY <1>11, NoEventsType DEF DeletePod, AfterDelete
  <2> QED BY <1>11, <2>1 DEF DeletePod
<1> QED BY <1>1, <1>2, <1>3, <1>4, <1>5, <1>6, <1>7, <1>8, <1>9, <1>10, <1>11
        DEF Handler

LEMMA TypeStreamer ==
  ASSUME TypeOK, NEW c \in Containers, StreamLogs(c) \/ ScanFails(c)
  PROVE  TypeOK'
<1> USE DEF TypeOK, handlerVars, podVars, watchVars
<1>1. CASE Log(c)
  BY <1>1 DEF Log
<1>2. CASE EndOfLog(c)
  BY <1>2 DEF EndOfLog
<1>3. CASE ScanFails(c)
  BY <1>3 DEF ScanFails
<1> QED BY <1>1, <1>2, <1>3 DEF StreamLogs

LEMMA TypeKubelet == TypeOK /\ Kubelet => TypeOK'
<1> SUFFICES ASSUME TypeOK, Kubelet PROVE TypeOK'
  OBVIOUS
<1> USE DEF TypeOK, NodeUnchanged, handlerVars, watchVars, streamVars
<1>0. /\ kubelet.phase \in Phases /\ kubelet.st \in [Containers -> CStates]
      /\ \A f \in Phases, g \in [Containers -> CStates] :
           [phase |-> f, st |-> g] \in PodStatus
  BY DEF PodStatus
<1>1. ASSUME NEW c \in Containers, StartContainer(c) PROVE TypeOK'
  <2>1. kubelet' = [phase |-> kubelet.phase, st |-> [kubelet.st EXCEPT ![c] = "running"]]
    BY <1>1 DEF StartContainer, PodStatus
  <2>2. [kubelet.st EXCEPT ![c] = "running"] \in [Containers -> CStates]
    BY <1>0 DEF CStates
  <2>3. kubelet' \in PodStatus
    BY <1>0, <2>1, <2>2
  <2> QED BY <1>1, <2>3 DEF StartContainer
<1>2. ASSUME NEW c \in Containers, WriteLine(c) PROVE TypeOK'
  BY <1>2 DEF WriteLine
<1>3. ASSUME NEW c \in Containers, NEW s \in {"succeeded", "failed"}, ExitContainer(c, s)
      PROVE  TypeOK'
  <2>1. [kubelet.st EXCEPT ![c] = s] \in [Containers -> CStates]
    BY <1>0 DEF CStates
  <2>2. kubelet' \in PodStatus
    BY <1>0, <1>3, <2>1 DEF ExitContainer, Phases
  <2> QED BY <1>3, <2>2 DEF ExitContainer
<1>4. CASE Evict
  <2>1. [d \in Containers |-> IF kubelet.st[d] = "running" THEN "failed"
                                                           ELSE kubelet.st[d]]
          \in [Containers -> CStates]
    BY <1>0 DEF CStates
  <2>2. kubelet' \in PodStatus
    BY <1>0, <1>4, <2>1 DEF Evict, Phases
  <2> QED BY <1>4, <2>2 DEF Evict
<1> QED BY <1>1, <1>2, <1>3, <1>4 DEF Kubelet

LEMMA TypeApiServer == TypeOK /\ (ApiServer \/ Cancel) => TypeOK'
<1> SUFFICES ASSUME TypeOK, ApiServer \/ Cancel PROVE TypeOK'
  OBVIOUS
<1> USE DEF TypeOK, ApiUnchanged, handlerVars, podVars, watchVars, streamVars
<1>1. CASE ReportStatus
  BY <1>1, PublishType DEF ReportStatus
<1>2. CASE ResendStatus
  BY <1>2, PublishType DEF ResendStatus
<1>3. CASE NodeLost
  <2>1. api' \in PodStatus /\ kubelet' = api' /\ Publish("Modified", api')
    BY <1>3 DEF NodeLost, PodStatus, Phases
  <2>2. events' \in Seq(Event)
    BY <2>1, PublishType
  <2> QED BY <1>3, <2>1, <2>2 DEF NodeLost
<1>4. CASE RequestDelete \/ EndWatch \/ Cancel
  BY <1>4 DEF RequestDelete, EndWatch, Cancel
<1>5. CASE RemovePod
  BY <1>5, PublishType DEF RemovePod
<1>6. CASE FailWatch
  BY <1>6, PublishType DEF FailWatch
<1> QED BY <1>1, <1>2, <1>3, <1>4, <1>5, <1>6 DEF ApiServer

LEMMA TypeStep == TypeOK /\ [Next]_vars => TypeOK'
<1>1. TypeOK /\ (Finished \/ UNCHANGED vars) => TypeOK'
  BY DEF TypeOK, Finished, vars, handlerVars, podVars, watchVars, streamVars
<1> QED BY <1>1, TypeHandler, TypeStreamer, TypeKubelet, TypeApiServer DEF Next

\* Every state of an executePod call has its type.
THEOREM TypeCorrect == Spec => []TypeOK
BY TypeInit, TypeStep, PTL DEF Spec

-----------------------------------------------------------------------------
(***************************************************************************)
(* What a step may change.                                                 *)
(***************************************************************************)
\* A step of the handler leaves the pod's status alone.
LEMMA HandlerFrame ==
  Handler \/ ContextDone => UNCHANGED <<ctxDone, kubelet, api, lines>>
<1> SUFFICES ASSUME Handler \/ ContextDone
             PROVE  UNCHANGED <<ctxDone, kubelet, api, lines>>
  OBVIOUS
<1> USE DEF podVars, LeaveLoop, ReturnEarly
<1>1. CASE WatchPod \/ WatchFails \/ CreatePod \/ CreateFails \/ AddReference
  BY <1>1 DEF WatchPod, WatchFails, CreatePod, CreateFails, AddReference
<1>2. CASE AddReferenceFails \/ ContextDone \/ WatchClosed \/ ErrorEvent \/ IgnoredEvent
  BY <1>2 DEF AddReferenceFails, ContextDone, WatchClosed, ErrorEvent, IgnoredEvent
<1>3. CASE PodEvent \/ ScanDone \/ WaitLogs \/ CloseStreams \/ DeletePod
  BY <1>3 DEF PodEvent, ScanDone, WaitLogs, CloseStreams, DeletePod
<1>4. ASSUME NEW c \in Containers, Scan(c)
      PROVE  UNCHANGED <<ctxDone, kubelet, api, lines>>
  BY <1>4 DEF Scan, SkipContainer, OpenLogs, GetLogsFails, StartStreamer
<1> QED BY <1>1, <1>2, <1>3, <1>4 DEF Handler

\* The pod's status changes only on the node and in the API server.
LEMMA StatusFrame ==
  [Next]_vars => Kubelet \/ ReportStatus \/ NodeLost \/ UNCHANGED <<kubelet, api>>
<1> USE DEF podVars, vars, handlerVars
<1>1. ASSUME NEW c \in Containers, StreamLogs(c) \/ ScanFails(c)
      PROVE  UNCHANGED <<kubelet, api>>
  BY <1>1 DEF StreamLogs, ScanFails, Log, EndOfLog
<1>2. ApiServer => ReportStatus \/ NodeLost \/ UNCHANGED <<kubelet, api>>
  BY DEF ApiServer, ResendStatus, RequestDelete, RemovePod, EndWatch, FailWatch
<1>3. Cancel \/ Finished \/ UNCHANGED vars => UNCHANGED <<kubelet, api>>
  BY DEF Cancel, Finished
<1> QED BY <1>1, <1>2, <1>3, HandlerFrame DEF Next

\* The end of the pod is stable in the API server, and so is the end of a
\* container's output.
LEMMA StatusKept ==
  ASSUME TypeOK, StatusInv, [Next]_vars
  PROVE  /\ (Ended(api) => kubelet = api)'
         /\ Final(api)'
         /\ Ended(api) => api' = api
         /\ \A c \in Containers : Frozen(c) => Frozen(c)'
<1> USE DEF StatusInv, Final, Frozen
<1>1. CASE UNCHANGED <<kubelet, api>>
  BY <1>1
<1>2. CASE NodeLost
  <2>1. Ended(api)' /\ kubelet' = api' /\ ~Ended(api)
    BY <1>2 DEF NodeLost, Ended, TypeOK, PodStatus
  <2> QED BY <2>1
<1>3. CASE ReportStatus
  BY <1>3 DEF ReportStatus
<1>4. CASE Kubelet
  <2>1. ~Ended(kubelet) /\ api' = api
    BY <1>4 DEF Kubelet, StartContainer, WriteLine, ExitContainer, Evict, NodeUnchanged
  <2>2. ASSUME NEW c \in Containers, Terminated(kubelet.st[c])
        PROVE  kubelet'.st[c] = kubelet.st[c]
    <3>1. kubelet.st[c] # "running" /\ kubelet.st[c] # "waiting"
      BY <2>2 DEF Terminated
    <3>2. ASSUME NEW d \in Containers, StartContainer(d)
          PROVE  kubelet'.st[c] = kubelet.st[c]
      BY <3>1, <3>2 DEF StartContainer, TypeOK, PodStatus
    <3>3. ASSUME NEW d \in Containers, NEW s \in {"succeeded", "failed"},
                 ExitContainer(d, s)
          PROVE  kubelet'.st[c] = kubelet.st[c]
      BY <3>1, <3>3 DEF ExitContainer, TypeOK, PodStatus
    <3> QED BY <1>4, <3>1, <3>2, <3>3 DEF Kubelet, WriteLine, Evict
  <2>3. \A c \in Containers : Frozen(c) => Frozen(c)'
    BY <2>1, <2>2
  <2> QED BY <2>1, <2>3
<1> QED BY <1>1, <1>2, <1>3, <1>4, StatusFrame

\* Publishing adds one event at the end of the queue.
LEMMA PublishKept ==
  ASSUME TypeOK, NEW t, NEW p, Publish(t, p), NEW i \in 1 .. Len(events')
  PROVE  \/ events'[i].pod = p
         \/ i \in 1 .. Len(events) /\ events'[i] = events[i]
<1>1. CASE events' = events
  BY <1>1
<1>2. CASE events' = Append(events, [type |-> t, pod |-> p])
  BY <1>2 DEF TypeOK
<1> QED BY <1>1, <1>2 DEF Publish

\* Events come from the API server, with the status it holds.
LEMMA EventsKept ==
  ASSUME TypeOK, [Next]_vars, NEW i \in 1 .. Len(events')
  PROVE  \/ events'[i].pod = api'
         \/ \E j \in 1 .. Len(events) : events'[i].pod = events[j].pod
<1> DEFINE Goal == \/ events'[i].pod = api'
                   \/ \E j \in 1 .. Len(events) : events'[i].pod = events[j].pod
<1> USE DEF watchVars
<1>1. CASE UNCHANGED events
  BY <1>1
<1>2. CASE events' = << >>
  BY <1>2
<1>3. CASE events # << >> /\ events' = Tail(events)
  <2>1. i + 1 \in 1 .. Len(events) /\ events'[i] = events[i + 1]
    BY <1>3 DEF TypeOK
  <2> QED BY <2>1
<1>4. ASSUME NEW t, NEW p, Publish(t, p), p = api' PROVE Goal
  BY <1>4, PublishKept
<1>5. CASE Handler \/ ContextDone
  <2>1. CASE CreatePod
    BY <1>4, <2>1 DEF CreatePod
  <2>2. ASSUME NEW c \in Containers, Scan(c) PROVE UNCHANGED events
    BY <2>2 DEF Scan, SkipContainer, OpenLogs, GetLogsFails, StartStreamer
  <2>3. CASE WatchPod \/ WatchFails \/ AddReference \/ ContextDone \/ WatchClosed
    BY <1>1, <2>3 DEF WatchPod, WatchFails, AddReference, ContextDone, WatchClosed
  <2>4. CASE ScanDone \/ WaitLogs
    BY <1>1, <2>4 DEF ScanDone, WaitLogs
  <2>5. CASE CreateFails \/ AddReferenceFails \/ DeletePod \/ CloseStreams
    BY <1>1, <1>2, <2>5 DEF CreateFails, AddReferenceFails, ReturnEarly, DeletePod,
                            CloseStreams
  <2>6. CASE ErrorEvent \/ IgnoredEvent \/ PodEvent
    BY <1>3, <2>6 DEF ErrorEvent, IgnoredEvent, PodEvent
  <2> QED BY <1>1, <1>5, <2>1, <2>2, <2>3, <2>4, <2>5, <2>6 DEF Handler
<1>6. CASE ApiServer
  <2>1. CASE ReportStatus
    BY <1>4, <2>1 DEF ReportStatus
  <2>2. CASE ResendStatus
    BY <1>4, <2>2 DEF ResendStatus, podVars
  <2>3. CASE NodeLost
    BY <2>3, PublishKept DEF NodeLost
  <2>4. CASE RemovePod
    BY <1>4, <2>4 DEF RemovePod
  <2>5. CASE FailWatch
    BY <1>4, <2>5 DEF FailWatch, podVars
  <2>6. CASE RequestDelete \/ EndWatch
    BY <1>1, <2>6 DEF RequestDelete, EndWatch
  <2> QED BY <1>6, <2>1, <2>2, <2>3, <2>4, <2>5, <2>6 DEF ApiServer
<1>7. CASE Kubelet \/ Cancel \/ Finished \/ UNCHANGED vars
  BY <1>1, <1>7 DEF Kubelet, StartContainer, WriteLine, ExitContainer, Evict,
     NodeUnchanged, Cancel, Finished, vars
<1>8. ASSUME NEW c \in Containers, StreamLogs(c) \/ ScanFails(c) PROVE UNCHANGED events
  BY <1>8 DEF StreamLogs, Log, EndOfLog, ScanFails
<1> QED BY <1>1, <1>5, <1>6, <1>7, <1>8 DEF Next

\* The handler's own variables change in its own steps only.
LEMMA OthersKeepHandler ==
  [Next]_vars => Handler \/ ContextDone \/ UNCHANGED handlerVars
<1> USE DEF handlerVars
<1>1. Kubelet => UNCHANGED handlerVars
  BY DEF Kubelet, StartContainer, WriteLine, ExitContainer, Evict, NodeUnchanged
<1>2. ApiServer => UNCHANGED handlerVars
  BY DEF ApiServer, ReportStatus, ResendStatus, NodeLost, RequestDelete, RemovePod,
         EndWatch, FailWatch, ApiUnchanged
<1>3. ASSUME NEW c \in Containers, StreamLogs(c) \/ ScanFails(c)
      PROVE  UNCHANGED handlerVars
  BY <1>3 DEF StreamLogs, Log, EndOfLog, ScanFails
<1>4. Cancel \/ Finished \/ UNCHANGED vars => UNCHANGED handlerVars
  BY DEF Cancel, Finished, vars
<1> QED BY <1>1, <1>2, <1>3, <1>4 DEF Next

\* The status in hand changes only when an event is received.
LEMMA CurKept ==
  ASSUME TypeOK, [Next]_vars
  PROVE  cur' = cur \/ \E j \in 1 .. Len(events) : cur' = events[j].pod
<1> USE DEF handlerVars, LeaveLoop, ReturnEarly
<1>1. CASE PodEvent
  <2>1. 1 \in 1 .. Len(events) /\ Head(events) = events[1]
    BY <1>1 DEF PodEvent, TypeOK
  <2> QED BY <1>1, <2>1 DEF PodEvent
<1>2. WatchPod \/ WatchFails \/ CreatePod \/ CreateFails \/ AddReference => cur' = cur
  BY DEF WatchPod, WatchFails, CreatePod, CreateFails, AddReference
<1>3. AddReferenceFails \/ ContextDone \/ WatchClosed \/ ErrorEvent \/ IgnoredEvent => cur' = cur
  BY DEF AddReferenceFails, ContextDone, WatchClosed, ErrorEvent, IgnoredEvent
<1>4. ScanDone \/ WaitLogs \/ CloseStreams \/ DeletePod => cur' = cur
  BY DEF ScanDone, WaitLogs, CloseStreams, DeletePod
<1>5. ASSUME NEW c \in Containers, Scan(c) PROVE cur' = cur
  BY <1>5 DEF Scan, SkipContainer, OpenLogs, GetLogsFails, StartStreamer
<1> QED BY <1>1, <1>2, <1>3, <1>4, <1>5, OthersKeepHandler DEF Handler

LEMMA StatusStep == TypeOK /\ StatusInv /\ [Next]_vars => StatusInv'
<1> SUFFICES ASSUME TypeOK, StatusInv, [Next]_vars PROVE StatusInv'
  OBVIOUS
<1>1. /\ (Ended(api) => kubelet = api)' /\ Final(api)'
      /\ Ended(api) => api' = api
      /\ \A c \in Containers : Frozen(c) => Frozen(c)'
  BY StatusKept
<1>2. Final(cur)'
  BY <1>1, CurKept DEF StatusInv, Final, Ended
<1>3. ASSUME NEW i \in 1 .. Len(events') PROVE Final(events[i].pod)'
  BY <1>1, <1>3, EventsKept DEF StatusInv, Final, Ended
<1> QED BY <1>1, <1>2, <1>3 DEF StatusInv

-----------------------------------------------------------------------------
(***************************************************************************)
(* The result, the log streams, the scan and the deletion of a build pod.  *)
(***************************************************************************)
LEMMA ResultStep == TypeOK /\ ResultInv /\ [Next]_vars => ResultInv'
<1> SUFFICES ASSUME TypeOK, ResultInv, [Next]_vars PROVE ResultInv'
  OBVIOUS
<1> USE DEF ResultInv, handlerVars
<1>1. CASE WatchPod \/ WatchFails \/ CreatePod \/ AddReference
  BY <1>1 DEF WatchPod, WatchFails, CreatePod, AddReference
<1>2. CASE CreateFails \/ AddReferenceFails
  BY <1>2 DEF CreateFails, AddReferenceFails, ReturnEarly
<1>3. CASE ContextDone \/ WatchClosed \/ ErrorEvent
  BY <1>3 DEF ContextDone, WatchClosed, ErrorEvent, LeaveLoop
<1>4. CASE WaitLogs
  <2>1. cur.phase \in {"Succeeded", "Failed"}
    BY <1>4 DEF WaitLogs, Ended, TypeOK, PodStatus, Phases
  <2> QED BY <1>4, <2>1 DEF WaitLogs, LeaveLoop
<1>5. CASE IgnoredEvent \/ PodEvent \/ ScanDone
  BY <1>5 DEF IgnoredEvent, PodEvent, ScanDone
<1>6. ASSUME NEW c \in Containers, Scan(c) PROVE ResultInv'
  BY <1>6 DEF Scan, SkipContainer, OpenLogs, GetLogsFails, StartStreamer, AtContainer
<1>7. CASE CloseStreams \/ DeletePod
  BY <1>7 DEF CloseStreams, DeletePod
<1>8. CASE UNCHANGED handlerVars
  BY <1>8
<1> QED BY <1>1, <1>2, <1>3, <1>4, <1>5, <1>6, <1>7, <1>8, OthersKeepHandler DEF Handler

\* The log streams change only when the handler opens one or fails to, when a
\* goroutine runs, and when a container writes a line.
LEMMA StreamFrame ==
  [Next]_vars =>
    \/ \E c \in Containers : \/ OpenLogs(c) \/ GetLogsFails(c)
                             \/ StreamLogs(c) \/ ScanFails(c) \/ WriteLine(c)
    \/ UNCHANGED <<streamer, follow, snap, pos, sent, complained, lines>>
<1> DEFINE Same == UNCHANGED <<streamer, follow, snap, pos, sent, complained, lines>>
<1> USE DEF streamVars
<1>1. WatchPod \/ WatchFails \/ CreatePod \/ CreateFails \/ AddReference => Same
  BY DEF WatchPod, WatchFails, CreatePod, CreateFails, AddReference, ReturnEarly
<1>2. AddReferenceFails \/ ContextDone \/ WatchClosed \/ ErrorEvent \/ IgnoredEvent => Same
  BY DEF AddReferenceFails, ContextDone, WatchClosed, ErrorEvent, IgnoredEvent,
         ReturnEarly, LeaveLoop
<1>3. PodEvent \/ ScanDone \/ WaitLogs \/ CloseStreams \/ DeletePod => Same
  BY DEF PodEvent, ScanDone, WaitLogs, CloseStreams, DeletePod, LeaveLoop
<1>4. ASSUME NEW c \in Containers, SkipContainer(c) PROVE Same
  BY <1>4 DEF SkipContainer
<1>5. ASSUME NEW c \in Containers, StartContainer(c) PROVE Same
  BY <1>5 DEF StartContainer, NodeUnchanged
<1>6. ASSUME NEW c \in Containers, NEW s, ExitContainer(c, s) PROVE Same
  BY <1>6 DEF ExitContainer, NodeUnchanged
<1>7. Evict => Same
  BY DEF Evict, NodeUnchanged
<1>8. ApiServer => Same
  BY DEF ApiServer, ReportStatus, ResendStatus, NodeLost, RequestDelete, RemovePod,
         EndWatch, FailWatch, ApiUnchanged
<1>9. Cancel \/ Finished \/ UNCHANGED vars => Same
  BY DEF Cancel, Finished, vars
<1> QED BY <1>1, <1>2, <1>3, <1>4, <1>5, <1>6, <1>7, <1>8, <1>9
        DEF Next, Handler, Scan, Kubelet

LEMMA StreamStep == TypeOK /\ StatusInv /\ StreamInv /\ [Next]_vars => StreamInv'
<1> SUFFICES ASSUME TypeOK, StatusInv, StreamInv, [Next]_vars PROVE StreamInv'
  OBVIOUS
<1>0. \A c \in Containers : Frozen(c) => Frozen(c)'
  BY StatusKept
<1> USE DEF StreamInv, InStream
<1>1. CASE UNCHANGED <<streamer, follow, snap, pos, sent, complained, lines>>
  BY <1>0, <1>1
<1>2. ASSUME NEW c \in Containers, OpenLogs(c) PROVE StreamInv'
  <2>1. PICK f \in BOOLEAN : f = (cur.st[c] = "running") /\ StartStreamer(c, f)
    BY <1>2 DEF OpenLogs
  <2>2. ~f => Frozen(c)'
    <3>1. ~f => Terminated(cur.st[c])
      BY <1>2, <2>1 DEF OpenLogs, TypeOK, PodStatus, CStates, Terminated
    <3> QED BY <1>0, <3>1 DEF StatusInv, Final
  <2>3. streamer[c] = "none" /\ sent[c] = 0 /\ lines[c] \in Nat
    BY <1>2 DEF OpenLogs, activeLogStreams, TypeOK
  <2>4. /\ streamer'[c] = "scanning" /\ follow'[c] = f /\ snap'[c] = lines'[c]
        /\ pos'[c] = 0 /\ sent'[c] = 0 /\ lines' = lines
    BY <2>1, <2>3 DEF StartStreamer, TypeOK
  <2>5. ASSUME NEW d \in Containers, d # c
        PROVE  /\ streamer'[d] = streamer[d] /\ follow'[d] = follow[d]
               /\ snap'[d] = snap[d] /\ pos'[d] = pos[d] /\ sent'[d] = sent[d]
               /\ lines'[d] = lines[d] /\ (d \in complained' <=> d \in complained)
    BY <2>1, <2>5 DEF StartStreamer, TypeOK
  <2> QED BY <1>0, <2>2, <2>3, <2>4, <2>5
<1>3. ASSUME NEW c \in Containers, GetLogsFails(c) PROVE StreamInv'
  BY <1>0, <1>3 DEF GetLogsFails
<1>4. ASSUME NEW c \in Containers, Log(c) PROVE StreamInv'
  BY <1>0, <1>4 DEF Log, TypeOK
<1>5. ASSUME NEW c \in Containers, EndOfLog(c) PROVE StreamInv'
  BY <1>0, <1>5 DEF EndOfLog, TypeOK, Frozen
<1>6. ASSUME NEW c \in Containers, ScanFails(c) PROVE StreamInv'
  BY <1>0, <1>6 DEF ScanFails, TypeOK
<1>7. ASSUME NEW c \in Containers, WriteLine(c) PROVE StreamInv'
  <2>1. ~Frozen(c)
    BY <1>7 DEF WriteLine, Frozen, Terminated
  <2> QED BY <1>0, <1>7, <2>1 DEF WriteLine, NodeUnchanged, streamVars, TypeOK
<1> QED BY <1>1, <1>2, <1>3, <1>4, <1>5, <1>6, <1>7, StreamFrame DEF StreamLogs

\* A goroutine once started is not forgotten, one that is done stays done, and
\* outside the handler's scan a complaint is kept.
LEMMA StreamersKept ==
  ASSUME TypeOK, [Next]_vars, ~(\E c \in Containers : OpenLogs(c))
  PROVE  /\ complained \subseteq complained'
         /\ \A c \in Containers : /\ streamer[c] # "none" => streamer'[c] # "none"
                                  /\ streamer[c] # "scanning" => streamer'[c] # "scanning"
<1>1. ASSUME NEW c \in Containers, \/ GetLogsFails(c) \/ StreamLogs(c)
                                   \/ ScanFails(c) \/ WriteLine(c)
      PROVE  /\ complained \subseteq complained'
             /\ \/ streamer' = streamer
                \/ streamer[c] = "scanning" /\ streamer' = [streamer EXCEPT ![c] = "done"]
  BY <1>1 DEF GetLogsFails, StreamLogs, Log, EndOfLog, ScanFails, WriteLine,
              NodeUnchanged, streamVars
<1> QED BY <1>1, StreamFrame DEF TypeOK

LEMMA ScanStep == TypeOK /\ ResultInv /\ ScanInv /\ [Next]_vars => ScanInv'
<1> SUFFICES ASSUME TypeOK, ResultInv, ScanInv, [Next]_vars PROVE ScanInv'
  OBVIOUS
<1> USE DEF ScanInv, Handled, PodResults
<1>1. ASSUME NEW c \in Containers, OpenLogs(c) PROVE ScanInv'
  <2>1. result' = "none" /\ pc' = "scan" /\ cur' = cur /\ idx = c /\ idx' = c + 1
    BY <1>1 DEF OpenLogs, AtContainer, StartStreamer, ResultInv
  <2>2. Handled(c)' /\ \A d \in Containers : d # c /\ Handled(d) => Handled(d)'
    BY <1>1, <2>1 DEF OpenLogs, StartStreamer, TypeOK
  <2>3. \A d \in Containers : d < c + 1 => d < c \/ d = c
    BY DEF Containers
  <2> QED BY <1>1, <2>1, <2>2, <2>3 DEF OpenLogs, AtContainer
<1>2. ASSUME ~(\E c \in Containers : OpenLogs(c)) PROVE ScanInv'
  <2>0. /\ complained \subseteq complained'
        /\ \A c \in Containers : /\ streamer[c] # "none" => streamer'[c] # "none"
                                 /\ streamer[c] # "scanning" => streamer'[c] # "scanning"
    BY <1>2, StreamersKept
  <2>1. CASE WatchPod \/ WatchFails \/ CreatePod \/ AddReference
    BY <2>1 DEF WatchPod, WatchFails, CreatePod, AddReference, ResultInv
  <2>2. CASE CreateFails \/ AddReferenceFails
    BY <2>2 DEF CreateFails, AddReferenceFails, ReturnEarly
  <2>3. CASE ContextDone \/ WatchClosed \/ ErrorEvent
    BY <2>3 DEF ContextDone, WatchClosed, ErrorEvent, LeaveLoop
  <2>4. CASE WaitLogs
    BY <2>0, <2>4 DEF WaitLogs, LeaveLoop
  <2>5. CASE IgnoredEvent
    BY <2>0, <2>5 DEF IgnoredEvent, handlerVars
  <2>6. CASE PodEvent
    BY <2>6 DEF PodEvent, ResultInv, Containers
  <2>7. CASE ScanDone
    <3>1. \A c \in Containers : Handled(c)
      BY <2>7, ExecutePodAssumption DEF ScanDone, Containers
    <3> QED BY <2>0, <2>7, <3>1 DEF ScanDone, ResultInv
  <2>8. ASSUME NEW c \in Containers, SkipContainer(c) \/ GetLogsFails(c) PROVE ScanInv'
    <3>1. /\ result' = "none" /\ pc = "scan" /\ pc' = "scan" /\ cur' = cur
          /\ idx = c /\ idx' = c + 1
      BY <2>8 DEF SkipContainer, GetLogsFails, AtContainer, ResultInv
    <3>2. Handled(c)'
      BY <2>0, <2>8, <3>1 DEF SkipContainer, GetLogsFails, activeLogStreams
    <3>3. \A d \in Containers : d < c + 1 => d < c \/ d = c
      BY DEF Containers
    <3> QED BY <2>0, <3>1, <3>2, <3>3
  <2>9. CASE CloseStreams \/ DeletePod
    BY <2>0, <2>9 DEF CloseStreams, DeletePod
  <2>10. CASE UNCHANGED handlerVars
    BY <2>0, <2>10 DEF handlerVars
  <2> QED BY <1>2, <2>1, <2>2, <2>3, <2>4, <2>5, <2>6, <2>7, <2>8, <2>9, <2>10,
             OthersKeepHandler DEF Handler, Scan
<1> QED BY <1>1, <1>2

\* Outside the handler a pod is never created, only deleted.
LEMMA OthersKeepPod ==
  [Next]_vars => \/ Handler \/ ContextDone
                 \/ exists' = exists
                 \/ exists = "live" /\ exists' = "deleting"
                 \/ exists = "deleting" /\ exists' = "gone"
<1> USE DEF podVars
<1>1. Kubelet => exists' = exists
  BY DEF Kubelet, StartContainer, WriteLine, ExitContainer, Evict, NodeUnchanged
<1>2. ApiServer => \/ exists' = exists
                   \/ exists = "live" /\ exists' = "deleting"
                   \/ exists = "deleting" /\ exists' = "gone"
  BY DEF ApiServer, ReportStatus, ResendStatus, NodeLost, RequestDelete, RemovePod,
         EndWatch, FailWatch
<1>3. ASSUME NEW c \in Containers, StreamLogs(c) \/ ScanFails(c) PROVE exists' = exists
  BY <1>3 DEF StreamLogs, Log, EndOfLog, ScanFails
<1>4. Cancel \/ Finished \/ UNCHANGED vars => exists' = exists
  BY DEF Cancel, Finished, vars
<1> QED BY <1>1, <1>2, <1>3, <1>4 DEF Next

LEMMA DeleteStep == TypeOK /\ DeleteInv /\ [Next]_vars => DeleteInv'
<1> SUFFICES ASSUME TypeOK, DeleteInv, [Next]_vars PROVE DeleteInv'
  OBVIOUS
<1> USE DEF DeleteInv, BuildPodReclaimed, TypeOK, Stages, handlerVars, podVars
<1>1. CASE WatchPod \/ WatchFails \/ CreatePod \/ AddReference
  BY <1>1 DEF WatchPod, WatchFails, CreatePod, AddReference
<1>2. CASE CreateFails \/ AddReferenceFails
  BY <1>2 DEF CreateFails, AddReferenceFails, ReturnEarly
<1>3. CASE ContextDone \/ WatchClosed \/ ErrorEvent \/ WaitLogs
  BY <1>3 DEF ContextDone, WatchClosed, ErrorEvent, WaitLogs, LeaveLoop
<1>4. CASE IgnoredEvent \/ PodEvent \/ ScanDone
  BY <1>4 DEF IgnoredEvent, PodEvent, ScanDone
<1>5. ASSUME NEW c \in Containers, Scan(c) PROVE DeleteInv'
  BY <1>5 DEF Scan, SkipContainer, OpenLogs, GetLogsFails, StartStreamer, AtContainer
<1>6. CASE CloseStreams
  BY <1>6 DEF CloseStreams
<1>7. CASE DeletePod
  BY <1>7 DEF DeletePod, AfterDelete
<1>8. CASE /\ UNCHANGED handlerVars
           /\ \/ exists' = exists
              \/ exists = "live" /\ exists' = "deleting"
              \/ exists = "deleting" /\ exists' = "gone"
  BY <1>8
<1> QED BY <1>1, <1>2, <1>3, <1>4, <1>5, <1>6, <1>7, <1>8, OthersKeepHandler,
           OthersKeepPod DEF Handler

-----------------------------------------------------------------------------
(***************************************************************************)
(* The theorems.                                                           *)
(***************************************************************************)
LEMMA InvInit == Init => IInv
<1> SUFFICES ASSUME Init PROVE IInv
  OBVIOUS
<1>1. StatusInv
  BY DEF Init, StatusInv, Final, Ended, Terminated, NewPod
<1>2. ResultInv /\ DeleteInv
  BY DEF Init, ResultInv, DeleteInv, BuildPodReclaimed
<1>3. StreamInv
  BY DEF Init, StreamInv, InStream
<1>4. ScanInv
  BY DEF Init, ScanInv, PodResults
<1> QED BY <1>1, <1>2, <1>3, <1>4, TypeInit DEF IInv

LEMMA InvStep == IInv /\ [Next]_vars => IInv'
BY TypeStep, StatusStep, ResultStep, StreamStep, ScanStep, DeleteStep DEF IInv

LEMMA InvImplies ==
  IInv => /\ ResultMatchesPod /\ NoSilentLogLoss /\ NoDuplicateLines
          /\ NoLateSender /\ BuildPodReclaimed
<1> SUFFICES ASSUME IInv PROVE /\ ResultMatchesPod /\ NoSilentLogLoss
                               /\ NoDuplicateLines /\ NoLateSender /\ BuildPodReclaimed
  OBVIOUS
<1> USE DEF IInv
<1>1. ResultMatchesPod
  BY DEF ResultMatchesPod, ResultInv, StatusInv, Final, Ended
<1>2. NoLateSender
  BY DEF NoLateSender, ReturnedForPod, ScanInv
<1>3. NoSilentLogLoss
  <2>1. SUFFICES ASSUME ReturnedForPod, NEW c \in Containers, cur.st[c] # "waiting"
                 PROVE  sent[c] = lines[c] \/ c \in complained
    BY DEF NoSilentLogLoss
  <2>2. streamer[c] = "done" \/ c \in complained
    BY <2>1 DEF ReturnedForPod, ScanInv, Handled, TypeOK
  <2> QED BY <2>2 DEF StreamInv
<1>4. NoDuplicateLines
  BY DEF NoDuplicateLines, StreamInv, InStream, TypeOK
<1>5. BuildPodReclaimed
  BY DEF DeleteInv
<1> QED BY <1>1, <1>2, <1>3, <1>4, <1>5

\* The inductive invariant holds in every state of an executePod call.
THEOREM Invariance == Spec => []IInv
BY InvInit, InvStep, PTL DEF Spec

\* The answer of executePod is the fate of the pod (server.go 293-299).
THEOREM ResultCorrect == Spec => []ResultMatchesPod
BY Invariance, InvImplies, PTL

\* When executePod returns for a pod that ended, every line of every container
\* it saw started was passed on, or a failure was logged (server.go 263-294).
THEOREM LogsComplete == Spec => []NoSilentLogLoss
BY Invariance, InvImplies, PTL

\* No log line is passed on twice (server.go 267).
THEOREM LogsOnce == Spec => []NoDuplicateLines
BY Invariance, InvImplies, PTL

\* No log goroutine outlives a call that returned for a pod that ended
\* (server.go 294).
THEOREM LogsWaitedFor == Spec => []NoLateSender
BY Invariance, InvImplies, PTL

\* A build pod is deleted on every path out of executePod but the listed ones
\* (server.go 222-239).
THEOREM BuildCleansUp == Spec => []BuildPodReclaimed
BY Invariance, InvImplies, PTL

-----------------------------------------------------------------------------
(***************************************************************************)
(* ExecutePod implements PodExecution.                                     *)
(***************************************************************************)
\* The pod's phase in the API server changes once, when it ends.
LEMMA PhaseStep ==
  ASSUME IInv, [Next]_vars
  PROVE  /\ Ended(api) => api' = api
         /\ api'.phase # api.phase =>
              /\ api'.phase \in {"Succeeded", "Failed"} /\ api.phase = "Active"
              /\ exists \in {"live", "deleting"}
              /\ UNCHANGED <<stage, pc, result, exists>>
<1>1. Ended(api) => api' = api
  BY StatusKept DEF IInv
<1>2. api' \in PodStatus /\ api \in PodStatus
  BY TypeStep DEF IInv, TypeOK
<1>3. api' # api => ReportStatus \/ NodeLost
  BY StatusFrame DEF Kubelet, StartContainer, WriteLine, ExitContainer, Evict, NodeUnchanged
<1>4. ReportStatus \/ NodeLost => /\ exists \in {"live", "deleting"}
                                  /\ UNCHANGED <<stage, pc, result, exists>>
  BY DEF ReportStatus, NodeLost, Stored, ApiUnchanged, handlerVars
<1> QED BY <1>1, <1>2, <1>3, <1>4 DEF Ended, PodStatus, Phases

\* An initial state maps to an initial state.
LEMMA PromiseInit == Init => Promise!Init
BY DEF Init, Promise!Init, NewPod, Stages

\* Every step maps to a step of PodExecution or to a stutter.
LEMMA PromiseStep == IInv /\ [Next]_vars => [Promise!Next]_(Promise!vars)
<1> SUFFICES ASSUME IInv, [Next]_vars PROVE Promise!Next \/ UNCHANGED Promise!vars
  OBVIOUS
<1> USE DEF Promise!vars, handlerVars, podVars
<1>1. CASE api'.phase # api.phase
  BY <1>1, PhaseStep DEF Promise!Next, Promise!End
<1>2. CASE api'.phase = api.phase
  <2>1. CASE CreatePod
    <3>1. /\ exists = "none" /\ exists' = "live" /\ pc # "returned" /\ pc' # "returned"
          /\ stage' = stage
      BY <2>1 DEF CreatePod, IInv, DeleteInv
    <3> QED BY <1>2, <3>1 DEF Promise!Next, Promise!Create
  <2>2. CASE WatchFails \/ CreateFails \/ AddReferenceFails
    <3>1. PICK e \in {"errWatch", "errCreate", "errReference"} :
            /\ pc # "returned" /\ pc' = "returned" /\ result' = e /\ stage' = stage
            /\ \/ exists' = exists
               \/ e = "errCreate" /\ exists = "none" /\ exists' = "live"
      BY <2>2 DEF WatchFails, CreateFails, AddReferenceFails, ReturnEarly, IInv, DeleteInv
    <3>2. Promise!Return(e)
      BY <1>2, <3>1 DEF Promise!Return, Promise!Backed, Promise!Errors
    <3>3. e \in Promise!Errors
      BY DEF Promise!Errors
    <3> QED BY <3>2, <3>3 DEF Promise!Next
  <2>3. CASE CloseStreams \/ DeletePod
    <3>1. CASE pc' = "returned"
      <4>1. /\ pc # "returned" /\ result' = result /\ stage' = stage
            /\ exists' = exists \/ (stage = "BUILD" /\ exists = "live" /\ exists' = "deleting")
        BY <2>3, <3>1 DEF CloseStreams, DeletePod, AfterDelete, IInv, DeleteInv
      <4>2. Promise!Backed(result)
        BY <2>3 DEF CloseStreams, DeletePod, Promise!Backed, Promise!Errors, IInv,
                    ResultInv, StatusInv, Final, Ended
      <4>3. Promise!Return(result)
        BY <1>2, <3>1, <4>1, <4>2 DEF Promise!Return
      <4> QED BY <4>2, <4>3 DEF Promise!Next, Promise!Backed
    <3>2. CASE pc' # "returned"
      BY <1>2, <2>3, <3>2 DEF CloseStreams, DeletePod
    <3> QED BY <3>1, <3>2
  <2>4. CASE WatchPod \/ AddReference \/ IgnoredEvent \/ PodEvent \/ ScanDone
    BY <1>2, <2>4 DEF WatchPod, AddReference, IgnoredEvent, PodEvent, ScanDone
  <2>5. CASE ContextDone \/ WatchClosed \/ ErrorEvent \/ WaitLogs
    BY <1>2, <2>5 DEF ContextDone, WatchClosed, ErrorEvent, WaitLogs, LeaveLoop
  <2>6. ASSUME NEW c \in Containers, Scan(c) PROVE UNCHANGED Promise!vars
    BY <1>2, <2>6 DEF Scan, SkipContainer, OpenLogs, GetLogsFails, StartStreamer
  <2>7. CASE UNCHANGED handlerVars
    <3>1. CASE exists = "live" /\ exists' = "deleting"
      BY <1>2, <2>7, <3>1 DEF Promise!Next, Promise!Delete
    <3>2. CASE exists = "deleting" /\ exists' = "gone"
      BY <1>2, <2>7, <3>2 DEF Promise!Next, Promise!Remove
    <3>3. CASE exists' = exists
      BY <1>2, <2>7, <3>3
    <3>4. CASE Handler \/ ContextDone
      BY <3>4, <2>1, <2>2, <2>3, <2>4, <2>5, <2>6 DEF Handler
    <3> QED BY <3>1, <3>2, <3>3, <3>4, OthersKeepPod
  <2> QED BY <2>1, <2>2, <2>3, <2>4, <2>5, <2>6, <2>7, OthersKeepHandler DEF Handler
<1> QED BY <1>1, <1>2

\* executePod implements what PodExecution promises to its callers
\* (server.go 213-302).
THEOREM Refinement == Spec => KeepsPromise
BY PromiseInit, PromiseStep, Invariance, PTL DEF Spec, KeepsPromise, Promise!Spec
=============================================================================
