-------------------------- MODULE SerializedStream --------------------------
(***************************************************************************)
(* serializedBuildStream and serializedRunStream (pkg/k8sbuilder/          *)
(* server.go): the log goroutines of a call and its handler share one gRPC *)
(* stream, whose Send must not be entered twice at a time; the wrapper     *)
(* holds a mutex around it.  A Send puts a message on the wire in two      *)
(* parts, and fails for good once the stream is broken.                    *)
(***************************************************************************)
EXTENDS Naturals, Sequences

CONSTANTS
  Loggers,   \* goroutines that call Log
  MaxLogs,   \* bound: calls of Log by a goroutine
  Nobody     \* the mutex is free

ASSUME StreamAssumption == MaxLogs \in Nat /\ Nobody \notin Loggers

VARIABLES
  pc,      \* where a goroutine is
  left,    \* calls of Log it has still to make
  mutex,   \* who holds the mutex
  broken,  \* is the stream broken?
  wire     \* the parts of messages sent

vars == <<pc, left, mutex, broken, wire>>

Part == [from : Loggers, part : {"head", "tail"}]

Init ==
  /\ pc = [g \in Loggers |-> "idle"] /\ left = [g \in Loggers |-> MaxLogs]
  /\ mutex = Nobody /\ broken = FALSE /\ wire = << >>

Goto(g, step) == pc' = [pc EXCEPT ![g] = step]

Log(g) ==
  /\ pc[g] = "idle" /\ left[g] > 0
  /\ Goto(g, "lock")
  /\ UNCHANGED <<left, mutex, broken, wire>>

\* Fault: Send does not wait for the mutex.
LockIgnored(g) ==
  /\ pc[g] = "lock"
  /\ mutex' = g /\ Goto(g, "head")
  /\ UNCHANGED <<left, broken, wire>>

Lock(g) ==
  /\ pc[g] = "lock" /\ mutex = Nobody
  /\ mutex' = g /\ Goto(g, "head")
  /\ UNCHANGED <<left, broken, wire>>

\* Send of the embedded gRPC stream (external).
SendPart(g, p, next) ==
  /\ pc[g] = p /\ ~broken
  /\ wire' = Append(wire, [from |-> g, part |-> p])
  /\ Goto(g, next)
  /\ UNCHANGED <<left, mutex, broken>>

\* Fault: a Send that fails is tried again, with the mutex held.
SendFailsRetried(g) ==
  /\ pc[g] \in {"head", "tail"}
  /\ broken' = TRUE
  /\ UNCHANGED <<pc, left, mutex, wire>>

\* Log drops the error.
SendFails(g) ==
  /\ pc[g] \in {"head", "tail"}
  /\ broken' = TRUE /\ Goto(g, "unlock")
  /\ UNCHANGED <<left, mutex, wire>>

\* The deferred Unlock; Log returns.
Unlock(g) ==
  /\ pc[g] = "unlock"
  /\ mutex' = Nobody /\ Goto(g, "idle")
  /\ left' = [left EXCEPT ![g] = @ - 1]
  /\ UNCHANGED <<broken, wire>>

Step(g) ==
  \/ Log(g) \/ Lock(g) \/ Unlock(g) \/ SendFails(g)
  \/ SendPart(g, "head", "tail") \/ SendPart(g, "tail", "unlock")

Finished == (\A g \in Loggers : pc[g] = "idle" /\ left[g] = 0) /\ UNCHANGED vars

Next == Finished \/ \E g \in Loggers : Step(g)

Spec == Init /\ [][Next]_vars

\* Goroutines run, a blocked Send fails at last with the RPC's context, and
\* sync.Mutex does not starve who waits for it.
FairSpec == Spec /\ \A g \in Loggers : WF_vars(Step(g)) /\ SF_vars(Lock(g))

-----------------------------------------------------------------------------
\* Type invariant of the goroutines and the wire.
TypeOK ==
  /\ pc \in [Loggers -> {"idle", "lock", "head", "tail", "unlock"}]
  /\ left \in [Loggers -> 0 .. MaxLogs] /\ mutex \in Loggers \cup {Nobody}
  /\ broken \in BOOLEAN /\ wire \in Seq(Part)

\* Messages reach the wire whole, whatever the goroutines do at the same time:
\* heads and tails alternate, and a tail follows the head of its own message
\* (server.go 122-126, 190-194).
MessagesWhole ==
  \A i \in 1 .. Len(wire) :
    /\ i % 2 = 1 => wire[i].part = "head"
    /\ i % 2 = 0 => wire[i].part = "tail" /\ wire[i].from = wire[i - 1].from

\* Log returns to every goroutine, also when the stream breaks in the middle of
\* another one's message (server.go 124, 128-132).
LogReturns == \A g \in Loggers : pc[g] = "lock" ~> pc[g] = "idle"
=============================================================================
