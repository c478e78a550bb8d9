----------------------- MODULE SerializedStreamProofs -----------------------
(***************************************************************************)
(* Proofs about SerializedStream, for any number of goroutines and lines.  *)
(* That the messages on the wire are whole is not inductive: it rests on   *)
(* the mutex (who sends holds it) and on the parity of the wire, which     *)
(* says how far the holder's message has come.                             *)
(***************************************************************************)
EXTENDS SerializedStream, TLAPS

\* A goroutine in Log has a line left.
CountInv == \A g \in Loggers : pc[g] # "idle" => left[g] > 0

\* Whoever is between Lock and Unlock holds the mutex.
MutexInv == \A g \in Loggers : pc[g] \in {"head", "tail", "unlock"} => mutex = g

Even == Len(wire) % 2 = 0

\* On a stream that is not broken, the wire ends in the middle of a message
\* exactly while the holder of the mutex has still to send the tail of it.
WireInv ==
  ~broken =>
    /\ (\A g \in Loggers : pc[g] # "tail") => Even
    /\ \A g \in Loggers : pc[g] = "tail" => ~Even /\ wire[Len(wire)].from = g

IInv == TypeOK /\ CountInv /\ MutexInv /\ WireInv /\ MessagesWhole

-----------------------------------------------------------------------------
LEMMA NoMessages == \A S : << >> \in Seq(S) /\ Len(<< >>) = 0
OBVIOUS

LEMMA InvInit == Init => IInv
<1> SUFFICES ASSUME Init PROVE IInv
  OBVIOUS
<1>0. wire \in Seq(Part) /\ Len(wire) = 0
  BY NoMessages DEF Init
<1>1. TypeOK
  <2>1. left \in [Loggers -> 0 .. MaxLogs]
    BY StreamAssumption DEF Init
  <2>2. pc \in [Loggers -> {"idle", "lock", "head", "tail", "unlock"}]
    BY DEF Init
  <2> QED BY <1>0, <2>1, <2>2 DEF Init, TypeOK
<1>2. CountInv /\ MutexInv
  BY DEF Init, CountInv, MutexInv
<1>3. WireInv
  BY <1>0 DEF Init, WireInv, Even
<1>4. MessagesWhole
  BY <1>0 DEF MessagesWhole
<1> QED BY <1>1, <1>2, <1>3, <1>4 DEF IInv

\* The steps of the goroutines but for sending, one by one.
LEMMA QuietStep ==
  ASSUME IInv, NEW g \in Loggers, Log(g) \/ Lock(g) \/ Unlock(g) \/ SendFails(g)
  PROVE  IInv'
<1> USE DEF IInv
<1>1. wire' = wire
  BY DEF Log, Lock, Unlock, SendFails
<1>2. MessagesWhole'
  BY <1>1 DEF MessagesWhole
<1>3. CASE Log(g)
  <2>1. TypeOK' /\ CountInv' /\ MutexInv'
    BY <1>3 DEF Log, Goto, TypeOK, CountInv, MutexInv
  <2>2. WireInv'
    BY <1>1, <1>3 DEF Log, Goto, TypeOK, WireInv, Even
  <2> QED BY <1>2, <2>1, <2>2
<1>4. CASE Lock(g)
  <2>1. TypeOK' /\ CountInv'
    BY <1>4 DEF Lock, Goto, TypeOK, CountInv
  <2>2. MutexInv'
    BY <1>4, StreamAssumption DEF Lock, Goto, TypeOK, MutexInv
  <2>3. WireInv'
    BY <1>1, <1>4 DEF Lock, Goto, TypeOK, WireInv, Even
  <2> QED BY <1>2, <2>1, <2>2, <2>3
<1>5. CASE Unlock(g)
  <2>0. mutex = g /\ left[g] > 0 /\ left[g] - 1 \in 0 .. MaxLogs
    BY <1>5, StreamAssumption DEF Unlock, MutexInv, CountInv, TypeOK
  <2>1. TypeOK'
    BY <1>5, <2>0 DEF Unlock, Goto, TypeOK
  <2>2. CountInv' /\ MutexInv'
    BY <1>5, <2>0 DEF Unlock, Goto, TypeOK, CountInv, MutexInv
  <2>3. WireInv'
    BY <1>1, <1>5 DEF Unlock, Goto, TypeOK, WireInv, Even
  <2> QED BY <1>2, <2>1, <2>2, <2>3
<1>6. CASE SendFails(g)
  <2>1. TypeOK' /\ CountInv' /\ MutexInv'
    BY <1>6 DEF SendFails, Goto, TypeOK, CountInv, MutexInv
  <2>2. WireInv'
    BY <1>6 DEF SendFails, WireInv
  <2> QED BY <1>2, <2>1, <2>2
<1> QED BY <1>3, <1>4, <1>5, <1>6

\* What a part does to the wire.
LEMMA AppendFacts ==
  ASSUME NEW w \in Seq(Part), NEW e \in Part
  PROVE  /\ Append(w, e) \in Seq(Part) /\ Len(Append(w, e)) = Len(w) + 1
         /\ \A i \in 1 .. Len(w) : Append(w, e)[i] = w[i]
         /\ Append(w, e)[Len(w) + 1] = e
OBVIOUS

LEMMA Parity == \A n \in Nat : (n % 2 = 0) <=> ((n + 1) % 2 = 1)
OBVIOUS

LEMMA Parities == \A n \in Nat : n % 2 = 0 \/ n % 2 = 1
OBVIOUS

\* The head goes on a wire of whole messages.
LEMMA HeadStep ==
  ASSUME IInv, NEW g \in Loggers, SendPart(g, "head", "tail")
  PROVE  IInv'
<1> USE DEF IInv
<1> DEFINE e == [from |-> g, part |-> "head"]
<1>1. pc[g] = "head" /\ ~broken /\ wire' = Append(wire, e) /\ pc' = [pc EXCEPT ![g] = "tail"]
      /\ UNCHANGED <<left, mutex, broken>>
  BY DEF SendPart, Goto
<1>2. e \in Part /\ wire \in Seq(Part) /\ Len(wire) \in Nat
  BY DEF Part, TypeOK
<1> HIDE DEF e
<1>3. /\ wire' \in Seq(Part) /\ Len(wire') = Len(wire) + 1 /\ wire'[Len(wire) + 1] = e
      /\ \A i \in 1 .. Len(wire) : wire'[i] = wire[i]
  BY <1>1, <1>2, AppendFacts
<1>4. mutex = g
  BY <1>1 DEF MutexInv
<1>5. \A h \in Loggers : pc[h] # "tail"
  BY <1>1, <1>4 DEF MutexInv
<1>6. Len(wire) % 2 = 0 /\ Len(wire') % 2 = 1
  BY <1>1, <1>2, <1>3, <1>5, Parity DEF WireInv, Even
<1>7. TypeOK' /\ CountInv' /\ MutexInv'
  BY <1>1, <1>3 DEF TypeOK, CountInv, MutexInv
<1>8. WireInv'
  BY <1>1, <1>3, <1>5, <1>6 DEF WireInv, Even, TypeOK, e
<1>9. MessagesWhole'
  <2> SUFFICES ASSUME NEW i \in 1 .. Len(wire')
               PROVE  /\ i % 2 = 1 => wire'[i].part = "head"
                      /\ i % 2 = 0 => wire'[i].part = "tail" /\ wire'[i].from = wire'[i - 1].from
    BY DEF MessagesWhole
  <2>1. CASE i = Len(wire) + 1
    BY <1>3, <1>6, <2>1 DEF e
  <2>2. CASE i \in 1 .. Len(wire)
    <3>1. i % 2 = 0 => i - 1 \in 1 .. Len(wire)
      BY <1>2, <2>2
    <3> QED BY <1>3, <2>2, <3>1 DEF MessagesWhole
  <2> QED BY <1>2, <1>3, <2>1, <2>2
<1> QED BY <1>7, <1>8, <1>9

\* The tail follows the head of its message.
LEMMA TailStep ==
  ASSUME IInv, NEW g \in Loggers, SendPart(g, "tail", "unlock")
  PROVE  IInv'
<1> USE DEF IInv
<1> DEFINE e == [from |-> g, part |-> "tail"]
<1>1. pc[g] = "tail" /\ ~broken /\ wire' = Append(wire, e) /\ pc' = [pc EXCEPT ![g] = "unlock"]
      /\ UNCHANGED <<left, mutex, broken>>
  BY DEF SendPart, Goto
<1>2. e \in Part /\ wire \in Seq(Part) /\ Len(wire) \in Nat
  BY DEF Part, TypeOK
<1> HIDE DEF e
<1>3. /\ wire' \in Seq(Part) /\ Len(wire') = Len(wire) + 1 /\ wire'[Len(wire) + 1] = e
      /\ \A i \in 1 .. Len(wire) : wire'[i] = wire[i]
  BY <1>1, <1>2, AppendFacts
<1>4. mutex = g
  BY <1>1 DEF MutexInv
<1>5. \A h \in Loggers : pc'[h] # "tail"
  BY <1>1, <1>4 DEF MutexInv, TypeOK
<1>6. Len(wire) % 2 = 1 /\ Len(wire') % 2 = 0 /\ wire[Len(wire)].from = g
  BY <1>1, <1>2, <1>3 DEF WireInv, Even
<1>7. TypeOK' /\ CountInv' /\ MutexInv'
  BY <1>1, <1>3 DEF TypeOK, CountInv, MutexInv
<1>8. WireInv'
  BY <1>5, <1>6 DEF WireInv, Even
<1>9. MessagesWhole'
  <2> SUFFICES ASSUME NEW i \in 1 .. Len(wire')
               PROVE  /\ i % 2 = 1 => wire'[i].part = "head"
                      /\ i % 2 = 0 => wire'[i].part = "tail" /\ wire'[i].from = wire'[i - 1].from
    BY DEF MessagesWhole
  <2>1. CASE i = Len(wire) + 1
    <3>1. i - 1 = Len(wire) /\ Len(wire) \in 1 .. Len(wire)
      BY <1>2, <1>6, <2>1
    <3> QED BY <1>3, <1>6, <2>1, <3>1 DEF e
  <2>2. CASE i \in 1 .. Len(wire)
    <3>1. i % 2 = 0 => i - 1 \in 1 .. Len(wire)
      BY <1>2, <2>2
    <3> QED BY <1>3, <2>2, <3>1 DEF MessagesWhole
  <2> QED BY <1>2, <1>3, <2>1, <2>2
<1> QED BY <1>7, <1>8, <1>9

LEMMA InvStep == IInv /\ [Next]_vars => IInv'
<1> SUFFICES ASSUME IInv, [Next]_vars PROVE IInv'
  OBVIOUS
<1>1. CASE UNCHANGED vars
  BY <1>1 DEF vars, IInv, TypeOK, CountInv, MutexInv, WireInv, Even, MessagesWhole
<1>2. CASE \E g \in Loggers : Step(g)
  BY <1>2, QuietStep, HeadStep, TailStep DEF Step
<1> QED BY <1>1, <1>2 DEF Next, Finished

-----------------------------------------------------------------------------
\* The inductive invariant holds in every state.
THEOREM Invariance == Spec => []IInv
BY InvInit, InvStep, PTL DEF Spec

\* Goroutines, mutex and wire have their types (server.go 117-132, 185-200).
THEOREM TypeCorrect == Spec => []TypeOK
<1>1. IInv => TypeOK
  BY DEF IInv
<1> QED BY <1>1, Invariance, PTL

\* Messages of any number of goroutines reach the wire whole (server.go 122-126,
\* 190-194).
THEOREM MessagesAreWhole == Spec => []MessagesWhole
<1>1. IInv => MessagesWhole
  BY DEF IInv
<1> QED BY <1>1, Invariance, PTL
=============================================================================
