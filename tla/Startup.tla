------------------------------ MODULE Startup -------------------------------
(***************************************************************************)
(* main of the sidecar (cmd/ibp-builder/main.go, pkg/tls): credentials and *)
(* a certificate are made anew at every start, given to the pods that this *)
(* start creates and used by the file server, which reads the certificate  *)
(* and the key back from files that outlive the process.  The process may  *)
(* exit or crash at any step and is started again by Kubernetes.           *)
(*                                                                         *)
(* Credentials, certificates and keys are named by the start that made     *)
(* them; 0 is none, or a file that was not completely written.             *)
(***************************************************************************)
EXTENDS Naturals

CONSTANTS
  Pods,       \* pods the sidecar creates
  MaxStarts   \* bound: how often the process is started

ASSUME StartupAssumption == MaxStarts \in Nat \ {0}

VARIABLES
  at,        \* the next step of main, or "down"
  start,     \* number of this start
  exit,      \* exit status of the last process that ended by itself
  baseURL,   \* is the flag fileServerBaseURL given?
  certFile, keyFile,  \* cert.pem and key.pem in the shared directory
  auth,      \* credentials of the file server
  cert, key, \* what the file server uses
  certHost,  \* the host the certificate is for
  aged,      \* has the certificate expired?
  pods       \* what a pod was given

fileVars   == <<certFile, keyFile>>
serverVars == <<auth, cert, key, certHost, aged>>
vars == <<at, start, exit, baseURL, fileVars, serverVars, pods>>

-----------------------------------------------------------------------------
\* The steps of main in their order, and the status with which each may fail.
Steps == {"kube", "certgen", "certOpen", "certWrite", "keyOpen", "keyWrite", "env",
          "grpc", "listen", "load", "serving"}
Status(s) ==
  CASE s = "kube" -> {10, 11}
    [] s \in {"certgen", "certOpen", "certWrite", "keyOpen", "keyWrite"} -> {21}
    [] s = "env" -> {1}
    [] s = "grpc" -> {12}
    [] s = "listen" -> {13}
    [] OTHER -> {}

\* The hosts the certificate may be for and the pods may be told to use.
Hosts == {"none", "base", "listen"}

\* fsBaseURL: the flag, or else the address the server listens at.
fsBaseURL == IF baseURL THEN "base" ELSE "listen"

NoPod == [start |-> 0, cert |-> 0, host |-> "none"]
Pod   == [start : 0 .. MaxStarts, cert : 0 .. MaxStarts, host : Hosts]

CallsServed == at \in {"listen", "load", "serving"}

Init ==
  /\ at = "kube" /\ start = 1 /\ exit = 0 /\ baseURL \in BOOLEAN
  /\ certFile = 0 /\ keyFile = 0
  /\ auth = 1 /\ cert = 0 /\ key = 0 /\ certHost = "none" /\ aged = FALSE
  /\ pods = [p \in Pods |-> NoPod]

-----------------------------------------------------------------------------
\* The client configuration; the cleanup of pods that follows never fails main.
ConnectKubernetes ==
  /\ at = "kube" /\ at' = "certgen"
  /\ UNCHANGED <<start, exit, baseURL, fileVars, serverVars, pods>>

\* PrivateKey and SelfSignedCert, for the host in the flag.
GenerateCert ==
  /\ at = "certgen" /\ at' = "certOpen"
  /\ certHost' = IF baseURL THEN "base" ELSE "none"
  /\ UNCHANGED <<start, exit, baseURL, fileVars, auth, cert, key, aged, pods>>

\* Fault: a certificate from an earlier start is left in place.
WriteCertOnce ==
  /\ \/ at = "certOpen" /\ at' = "certWrite" /\ UNCHANGED certFile
     \/ at = "certWrite" /\ at' = "keyOpen"
          /\ certFile' = IF certFile = 0 THEN start ELSE certFile
  /\ UNCHANGED <<start, exit, baseURL, keyFile, serverVars, pods>>

\* os.WriteFile truncates the file and then writes it.
WriteCert ==
  /\ \/ at = "certOpen" /\ at' = "certWrite" /\ certFile' = 0
     \/ at = "certWrite" /\ at' = "keyOpen" /\ certFile' = start
  /\ UNCHANGED <<start, exit, baseURL, keyFile, serverVars, pods>>

WriteKey ==
  /\ \/ at = "keyOpen" /\ at' = "keyWrite" /\ keyFile' = 0
     \/ at = "keyWrite" /\ at' = "env" /\ keyFile' = start
  /\ UNCHANGED <<start, exit, baseURL, certFile, serverVars, pods>>

\* The images in the environment; one that is missing ends the process.
ReadEnvironment ==
  /\ at = "env" /\ at' = "grpc"
  /\ UNCHANGED <<start, exit, baseURL, fileVars, serverVars, pods>>

\* From here on calls are served.
ListenSidecar ==
  /\ at = "grpc" /\ at' = "listen"
  /\ UNCHANGED <<start, exit, baseURL, fileVars, serverVars, pods>>

ListenFiles ==
  /\ at = "listen" /\ at' = "load"
  /\ UNCHANGED <<start, exit, baseURL, fileVars, serverVars, pods>>

\* ServeTLS reads the pair from the files.
LoadPair ==
  /\ at = "load" /\ at' = "serving"
  /\ cert' = certFile /\ key' = keyFile
  /\ UNCHANGED <<start, exit, baseURL, fileVars, auth, certHost, aged, pods>>

\* buildPodDefinition and runPodDefinition: credentials, certificate and URL.
CreatePod(p) ==
  /\ CallsServed /\ pods[p] = NoPod
  /\ pods' = [pods EXCEPT ![p] = [start |-> auth, cert |-> start, host |-> fsBaseURL]]
  /\ UNCHANGED <<at, start, exit, baseURL, fileVars, serverVars>>

-----------------------------------------------------------------------------
\* os.Exit where a step fails.
Exits ==
  /\ at \in Steps /\ Status(at) # {}
  /\ exit' \in Status(at) /\ at' = "down"
  /\ UNCHANGED <<start, baseURL, fileVars, serverVars, pods>>

Crash ==
  /\ at \in Steps /\ at' = "down"
  /\ UNCHANGED <<start, exit, baseURL, fileVars, serverVars, pods>>

\* Fault: the credentials are the same at every start.
RestartSameAuth ==
  /\ at = "down" /\ start < MaxStarts
  /\ at' = "kube" /\ start' = start + 1
  /\ cert' = 0 /\ key' = 0 /\ certHost' = "none" /\ aged' = FALSE
  /\ UNCHANGED <<exit, baseURL, fileVars, auth, pods>>

\* A new process: GenerateRandomString for both credentials.
Restart ==
  /\ at = "down" /\ start < MaxStarts
  /\ at' = "kube" /\ start' = start + 1 /\ auth' = start + 1
  /\ cert' = 0 /\ key' = 0 /\ certHost' = "none" /\ aged' = FALSE
  /\ UNCHANGED <<exit, baseURL, fileVars, pods>>

\* The certificate is valid for a year (external: the clock).
Age ==
  /\ at = "serving" /\ aged' = TRUE
  /\ UNCHANGED <<at, start, exit, baseURL, fileVars, auth, cert, key, certHost, pods>>

Finished == at = "down" /\ start = MaxStarts /\ UNCHANGED vars

Next ==
  \/ ConnectKubernetes \/ GenerateCert \/ WriteCert \/ WriteKey \/ ReadEnvironment
  \/ ListenSidecar \/ ListenFiles \/ LoadPair \/ \E p \in Pods : CreatePod(p)
  \/ Exits \/ Crash \/ Restart \/ Age \/ Finished

Spec == Init /\ [][Next]_vars

-----------------------------------------------------------------------------
\* Type invariant of main's state, its files and the pods.
TypeOK ==
  /\ at \in Steps \cup {"down"} /\ start \in 1 .. MaxStarts
  /\ exit \in {0, 1, 10, 11, 12, 13, 21} /\ baseURL \in BOOLEAN
  /\ certFile \in 0 .. MaxStarts /\ keyFile \in 0 .. MaxStarts
  /\ auth \in 0 .. MaxStarts /\ cert \in 0 .. MaxStarts /\ key \in 0 .. MaxStarts
  /\ certHost \in Hosts /\ aged \in BOOLEAN /\ pods \in [Pods -> Pod]

\* curl accepts the file server, and the file server the pod.
Trusts(p) == cert = pods[p].cert /\ key = cert /\ certHost = pods[p].host /\ ~aged
Known(p)  == auth = pods[p].start

\* Whatever crashes left in cert.pem and key.pem, a file server that serves uses
\* a pair that belongs together, and the pods this start created trust it and
\* are known to it, for a year, if the flag fileServerBaseURL is given (main.go
\* 108-109, 136, 142-159, 187, 287-307).
OwnPodsServed ==
  at = "serving" =>
    /\ cert = key /\ cert = start
    /\ \A p \in Pods : pods[p].start = start /\ baseURL /\ ~aged => Trusts(p) /\ Known(p)

\* Pods of earlier starts are cut off: they do not trust the new certificate and
\* do not have the new credentials, so they can no longer fetch or store anything
\* (main.go 108-109, 136).
OldPodsCutOff ==
  at = "serving" =>
    \A p \in Pods : 0 < pods[p].start /\ pods[p].start < start => ~Trusts(p) /\ ~Known(p)
=============================================================================
