---------------------------- MODULE Containers -----------------------------
(***************************************************************************)
(* What the build and the run pod of one chaincode do with its files: the  *)
(* containers and scripts of golang.go, java.go, node.go and executable.go *)
(* (pkg/k8sbuilder) and the environment and the secret of a run            *)
(* (server.go).  Build and run share nothing but the archive the build pod *)
(* uploads, so that where the build leaves the program and where the run   *)
(* looks for it are a matter of volume mounts and scripts that agree.      *)
(* The pods work between the client's calls and their ends (Builder).      *)
(*                                                                         *)
(* A file is a pair of a directory and a name, a volume mount one of a     *)
(* directory of the container and one of the volume.  A volume mounted at  *)
(* a directory hides what the image has there.                             *)
(***************************************************************************)
EXTENDS Builder

VARIABLES
  image,   \* scripts that the images have in /chaincode
  pod,     \* container that runs next, or how it ended
  vol,     \* files in the volume "chaincode" of the current pod
  tar,     \* files in the archive the build uploads
  built,   \* where and how Go built the program
  program  \* what was started

podVars == <<image, pod, vol, tar, built, program>>
vars == <<builderVars, podVars>>

-----------------------------------------------------------------------------
(***************************************************************************)
(* Files.                                                                  *)
(***************************************************************************)
\* The package: a Go module at the top of src or at the chaincode's path, with
\* or without vendored dependencies, a Node package, an executable.
PackageFiles == {<<"input/src", "go.mod">>, <<"input/src", "vendor">>,
                 <<"input/src/path", "go.mod">>, <<"input/src/path", "vendor">>,
                 <<"input/src", "package.json">>, <<"input", "chaincode">>}

None == <<"none", "none">>

\* Fault: the directories are mounted one by one.
BuildMountsEach ==
  {<<"/chaincode/input", "input">>, <<"/chaincode/output", "output">>,
   <<"/chaincode/input/src", "input/src">>, <<"/chaincode/input/src/path", "input/src/path">>}

\* The volume, and with it the directories it has.
BuildMounts ==
  {<<"/chaincode", "">>, <<"/chaincode/input", "input">>, <<"/chaincode/output", "output">>,
   <<"/chaincode/input/src", "input/src">>, <<"/chaincode/input/src/path", "input/src/path">>}

\* The directory of the program, by type.
ProgramDir(t) ==
  CASE t \in {"golang", "executable"} -> "/usr/local/bin"
    [] t = "node"                     -> "/usr/local/src"
    [] t = "java"                     -> "/root/chaincode-java/chaincode"

\* Fault: the program's directory is the other subPath of the volume.
RunMountsArtifacts(t) ==
  {<<"/chaincode/artifacts", "output">>, <<ProgramDir(t), "artifacts">>}

RunMounts(t) == {<<"/chaincode/artifacts", "artifacts">>, <<ProgramDir(t), "output">>}

\* Is there a file f in directory d of a container with these mounts?
Sees(mounts, d, f) ==
  IF \E m \in mounts : m[1] = d THEN \E m \in mounts : m[1] = d /\ <<m[2], f>> \in vol
  ELSE <<d, f>> \in image

\* What is in a directory of the volume, subdirectories included.
Entries(d) ==
  {file[2] : file \in {g \in vol : g[1] = d}}
  \cup {n \in {"src"} : d = "input" /\ \E g \in vol : g[1] \in {"input/src", "input/src/path"}}
  \cup {n \in {"path"} : d = "input/src" /\ \E g \in vol : g[1] = "input/src/path"}

\* cp -R of what is in a directory of the volume to another; what it copies of
\* subdirectories is not looked at any more.
Copies(from, to) == {<<to, n>> : n \in Entries(from)}

-----------------------------------------------------------------------------
(***************************************************************************)
(* The build pod.                                                          *)
(***************************************************************************)
Init ==
  /\ BuilderInit
  /\ image \in SUBSET {<<"/chaincode", "build.sh">>, <<"/chaincode", "start.sh">>}
  /\ pod = "download" /\ vol = {} /\ tar = {} /\ program = None /\ built = None

\* The chaincode type as the switches of the sidecar see it, and the calls that
\* have a pod.
type      == Lower(ccType)
Building  == at = "build" /\ step = "sidecar" /\ HasContainer(ccType)
Running   == at = "run" /\ step = "sidecar" /\ HasContainer(ccType)

\* setup-chaincode-volume and download-chaincode-source.
DownloadSource(package) ==
  /\ Building /\ pod = "download"
  /\ vol' = package /\ pod' = "build"
  /\ UNCHANGED <<builderVars, image, tar, built, program>>

\* Fault: a vendor directory of the path is not looked for.
GoBuildTopOnly ==
  LET Module(d) == Sees(BuildMounts, d, "go.mod")
      Vendor(d) == Sees(BuildMounts, d, "vendor")
      top       == "/chaincode/input/src"
      sub       == "/chaincode/input/src/path"
  IN IF Module(top) THEN <<top, IF Vendor(top) THEN "vendor" ELSE "readonly">>
     ELSE IF Module(sub) THEN <<sub, "readonly">>
     ELSE <<top, "gopath">>

\* goBuildScript: where and how the program is built; the result is the same
\* file in every branch.
GoBuild ==
  LET Module(d) == Sees(BuildMounts, d, "go.mod")
      Vendor(d) == Sees(BuildMounts, d, "vendor")
      top       == "/chaincode/input/src"
      sub       == "/chaincode/input/src/path"
  IN IF Module(top) THEN <<top, IF Vendor(top) THEN "vendor" ELSE "readonly">>
     ELSE IF Module(sub) THEN <<sub, IF Vendor(sub) THEN "vendor" ELSE "readonly">>
     ELSE <<top, "gopath">>

\* What the scripts leave in /chaincode/output.  The one of Java is in the
\* image (external); so is build.sh, if there is one to be seen.
Output ==
  IF type \in {"golang", "java"} THEN {<<"output", "chaincode">>}
  ELSE IF Sees(BuildMounts, "/chaincode", "build.sh") THEN {<<"output", "image">>}
  ELSE Copies(IF type = "node" THEN "input/src" ELSE "input", "output")

BuildContainer ==
  /\ Building /\ pod = "build"
  /\ vol' = vol \cup Output /\ pod' = "upload"
  /\ built' = IF type = "golang" THEN GoBuild ELSE None
  /\ UNCHANGED <<builderVars, image, tar, program>>

\* The compiler or npm fails.
BuildFails ==
  /\ Building /\ pod = "build"
  /\ type \in {"golang", "java", "node"}
  /\ pod' = "failed"
  /\ UNCHANGED <<builderVars, image, vol, tar, built, program>>

\* upload-chaincode-output: the archive has the files of the output directory;
\* tar refuses to make an empty one.
UploadOutput ==
  /\ Building /\ pod = "upload"
  /\ tar' = {file \in vol : file[1] = "output"}
  /\ pod' = IF tar' = {} THEN "failed" ELSE "run"
  /\ UNCHANGED <<builderVars, image, vol, built, program>>

-----------------------------------------------------------------------------
(***************************************************************************)
(* The run pod.                                                            *)
(***************************************************************************)
\* toSecretData: the files, what is in each and how it is encoded.
SecretData ==
  {<<"peer.crt", "RootCert", "pem">>,
   <<"client_pem.crt", "ClientCert", "pem">>, <<"client_pem.key", "ClientKey", "pem">>,
   <<"client.crt", "ClientCert", "base64">>, <<"client.key", "ClientKey", "base64">>}

\* toRunEnv: the variables that name a file in /certs.
RunEnv ==
  {<<"CORE_PEER_TLS_ROOTCERT_FILE", "peer.crt">>,
   <<"CORE_TLS_CLIENT_KEY_PATH", "client.key">>, <<"CORE_TLS_CLIENT_CERT_PATH", "client.crt">>,
   <<"CORE_TLS_CLIENT_KEY_FILE", "client_pem.key">>,
   <<"CORE_TLS_CLIENT_CERT_FILE", "client_pem.crt">>}

\* runPodDefinition and download-chaincode-output: a new volume.  Transfers are
\* whole here; the ones that break off unnoticed are in Pipeline.
DownloadOutput ==
  /\ Running /\ pod = "run"
  /\ vol' = tar /\ pod' = "start"
  /\ UNCHANGED <<builderVars, image, tar, built, program>>

\* What the run script starts.
Program ==
  CASE type \in {"golang", "executable"} -> <<"/usr/local/bin", "chaincode">>
    [] type = "java" -> <<"/root/chaincode-java/chaincode", "chaincode">>
    [] type = "node" -> IF Sees(RunMounts(type), "/chaincode", "start.sh")
                        THEN <<"/chaincode", "start.sh">>
                        ELSE <<"/usr/local/src", "package.json">>

RunContainer ==
  /\ Running /\ pod = "start"
  /\ IF Sees(RunMounts(type), Program[1], Program[2])
     THEN pod' = "started" /\ program' = Program
     ELSE pod' = "failed" /\ UNCHANGED program
  /\ UNCHANGED <<builderVars, image, vol, tar, built>>

\* The chaincode reads its certificates and keys (external).
Connect ==
  /\ Running /\ pod = "started"
  /\ pod' = IF \A v \in RunEnv : \E file \in SecretData : file[1] = v[2]
           THEN "connected" ELSE "failed"
  /\ UNCHANGED <<builderVars, image, vol, tar, built, program>>

-----------------------------------------------------------------------------
\* A call ends with its pod: the one of build when the output is uploaded, the
\* one of run when the chaincode has done its work.  A call whose pod fails ends
\* like any failing step of the client.
BuildReturns == (Building => pod = "run") /\ SidecarBuilds /\ UNCHANGED podVars
RunReturns   == (Running => pod = "connected") /\ SidecarRuns /\ UNCHANGED podVars

Finished == at \notin Commands /\ UNCHANGED vars

Next ==
  \/ CommandStep /\ UNCHANGED podVars
  \/ \E package \in SUBSET PackageFiles : DownloadSource(package)
  \/ BuildContainer \/ BuildFails \/ UploadOutput \/ BuildReturns
  \/ DownloadOutput \/ RunContainer \/ Connect \/ RunReturns \/ Finished

Spec == Init /\ [][Next]_vars

-----------------------------------------------------------------------------
\* A chaincode whose build succeeded is found and started by the run, with all
\* files its environment names, unless the package itself lacks what its type
\* needs: the executable at its top, the Node package in src.  The transfers to
\* and from the file server are taken as whole (golang.go 25-96, java.go 25-65,
\* node.go 25-80, executable.go 25-73, server.go 633-654).
BuiltProgramStarts ==
  pod = "failed" /\ tar # {} =>
    \/ type = "node" /\ <<"output", "package.json">> \notin tar
    \/ type = "executable" /\ <<"output", "chaincode">> \notin tar

\* What is started was built from the package: a script of the run image can
\* take its place for Node only, and then the build's files are mounted where
\* such a script finds them; a build script of the image is never run, because
\* the volume hides it (node.go 27, 52, executable.go 27).
StartsWhatWasBuilt ==
  /\ pod \in {"started", "connected"} /\ type # "node" => <<"output", "chaincode">> \in tar
  /\ program = <<"/chaincode", "start.sh">> => type = "node"
  /\ <<"output", "image">> \notin tar

\* Go builds with the vendored dependencies exactly when the module it builds
\* has them, and outside of a module only if the package has none at the two
\* places where one is looked for.  A module at the top of src is built rather
\* than one at the path, whichever of the two has its dependencies (golang.go
\* 27-46).
GoModeFits ==
  pod = "upload" /\ type = "golang" =>
    LET has(f) == \E m \in BuildMounts : m[1] = built[1] /\ <<m[2], f>> \in vol IN
    /\ built[2] = "vendor" <=> has("go.mod") /\ has("vendor")
    /\ built[2] = "gopath" => \A f \in vol : f[2] # "go.mod"
=============================================================================
