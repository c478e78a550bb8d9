------------------------------ MODULE Builder -------------------------------
(***************************************************************************)
(* The four commands a peer calls for one chaincode package: detect,       *)
(* build, release and run (pkg/command, cmd/ibp-builder-client), each of   *)
(* which finds out anew whether the chaincode is external, and the         *)
(* switches on the chaincode type in the sidecar (pkg/k8sbuilder).  What   *)
(* the pods do between a call and its end is in Containers, which extends  *)
(* this module; how a call can go wrong is in Pipeline.                    *)
(***************************************************************************)
EXTENDS Naturals

VARIABLES
  ccType,    \* "type" of the package's metadata.json, or "bad" or "missing" file
  source,    \* the source: connection.json, is there META-INF?
  at,        \* the command that runs, or what became of the chaincode
  step,      \* where the command is
  exits,     \* exit status of the commands that are over
  output,    \* files in the build's output directory
  release,   \* files in the release directory
  address,   \* whose address connection.json of the output has
  unread,    \* commands that could not read a metadata.json that is there, and
             \* "META-INF" if build could not look at one that is there
  refused    \* types the sidecar found in calls it has no container for

pkgVars == <<ccType, source>>
outVars == <<output, release, address>>
builderVars == <<pkgVars, at, step, exits, outVars, unread, refused>>

-----------------------------------------------------------------------------
Types    == {"golang", "Golang", "java", "node", "executable", "external", "External",
             "other"}
Lower(t) == CASE t = "Golang" -> "golang" [] t = "External" -> "external" [] OTHER -> t

Detected == {"golang", "java", "node", "executable", "external"}
InPods   == {"golang", "java", "node", "executable"}

\* connection.json: none, one that asks for the peer's name, one that does not.
Connections == {"none", "inject", "keep", "bad"}

Commands == {"detect", "build", "release", "run"}

BuilderInit ==
  /\ ccType \in Types \cup {"bad", "missing"}
  /\ source \in [connection : Connections, metaInf : BOOLEAN]
  /\ at = "detect" /\ step = "start" /\ exits = [c \in Commands |-> 99]
  /\ output = {} /\ release = {} /\ address = "none"
  /\ unread = {} /\ refused = {}

-----------------------------------------------------------------------------
\* The command ends; the peer (external) goes on after status 0, and calls run
\* for a chaincode whose release has no connection.json.
Exit(code) ==
  /\ exits' = [exits EXCEPT ![at] = code] /\ step' = "start"
  /\ at' = IF code # 0 THEN "rejected"
           ELSE CASE at = "detect" -> "build"
                  [] at = "build" -> "release"
                  [] at = "release" -> IF "connection.json" \in release' THEN "connected"
                                       ELSE "run"
                  [] at = "run" -> "ended"

Goto(s) == step' = s /\ UNCHANGED <<at, exits>>

\* Any file operation may fail, which is status 3; without a connection to the
\* sidecar main exits with 10 before the command starts.
Fails ==
  /\ at \in Commands
  /\ \/ Exit(3)
     \/ step = "start" /\ Exit(10)
  /\ UNCHANGED <<pkgVars, outVars, unread, refused>>

\* IsExternalCC on a directory that has metadata.json or not.  A file that
\* cannot be read is no error.
IsExternalCC(present, yes, no) ==
  \/ ~present /\ no /\ UNCHANGED unread
  \/ present /\ no /\ unread' = unread \cup {at}
  \/ present /\ ccType # "bad" /\ UNCHANGED unread
       /\ IF Lower(ccType) = "external" THEN yes ELSE no

Detect ==
  /\ at = "detect" /\ ccType \in Types
  /\ Exit(IF Lower(ccType) \in Detected THEN 0 ELSE 1)
  /\ UNCHANGED <<pkgVars, outVars, unread, refused>>

-----------------------------------------------------------------------------
BuildStart ==
  /\ at = "build" /\ step = "start"
  /\ IsExternalCC(ccType # "missing", Goto("connection"), Goto("sidecar"))
  /\ UNCHANGED <<pkgVars, outVars, refused>>

\* HandleExternalCC: UpdateFile with injectPeerIdentifier, ...
UpdateConnection ==
  /\ at = "build" /\ step = "connection"
  /\ source.connection \in {"inject", "keep"}
  /\ output' = output \cup {"connection.json"}
  /\ address' = IF source.connection = "inject" THEN "peer" ELSE "given"
  /\ Goto("metadata")
  /\ UNCHANGED <<pkgVars, release, unread, refused>>

\* Fault: metadata.json is not kept with the output.
CopyMetadataForgotten ==
  /\ at = "build" /\ step = "metadata"
  /\ Goto("metaInf")
  /\ UNCHANGED <<pkgVars, outVars, unread, refused>>

\* ... CopyDir of the metadata, ...
CopyMetadata ==
  /\ at = "build" /\ step = "metadata"
  /\ output' = output \cup {"metadata.json"}
  /\ Goto("metaInf")
  /\ UNCHANGED <<pkgVars, release, address, unread, refused>>

\* dirExists of META-INF: a directory that cannot be looked at is none.
DirExists(found) ==
  /\ found => source.metaInf
  /\ unread' = IF source.metaInf /\ ~found THEN unread \cup {"META-INF"} ELSE unread

MetaInfTar(found) == IF found THEN {"chaincode-metadata.tar"} ELSE {}

\* ... and the archive of META-INF.
TarMetaInf ==
  /\ at = "build" /\ step = "metaInf"
  /\ \E found \in BOOLEAN : DirExists(found) /\ output' = output \cup MetaInfTar(found)
  /\ Exit(0)
  /\ UNCHANGED <<pkgVars, release, address, refused>>

\* Fault: the sidecar compares the type as it is written.
HasContainerExact(t) == t \in InPods

\* Fault: the sidecar has a container for every type the client detects.
HasContainerForAny(t) == Lower(t) # "other"

\* The switches of buildContainerDefinition and runContainerDefinition.
HasContainer(t) == Lower(t) \in InPods

\* The other way: Server.Build, which reads the type again, and CopyDir.
SidecarBuilds ==
  /\ at = "build" /\ step = "sidecar" /\ ccType \in Types
  /\ IF HasContainer(ccType)
     THEN /\ \E found \in BOOLEAN :
               /\ DirExists(found)
               /\ output' = {"chaincode-source.tar", "package-metadata.tar",
                             "chaincode-output.tar"} \cup MetaInfTar(found)
          /\ Exit(0) /\ UNCHANGED refused
     ELSE Exit(3) /\ refused' = refused \cup {ccType} /\ UNCHANGED <<output, unread>>
  /\ UNCHANGED <<pkgVars, release, address>>

-----------------------------------------------------------------------------
ReleaseStart ==
  /\ at = "release" /\ step = "start"
  /\ IsExternalCC("metadata.json" \in output, Goto("expose"), Goto("extract"))
  /\ UNCHANGED <<pkgVars, outVars, refused>>

\* Release.HandleExternalCC.
Expose ==
  /\ at = "release" /\ step = "expose"
  /\ {"connection.json", "metadata.json"} \subseteq output
  /\ release' = release \cup {"connection.json", "metadata.json"}
  /\ Goto("extract")
  /\ UNCHANGED <<pkgVars, output, address, unread, refused>>

\* ExtractTar of chaincode-metadata.tar; nothing to do if there is none.
ExtractIndexes ==
  /\ at = "release" /\ step = "extract"
  /\ release' = release \cup (IF "chaincode-metadata.tar" \in output THEN {"indexes"} ELSE {})
  /\ Exit(0)
  /\ UNCHANGED <<pkgVars, output, address, unread, refused>>

-----------------------------------------------------------------------------
RunStart ==
  /\ at = "run" /\ step = "start"
  /\ IsExternalCC("metadata.json" \in output, Exit(3), Goto("sidecar"))
  /\ UNCHANGED <<pkgVars, outVars, refused>>

\* The files of the output are copied for Server.Run, which does nothing for
\* "external" and has no container for it in another spelling.
SidecarRuns ==
  /\ at = "run" /\ step = "sidecar" /\ ccType \in Types
  /\ {"chaincode-output.tar", "package-metadata.tar"} \subseteq output
  /\ IF ccType = "external" \/ HasContainer(ccType)
     THEN Exit(0) /\ UNCHANGED refused
     ELSE Exit(3) /\ refused' = refused \cup {ccType}
  /\ UNCHANGED <<pkgVars, outVars, unread>>

-----------------------------------------------------------------------------
\* The steps of the commands by themselves.
CommandStep ==
  \/ Detect \/ BuildStart \/ UpdateConnection \/ CopyMetadata \/ TarMetaInf
  \/ ReleaseStart \/ Expose \/ ExtractIndexes \/ RunStart \/ Fails

-----------------------------------------------------------------------------
External == Lower(ccType) = "external"

\* A chaincode the client detects is one the sidecar can build: only an external
\* chaincode whose metadata could not be read is sent to the sidecar in vain
\* (detect.go 50-63, server.go 446-459).
DetectedIsBuildable ==
  refused # {} => External /\ "build" \in unread

\* No external chaincode gets into a pod: it is never built in one, so run has
\* nothing to give to the sidecar and always fails, and the case marked "should
\* not come here" is not reached (server.go 143, 582-584; run.go 46-63).
ExternalNotRun ==
  External => "chaincode-output.tar" \notin output /\ exits["run"] # 0

\* A release is complete: it has the indexes of the source whichever way the
\* chaincode is built, unless build could not look at META-INF, which dirExists
\* takes for no META-INF; and for an external chaincode the connection and the
\* metadata, with the address the build made, so that the peer can connect to
\* it, unless release could not read metadata.json (build.go 71-76, 141-146,
\* 177-183; release.go 35-67, 72-105).
ReleaseIsComplete ==
  exits["release"] = 0 =>
    /\ "indexes" \in release <=> source.metaInf /\ "META-INF" \notin unread
    /\ External /\ "release" \notin unread =>
         /\ {"connection.json", "metadata.json"} \subseteq release
         /\ address = IF source.connection = "inject" THEN "peer" ELSE "given"
=============================================================================
