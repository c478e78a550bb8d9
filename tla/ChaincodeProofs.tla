--------------------------- MODULE ChaincodeProofs ---------------------------
(***************************************************************************)
(* Proofs about what becomes of one chaincode package.                     *)
(*                                                                         *)
(* The first part is about Builder and Containers: a package of any type   *)
(* through detect, build, release and run, with its two pods.  Each of the *)
(* commands finds out anew what the chaincode is, from what the ones       *)
(* before it left, so what makes the properties inductive is what is in    *)
(* the output and in the volume at every point of every command.           *)
(*                                                                         *)
(* The second part is about PeerAddress: the address that each peer's      *)
(* build writes for an external chaincode.  Its invariant says little more *)
(* than the action; the work is in the strings: what getPeerID leaves of a *)
(* name, where parseAddress cuts, and what can be read back from the       *)
(* pieces once they are joined, for strings of any length.                 *)
(***************************************************************************)
EXTENDS Containers, PeerAddress, FiniteSetTheorems, SequenceTheorems, TLAPS

OutputFiles == {"connection.json", "metadata.json", "chaincode-metadata.tar",
                "chaincode-source.tar", "package-metadata.tar", "chaincode-output.tar"}

BuilderTypes ==
  /\ ccType \in Types \cup {"bad", "missing"}
  /\ source \in [connection : Connections, metaInf : BOOLEAN]
  /\ at \in Commands \cup {"rejected", "connected", "ended"}
  /\ exits \in [Commands -> Nat]
  /\ output \in SUBSET OutputFiles
  /\ unread \in SUBSET (Commands \cup {"META-INF"})

\* Where a command is tells what it has found out.
ControlInv ==
  /\ at \notin {"detect", "rejected"} => ccType \in Types /\ type \in Detected
  /\ at = "build" =>
       /\ step \in {"start", "connection", "metadata", "metaInf", "sidecar"}
       /\ step \in {"connection", "metadata", "metaInf"} => External
       /\ External /\ step = "sidecar" => "build" \in unread
  /\ at = "release" =>
       /\ step \in {"start", "expose", "extract"}
       /\ External /\ step = "extract" /\ "release" \notin unread =>
            {"connection.json", "metadata.json"} \subseteq release
  /\ at \in {"detect", "build"} => "META-INF" \notin unread
  /\ at \in {"detect", "build", "release"} =>
       exits["release"] # 0 /\ "indexes" \notin release

\* The output of a build that got as far as step, and of one that is over.
Found          == source.metaInf /\ "META-INF" \notin unread
ExternalOutput == {"connection.json", "metadata.json"} \cup MetaInfTar(Found)
PodOutput      == {"chaincode-source.tar", "package-metadata.tar",
                   "chaincode-output.tar"} \cup MetaInfTar(Found)
BuiltAddress   == IF source.connection = "inject" THEN "peer" ELSE "given"

OutputInv ==
  /\ at = "detect" => output = {}
  /\ at = "build" =>
       CASE step = "metadata" -> output = {"connection.json"} /\ address = BuiltAddress
         [] step = "metaInf"  -> output = {"connection.json", "metadata.json"}
                                   /\ address = BuiltAddress
         [] OTHER             -> output = {}
  /\ at \in {"release", "run", "connected", "ended"} =>
       IF External THEN output = ExternalOutput /\ address = BuiltAddress
       ELSE output = PodOutput
  /\ External => "chaincode-output.tar" \notin output

BuilderInv ==
  /\ BuilderTypes /\ ControlInv /\ OutputInv
  /\ DetectedIsBuildable /\ ExternalNotRun /\ ReleaseIsComplete

\* The files of the volume and of the archive in the life of the two pods.
PodInv ==
  /\ pod \in {"download", "build", "upload"} => tar = {}
  /\ pod = "build" => vol \in SUBSET PackageFiles
  /\ pod = "upload" =>
       /\ <<"output", "image">> \notin vol
       /\ type \in {"golang", "java"} => <<"output", "chaincode">> \in vol
  /\ pod \in {"run", "start", "started", "connected"} /\ type \in {"golang", "java"} =>
       <<"output", "chaincode">> \in tar
  /\ pod \in {"start", "started", "connected"} => vol = tar

IInv == BuilderInv /\ PodInv /\ BuiltProgramStarts /\ StartsWhatWasBuilt /\ GoModeFits

-----------------------------------------------------------------------------
LEMMA InvInit == Init => IInv
<1> SUFFICES ASSUME Init PROVE IInv
  OBVIOUS
<1>1. BuilderTypes
  BY DEF Init, BuilderInit, BuilderTypes, Commands
<1>2. ControlInv /\ OutputInv
  BY DEF Init, BuilderInit, ControlInv, OutputInv, Commands
<1>3. DetectedIsBuildable /\ ExternalNotRun /\ ReleaseIsComplete
  BY DEF Init, BuilderInit, DetectedIsBuildable, ExternalNotRun, ReleaseIsComplete, Commands
<1>4. PodInv /\ BuiltProgramStarts /\ StartsWhatWasBuilt /\ GoModeFits
  BY DEF Init, PodInv, BuiltProgramStarts, StartsWhatWasBuilt, GoModeFits, None
<1> QED BY <1>1, <1>2, <1>3, <1>4 DEF IInv, BuilderInv

-----------------------------------------------------------------------------
(* The commands. *)

LEMMA DetectStep == BuilderInv /\ Detect => BuilderInv'
<1> SUFFICES ASSUME BuilderInv, Detect PROVE BuilderInv'
  OBVIOUS
<1> USE DEF BuilderInv, Detect, pkgVars, outVars
<1>1. BuilderTypes'
  BY DEF BuilderTypes, Exit, Commands
<1>2. ControlInv'
  BY DEF ControlInv, Exit, type
<1>3. OutputInv'
  BY DEF OutputInv, Exit
<1>4. DetectedIsBuildable' /\ ExternalNotRun' /\ ReleaseIsComplete'
  BY DEF DetectedIsBuildable, ExternalNotRun, ReleaseIsComplete, Exit, External
<1> QED BY <1>1, <1>2, <1>3, <1>4

\* A command that ends leaves the exit status of the others.
LEMMA ExitStatus ==
  ASSUME BuilderTypes, at \in Commands, NEW code \in Nat, Exit(code)
  PROVE  exits' \in [Commands -> Nat] /\ \A c \in Commands \ {at} : exits'[c] = exits[c]
BY DEF BuilderTypes, Exit

\* A command that fails adds no status 0.
LEMMA FailureStatus ==
  ASSUME BuilderTypes, at \in Commands, NEW code \in Nat \ {0}, Exit(code)
  PROVE  /\ at' = "rejected" /\ exits' \in [Commands -> Nat]
         /\ \A c \in Commands : exits'[c] = 0 => exits[c] = 0
BY DEF BuilderTypes, Exit

LEMMA FailsStep == BuilderInv /\ Fails => BuilderInv'
<1> SUFFICES ASSUME BuilderInv, Fails PROVE BuilderInv'
  OBVIOUS
<1> USE DEF BuilderInv, pkgVars, outVars
<1>1. /\ at' = "rejected" /\ exits' \in [Commands -> Nat]
      /\ \A c \in Commands : exits'[c] = 0 => exits[c] = 0
  BY FailureStatus DEF Fails
<1>2. BuilderTypes'
  BY <1>1 DEF Fails, BuilderTypes
<1>3. ControlInv' /\ OutputInv'
  BY <1>1 DEF Fails, ControlInv, OutputInv, External
<1>4. exits'["run"] = 0 => exits["run"] = 0
  BY <1>1 DEF Commands
<1>5. exits'["release"] = 0 => exits["release"] = 0
  BY <1>1 DEF Commands
<1>6. DetectedIsBuildable' /\ ExternalNotRun'
  BY <1>4 DEF Fails, DetectedIsBuildable, ExternalNotRun, External
<1>7. ReleaseIsComplete'
  BY <1>5 DEF Fails, ReleaseIsComplete, External
<1> QED BY <1>2, <1>3, <1>6, <1>7

LEMMA BuildStartStep == BuilderInv /\ BuildStart => BuilderInv'
<1> SUFFICES ASSUME BuilderInv, BuildStart PROVE BuilderInv'
  OBVIOUS
<1> USE DEF BuilderInv, BuildStart, pkgVars, outVars, Goto, IsExternalCC
<1>1. BuilderTypes'
  BY DEF BuilderTypes
<1>2. ControlInv'
  BY DEF ControlInv, External, type, Types
<1>3. OutputInv'
  BY DEF OutputInv
<1>4. DetectedIsBuildable' /\ ExternalNotRun'
  BY DEF DetectedIsBuildable, ExternalNotRun, External
<1>5. ReleaseIsComplete'
  BY DEF ReleaseIsComplete, External
<1> QED BY <1>1, <1>2, <1>3, <1>4, <1>5

LEMMA UpdateConnectionStep == BuilderInv /\ UpdateConnection => BuilderInv'
<1> SUFFICES ASSUME BuilderInv, UpdateConnection PROVE BuilderInv'
  OBVIOUS
<1> USE DEF BuilderInv, UpdateConnection, pkgVars, outVars, Goto
<1>1. BuilderTypes'
  BY DEF BuilderTypes, OutputFiles
<1>2. ControlInv'
  BY DEF ControlInv, External, type
<1>3. OutputInv'
  BY DEF OutputInv, BuiltAddress
<1>4. DetectedIsBuildable' /\ ExternalNotRun'
  BY DEF DetectedIsBuildable, ExternalNotRun, External
<1>5. ReleaseIsComplete'
  BY DEF ReleaseIsComplete, External
<1> QED BY <1>1, <1>2, <1>3, <1>4, <1>5

LEMMA CopyMetadataStep == BuilderInv /\ CopyMetadata => BuilderInv'
<1> SUFFICES ASSUME BuilderInv, CopyMetadata PROVE BuilderInv'
  OBVIOUS
<1> USE DEF BuilderInv, CopyMetadata, pkgVars, outVars, Goto
<1>1. BuilderTypes'
  BY DEF BuilderTypes, OutputFiles
<1>2. ControlInv'
  BY DEF ControlInv, External, type
<1>3. OutputInv'
  BY DEF OutputInv, BuiltAddress
<1>4. DetectedIsBuildable' /\ ExternalNotRun'
  BY DEF DetectedIsBuildable, ExternalNotRun, External
<1>5. ReleaseIsComplete'
  BY DEF ReleaseIsComplete, External
<1> QED BY <1>1, <1>2, <1>3, <1>4, <1>5

\* unread tells afterwards whether the build has found META-INF.
LEMMA FoundIsTold ==
  ASSUME BuilderTypes, ControlInv, at = "build", UNCHANGED source,
         NEW found \in BOOLEAN, DirExists(found)
  PROVE  Found' <=> found
<1>1. source.metaInf \in BOOLEAN /\ "META-INF" \notin unread
  BY DEF BuilderTypes, ControlInv
<1> QED BY <1>1 DEF DirExists, Found

LEMMA TarMetaInfStep == BuilderInv /\ TarMetaInf => BuilderInv'
<1> SUFFICES ASSUME BuilderInv, TarMetaInf PROVE BuilderInv'
  OBVIOUS
<1> USE DEF BuilderInv, TarMetaInf, pkgVars, outVars
<1>1. /\ exits' \in [Commands -> Nat] /\ at' = "release" /\ step' = "start"
      /\ exits'["release"] = exits["release"] /\ exits'["run"] = exits["run"]
  BY ExitStatus DEF Exit, Commands
<1>2. PICK found \in BOOLEAN : DirExists(found) /\ output' = output \cup MetaInfTar(found)
  OBVIOUS
<1>3. /\ MetaInfTar(found) \in SUBSET {"chaincode-metadata.tar"}
      /\ unread' \in {unread, unread \cup {"META-INF"}}
      /\ MetaInfTar(found) = MetaInfTar(Found')
  BY <1>2, FoundIsTold DEF MetaInfTar, DirExists
<1>4. External /\ output' = ExternalOutput'
  BY <1>2, <1>3 DEF ControlInv, OutputInv, ExternalOutput
<1>5. BuilderTypes'
  BY <1>1, <1>2, <1>3 DEF BuilderTypes, Commands, OutputFiles
<1>6. ControlInv'
  BY <1>1 DEF ControlInv, type
<1>7. OutputInv'
  BY <1>1, <1>2, <1>3, <1>4 DEF OutputInv, External, BuiltAddress
<1>8. DetectedIsBuildable' /\ ExternalNotRun'
  BY <1>1, <1>3, <1>7 DEF DetectedIsBuildable, ExternalNotRun, External, OutputInv
<1>9. ReleaseIsComplete'
  BY <1>1 DEF ReleaseIsComplete, ControlInv
<1> QED BY <1>5, <1>6, <1>7, <1>8, <1>9

\* In the call to the sidecar two views of the type meet: what the client
\* detects and what the sidecar has a container for.
LEMMA SidecarBuildsStep == BuilderInv /\ SidecarBuilds => BuilderInv'
<1> SUFFICES ASSUME BuilderInv, SidecarBuilds PROVE BuilderInv'
  OBVIOUS
<1> USE DEF BuilderInv, pkgVars
<1>1. HasContainer(ccType) <=> ~External
  BY DEF SidecarBuilds, ControlInv, HasContainer, External, type, Detected, InPods
<1>2. CASE HasContainer(ccType)
  <2>1. /\ exits' \in [Commands -> Nat] /\ at' = "release" /\ step' = "start"
        /\ exits'["release"] = exits["release"] /\ exits'["run"] = exits["run"]
    BY <1>2, ExitStatus DEF SidecarBuilds, Exit, Commands
  <2>2. PICK found \in BOOLEAN :
          /\ DirExists(found)
          /\ output' = {"chaincode-source.tar", "package-metadata.tar",
                        "chaincode-output.tar"} \cup MetaInfTar(found)
    BY <1>2 DEF SidecarBuilds
  <2>3. /\ MetaInfTar(found) \in SUBSET {"chaincode-metadata.tar"}
        /\ unread' \in {unread, unread \cup {"META-INF"}}
        /\ MetaInfTar(found) = MetaInfTar(Found')
    BY <2>2, FoundIsTold DEF SidecarBuilds, MetaInfTar, DirExists
  <2>4. BuilderTypes'
    BY <2>1, <2>2, <2>3 DEF SidecarBuilds, BuilderTypes, Commands, OutputFiles
  <2>5. ControlInv'
    BY <2>1 DEF SidecarBuilds, ControlInv, type
  <2>6. OutputInv'
    BY <1>1, <1>2, <2>1, <2>2, <2>3 DEF SidecarBuilds, OutputInv, External, PodOutput
  <2>7. DetectedIsBuildable' /\ ExternalNotRun'
    BY <1>1, <1>2, <2>3 DEF SidecarBuilds, DetectedIsBuildable, ExternalNotRun, External
  <2>8. ReleaseIsComplete'
    BY <2>1 DEF SidecarBuilds, ReleaseIsComplete, ControlInv
  <2> QED BY <2>4, <2>5, <2>6, <2>7, <2>8
<1>3. CASE ~HasContainer(ccType)
  <2>1. /\ at' = "rejected" /\ exits' \in [Commands -> Nat]
        /\ exits'["release"] = exits["release"] /\ exits'["run"] = exits["run"]
    BY <1>3, ExitStatus DEF SidecarBuilds, Exit, Commands
  <2>2. BuilderTypes'
    BY <1>3, <2>1 DEF SidecarBuilds, BuilderTypes
  <2>3. ControlInv' /\ OutputInv'
    BY <1>3, <2>1 DEF SidecarBuilds, ControlInv, OutputInv
  <2>4. DetectedIsBuildable' /\ ExternalNotRun'
    BY <1>1, <2>1 DEF SidecarBuilds, ControlInv, DetectedIsBuildable, ExternalNotRun, External
  <2>5. ReleaseIsComplete'
    BY <2>1 DEF SidecarBuilds, ReleaseIsComplete, ControlInv
  <2> QED BY <2>2, <2>3, <2>4, <2>5
<1> QED BY <1>2, <1>3

LEMMA ReleaseStartStep == BuilderInv /\ ReleaseStart => BuilderInv'
<1> SUFFICES ASSUME BuilderInv, ReleaseStart PROVE BuilderInv'
  OBVIOUS
<1> USE DEF BuilderInv, ReleaseStart, pkgVars, outVars, Goto, IsExternalCC
<1>1. BuilderTypes'
  BY DEF BuilderTypes
<1>2. ControlInv'
  BY DEF ControlInv, OutputInv, ExternalOutput, External, type
<1>3. OutputInv'
  BY DEF OutputInv, External, BuiltAddress, ExternalOutput, PodOutput, MetaInfTar,
     Found
<1>4. DetectedIsBuildable' /\ ExternalNotRun'
  BY DEF DetectedIsBuildable, ExternalNotRun, External
<1>5. ReleaseIsComplete'
  BY DEF ReleaseIsComplete, External
<1> QED BY <1>1, <1>2, <1>3, <1>4, <1>5

LEMMA ExposeStep == BuilderInv /\ Expose => BuilderInv'
<1> SUFFICES ASSUME BuilderInv, Expose PROVE BuilderInv'
  OBVIOUS
<1> USE DEF BuilderInv, Expose, pkgVars, outVars, Goto
<1>1. BuilderTypes'
  BY DEF BuilderTypes
<1>2. ControlInv'
  BY DEF ControlInv, type
<1>3. OutputInv'
  BY DEF OutputInv, External, BuiltAddress, ExternalOutput, PodOutput, MetaInfTar,
     Found
<1>4. DetectedIsBuildable' /\ ExternalNotRun'
  BY DEF DetectedIsBuildable, ExternalNotRun, External
<1>5. ReleaseIsComplete'
  BY DEF ReleaseIsComplete, External
<1> QED BY <1>1, <1>2, <1>3, <1>4, <1>5

\* The indexes come from the archive of META-INF, which either way of building
\* leaves in the output.
LEMMA ExtractIndexesStep == BuilderInv /\ ExtractIndexes => BuilderInv'
<1> SUFFICES ASSUME BuilderInv, ExtractIndexes PROVE BuilderInv'
  OBVIOUS
<1> USE DEF BuilderInv, ExtractIndexes, pkgVars
<1>1. /\ exits' \in [Commands -> Nat] /\ at' \in {"connected", "run"} /\ step' = "start"
      /\ exits'["run"] = exits["run"]
  BY ExitStatus DEF Exit, Commands
<1>2. BuilderTypes'
  BY <1>1 DEF BuilderTypes, Commands
<1>3. ControlInv' /\ OutputInv'
  BY <1>1 DEF ControlInv, OutputInv, External, type, BuiltAddress, ExternalOutput, PodOutput,
     MetaInfTar, Found
<1>4. DetectedIsBuildable' /\ ExternalNotRun'
  BY <1>1 DEF DetectedIsBuildable, ExternalNotRun, External
<1>5. "chaincode-metadata.tar" \in output <=> Found
  BY DEF OutputInv, ExternalOutput, PodOutput, MetaInfTar, Found
<1>6. "indexes" \in release' <=> Found
  BY <1>5 DEF ControlInv
<1>7. ReleaseIsComplete'
  BY <1>6 DEF Found, ReleaseIsComplete, ControlInv, OutputInv, External, BuiltAddress
<1> QED BY <1>2, <1>3, <1>4, <1>7

LEMMA RunStartStep == BuilderInv /\ RunStart => BuilderInv'
<1> SUFFICES ASSUME BuilderInv, RunStart PROVE BuilderInv'
  OBVIOUS
<1> USE DEF BuilderInv, pkgVars, outVars
<1>1. unread' = unread \/ unread' = unread \cup {at}
  BY DEF RunStart, IsExternalCC
<1>2. Exit(3) \/ Goto("sidecar")
  BY DEF RunStart, IsExternalCC
<1>3. /\ exits' \in [Commands -> Nat] /\ at' \in {"run", "rejected"}
      /\ exits'["release"] = exits["release"]
      /\ exits'["run"] = 0 => exits["run"] = 0
  BY <1>2, ExitStatus, FailureStatus DEF RunStart, Goto, Commands, BuilderTypes
<1>4. BuilderTypes'
  BY <1>1, <1>3 DEF RunStart, BuilderTypes
<1>5. ControlInv' /\ OutputInv'
  BY <1>1, <1>3 DEF RunStart, ControlInv, OutputInv, External, type, BuiltAddress, ExternalOutput,
     PodOutput, MetaInfTar, Found
<1>6. DetectedIsBuildable' /\ ExternalNotRun'
  BY <1>1, <1>3 DEF RunStart, DetectedIsBuildable, ExternalNotRun, External
<1>7. ReleaseIsComplete'
  BY <1>1, <1>3 DEF RunStart, ReleaseIsComplete, External
<1> QED BY <1>4, <1>5, <1>6, <1>7

\* An external chaincode has no archive for the sidecar, and every other type
\* that was detected has a container.
LEMMA SidecarRunsStep == BuilderInv /\ SidecarRuns => BuilderInv'
<1> SUFFICES ASSUME BuilderInv, SidecarRuns PROVE BuilderInv'
  OBVIOUS
<1> USE DEF BuilderInv, pkgVars, outVars
<1>1. ~External
  BY DEF SidecarRuns, OutputInv
<1>2. HasContainer(ccType)
  BY <1>1 DEF SidecarRuns, ControlInv, HasContainer, External, type, Detected, InPods
<1>3. Exit(0) /\ UNCHANGED <<refused, unread, ccType, source, output, release, address>>
  BY <1>2 DEF SidecarRuns
<1>4. /\ exits' \in [Commands -> Nat] /\ at' = "ended"
      /\ exits'["release"] = exits["release"]
  BY <1>3, ExitStatus DEF SidecarRuns, Exit, Commands
<1>5. BuilderTypes'
  BY <1>3, <1>4 DEF BuilderTypes
<1>6. ControlInv' /\ OutputInv'
  BY <1>4 DEF SidecarRuns, ControlInv, OutputInv, External, type, PodOutput, MetaInfTar,
     Found
<1>7. DetectedIsBuildable' /\ ExternalNotRun'
  BY <1>1, <1>3 DEF DetectedIsBuildable, ExternalNotRun, External
<1>8. ReleaseIsComplete'
  BY <1>3, <1>4 DEF ReleaseIsComplete, External
<1> QED BY <1>5, <1>6, <1>7, <1>8

-----------------------------------------------------------------------------
(* The pods. *)

\* The build's volume hides the scripts of the image, and has none itself.
LEMMA BuildScriptHidden ==
  ASSUME vol \in SUBSET PackageFiles
  PROVE  ~Sees(BuildMounts, "/chaincode", "build.sh")
BY DEF Sees, BuildMounts, PackageFiles

\* What a container of a run sees in its program's directory is what is in the
\* output of the build.
LEMMA ProgramDirIsOutput ==
  ASSUME NEW t \in InPods, NEW f
  PROVE  Sees(RunMounts(t), ProgramDir(t), f) <=> <<"output", f>> \in vol
<1>1. ProgramDir(t) # "/chaincode/artifacts"
  BY DEF ProgramDir, InPods
<1> QED BY <1>1 DEF Sees, RunMounts

\* Every variable of the environment names a file of the secret.
LEMMA SecretIsComplete == \A v \in RunEnv : \E file \in SecretData : file[1] = v[2]
BY DEF RunEnv, SecretData

\* The names a copy of a package can have.
LEMMA CopiedNames ==
  ASSUME vol \in SUBSET PackageFiles, NEW from, NEW to
  PROVE  \A file \in Copies(from, to) :
           \E n \in {"go.mod", "vendor", "package.json", "chaincode", "src", "path"} :
             file = <<to, n>>
<1>1. \A n \in Entries(from) :
        n \in {"go.mod", "vendor", "package.json", "chaincode", "src", "path"}
  BY DEF Entries, PackageFiles
<1> QED BY <1>1 DEF Copies

PodPart == PodInv /\ BuiltProgramStarts /\ StartsWhatWasBuilt /\ GoModeFits

LEMMA DownloadSourceStep ==
  ASSUME PodPart, NEW package \in SUBSET PackageFiles, DownloadSource(package)
  PROVE  PodPart'
BY DEF PodPart, DownloadSource, PodInv, BuiltProgramStarts, StartsWhatWasBuilt, GoModeFits,
   builderVars, pkgVars, type

LEMMA BuildFailsStep == PodPart /\ BuildFails => PodPart'
BY DEF PodPart, BuildFails, PodInv, BuiltProgramStarts, StartsWhatWasBuilt, GoModeFits,
   builderVars, pkgVars, type

\* Where Go builds: the first of the two places that has a module.
LEMMA GoBuildFits ==
  ASSUME vol \in SUBSET PackageFiles
  PROVE  LET has(f) == \E m \in BuildMounts : m[1] = GoBuild[1] /\ <<m[2], f>> \in vol IN
         /\ GoBuild[2] = "vendor" <=> has("go.mod") /\ has("vendor")
         /\ GoBuild[2] = "gopath" => \A f \in vol : f[2] # "go.mod"
<1> DEFINE Has(d, f) == \E m \in BuildMounts : m[1] = d /\ <<m[2], f>> \in vol
           top == "/chaincode/input/src"
           sub == "/chaincode/input/src/path"
<1>1. \A f : Sees(BuildMounts, top, f) <=> Has(top, f)
  BY DEF Sees, BuildMounts
<1>2. \A f : Sees(BuildMounts, sub, f) <=> Has(sub, f)
  BY DEF Sees, BuildMounts
<1>3. ~Has(top, "go.mod") /\ ~Has(sub, "go.mod") => \A f \in vol : f[2] # "go.mod"
  BY DEF BuildMounts, PackageFiles
<1> HIDE DEF Has
<1>4. /\ GoBuild[2] = "vendor" <=> Has(GoBuild[1], "go.mod") /\ Has(GoBuild[1], "vendor")
      /\ GoBuild[2] = "gopath" => ~Has(top, "go.mod") /\ ~Has(sub, "go.mod")
  BY <1>1, <1>2 DEF GoBuild
<1> QED BY <1>3, <1>4 DEF Has

LEMMA UploadOutputStep == PodPart /\ UploadOutput => PodPart'
<1> SUFFICES ASSUME PodPart, UploadOutput PROVE PodPart'
  OBVIOUS
<1>1. PodInv'
  BY DEF PodPart, UploadOutput, PodInv, builderVars, pkgVars, type
<1>2. BuiltProgramStarts' /\ StartsWhatWasBuilt' /\ GoModeFits'
  BY DEF PodPart, UploadOutput, PodInv, BuiltProgramStarts, StartsWhatWasBuilt, GoModeFits,
     builderVars, pkgVars, type
<1> QED BY <1>1, <1>2 DEF PodPart

LEMMA DownloadOutputStep == PodPart /\ DownloadOutput => PodPart'
BY DEF PodPart, DownloadOutput, PodInv, BuiltProgramStarts, StartsWhatWasBuilt, GoModeFits,
   builderVars, pkgVars, type

LEMMA ConnectStep == PodPart /\ Connect => PodPart'
BY SecretIsComplete DEF PodPart, Connect, PodInv, BuiltProgramStarts, StartsWhatWasBuilt,
   GoModeFits, builderVars, pkgVars, type
\* The build adds to the output only: the program at its place, or copies of
\* what is in the package, and never what a script of the image makes.
LEMMA BuildContainerStep == PodPart /\ BuildContainer => PodPart'
<1> SUFFICES ASSUME PodPart, BuildContainer PROVE PodPart'
  OBVIOUS
<1>1. /\ vol \in SUBSET PackageFiles /\ tar = {} /\ tar' = tar /\ pod = "build"
      /\ pod' = "upload" /\ vol' = vol \cup Output /\ type' = type /\ program' = program
  BY DEF PodPart, PodInv, BuildContainer, builderVars, pkgVars, type
<1>2. <<"output", "image">> \notin Output
  BY <1>1, BuildScriptHidden, CopiedNames DEF Output
<1>3. PodInv'
  BY <1>1, <1>2 DEF PodInv, Output, PackageFiles
<1>4. BuiltProgramStarts' /\ StartsWhatWasBuilt'
  BY <1>1 DEF PodPart, BuiltProgramStarts, StartsWhatWasBuilt
<1>5. GoModeFits'
  <2> SUFFICES ASSUME type = "golang"
               PROVE  LET has(f) == \E m \in BuildMounts :
                                      m[1] = built'[1] /\ <<m[2], f>> \in vol' IN
                      /\ built'[2] = "vendor" <=> has("go.mod") /\ has("vendor")
                      /\ built'[2] = "gopath" => \A f \in vol' : f[2] # "go.mod"
    BY <1>1 DEF GoModeFits
  <2>1. built' = GoBuild /\ vol' = vol \cup {<<"output", "chaincode">>}
    BY DEF BuildContainer, Output
  <2> QED BY <1>1, <2>1, GoBuildFits
<1> QED BY <1>3, <1>4, <1>5 DEF PodPart

\* The run looks where the build has left the program.
LEMMA RunContainerStep == PodPart /\ RunContainer => PodPart'
<1> SUFFICES ASSUME PodPart, RunContainer PROVE PodPart'
  OBVIOUS
<1>1. /\ type \in InPods /\ type' = type /\ pod = "start" /\ vol = tar /\ vol' = vol
      /\ tar' = tar /\ image' = image
      /\ type \in {"golang", "java"} => <<"output", "chaincode">> \in tar
  BY DEF PodPart, PodInv, RunContainer, Running, HasContainer, builderVars, pkgVars, type
<1>2. CASE type # "node"
  <2>1. Program = <<ProgramDir(type), "chaincode">>
    BY <1>1, <1>2 DEF Program, ProgramDir, InPods
  <2>2. Sees(RunMounts(type), Program[1], Program[2]) <=> <<"output", "chaincode">> \in tar
    BY <1>1, <2>1, ProgramDirIsOutput
  <2>3. Program # <<"/chaincode", "start.sh">>
    BY <2>1
  <2>4. PodInv'
    BY <1>1 DEF RunContainer, PodInv
  <2>5. BuiltProgramStarts'
    BY <1>1, <1>2, <2>2 DEF RunContainer, BuiltProgramStarts, InPods
  <2>6. StartsWhatWasBuilt' /\ GoModeFits'
    BY <1>1, <2>2, <2>3 DEF PodPart, RunContainer, StartsWhatWasBuilt, GoModeFits
  <2> QED BY <2>4, <2>5, <2>6 DEF PodPart
<1>3. CASE type = "node"
  <2>1. Sees(RunMounts(type), Program[1], Program[2]) \/ <<"output", "package.json">> \notin tar
    BY <1>1, <1>3, ProgramDirIsOutput DEF Program, ProgramDir
  <2>2. PodInv'
    BY <1>1 DEF RunContainer, PodInv
  <2>3. BuiltProgramStarts'
    BY <1>1, <1>3, <2>1 DEF RunContainer, BuiltProgramStarts
  <2>4. StartsWhatWasBuilt' /\ GoModeFits'
    BY <1>1, <1>3 DEF PodPart, StartsWhatWasBuilt, GoModeFits
  <2> QED BY <2>2, <2>3, <2>4 DEF PodPart
<1> QED BY <1>2, <1>3

-----------------------------------------------------------------------------
LEMMA InvNext == IInv /\ [Next]_vars => IInv'
<1> SUFFICES ASSUME BuilderInv, PodPart, [Next]_vars PROVE BuilderInv' /\ PodPart'
  BY DEF IInv, PodPart
<1>1. ASSUME UNCHANGED builderVars PROVE BuilderInv'
  BY <1>1 DEF BuilderInv, BuilderTypes, ControlInv, OutputInv, DetectedIsBuildable,
     ExternalNotRun, ReleaseIsComplete, builderVars, pkgVars, outVars, External, type,
     BuiltAddress, ExternalOutput, PodOutput, MetaInfTar, Found
<1>2. ASSUME UNCHANGED podVars, UNCHANGED pkgVars PROVE PodPart'
  BY <1>2 DEF PodPart, PodInv, BuiltProgramStarts, StartsWhatWasBuilt, GoModeFits, podVars,
     pkgVars, type
<1>3. ASSUME CommandStep, UNCHANGED podVars PROVE BuilderInv' /\ PodPart'
  <2>1. BuilderInv'
    BY <1>3, DetectStep, BuildStartStep, UpdateConnectionStep, CopyMetadataStep, TarMetaInfStep,
       ReleaseStartStep, ExposeStep, ExtractIndexesStep, RunStartStep, FailsStep DEF CommandStep
  <2>2. UNCHANGED pkgVars
    BY <1>3 DEF CommandStep, Detect, BuildStart, UpdateConnection, CopyMetadata, TarMetaInf,
       ReleaseStart, Expose, ExtractIndexes, RunStart, Fails
  <2> QED BY <1>2, <1>3, <2>1, <2>2
<1>4. ASSUME NEW package \in SUBSET PackageFiles, DownloadSource(package)
      PROVE  BuilderInv' /\ PodPart'
  BY <1>1, <1>4, DownloadSourceStep DEF DownloadSource
<1>5. CASE BuildContainer
  BY <1>1, <1>5, BuildContainerStep DEF BuildContainer
<1>6. CASE BuildFails
  BY <1>1, <1>6, BuildFailsStep DEF BuildFails
<1>7. CASE UploadOutput
  BY <1>1, <1>7, UploadOutputStep DEF UploadOutput
<1>8. CASE BuildReturns
  BY <1>2, <1>8, SidecarBuildsStep DEF BuildReturns, SidecarBuilds
<1>9. CASE DownloadOutput
  BY <1>1, <1>9, DownloadOutputStep DEF DownloadOutput
<1>10. CASE RunContainer
  BY <1>1, <1>10, RunContainerStep DEF RunContainer
<1>11. CASE Connect
  BY <1>1, <1>11, ConnectStep DEF Connect
<1>12. CASE RunReturns
  BY <1>2, <1>12, SidecarRunsStep DEF RunReturns, SidecarRuns
<1>13. CASE Finished \/ UNCHANGED vars
  BY <1>1, <1>2, <1>13 DEF Finished, vars, builderVars
<1> QED
  BY <1>3, <1>4, <1>5, <1>6, <1>7, <1>8, <1>9, <1>10, <1>11, <1>12, <1>13 DEF Next

\* The inductive invariant holds in every state of every behaviour.
THEOREM Invariance == Spec => []IInv
BY InvInit, InvNext, PTL DEF Spec

\* What detect accepts the sidecar can build, unless build could not read the
\* metadata of an external chaincode (detect.go 50-63, server.go 446-459).
THEOREM DetectedIsBuildableAlways == Spec => []DetectedIsBuildable
<1>1. IInv => DetectedIsBuildable
  BY DEF IInv, BuilderInv
<1> QED BY Invariance, <1>1, PTL

\* No external chaincode is built or run in a pod (server.go 143, 582-584;
\* run.go 46-63).
THEOREM ExternalNotRunAlways == Spec => []ExternalNotRun
<1>1. IInv => ExternalNotRun
  BY DEF IInv, BuilderInv
<1> QED BY Invariance, <1>1, PTL

\* A release has the indexes of the source that build could look at and, for an
\* external chaincode whose metadata release could read, the connection with the
\* address the build made (build.go 177-183, release.go 35-67, 72-105).
THEOREM ReleaseIsCompleteAlways == Spec => []ReleaseIsComplete
<1>1. IInv => ReleaseIsComplete
  BY DEF IInv, BuilderInv
<1> QED BY Invariance, <1>1, PTL

\* The run pod finds and starts what the build pod left, in every language
\* (golang.go 25-96, java.go 25-65, node.go 25-80, executable.go 25-73).
THEOREM BuiltProgramStartsAlways == Spec => []BuiltProgramStarts
<1>1. IInv => BuiltProgramStarts
  BY DEF IInv
<1> QED BY Invariance, <1>1, PTL

\* What is started was built from the package, or is the start script of the
\* Node image (node.go 27, 52, executable.go 27).
THEOREM StartsWhatWasBuiltAlways == Spec => []StartsWhatWasBuilt
<1>1. IInv => StartsWhatWasBuilt
  BY DEF IInv
<1> QED BY Invariance, <1>1, PTL

\* Go uses the vendored dependencies exactly when the module it builds has them
\* (golang.go 27-46).
THEOREM GoModeFitsAlways == Spec => []GoModeFits
<1>1. IInv => GoModeFits
  BY DEF IInv
<1> QED BY Invariance, <1>1, PTL

-----------------------------------------------------------------------------
(***************************************************************************)
(* The address of an external chaincode.                                   *)
(***************************************************************************)

\* Any text of an address, a name or an identifier.
Text == Labels \cup {".", ":", "-", " ", "not a string"}

\* What a peer has written is what injectPeerIdentifier makes of the package.
PeerInv ==
  /\ inject \in {"absent", "hostname", "domain", "other"}
  /\ addr \in Seq(Text)
  /\ name \in [Peers -> Names]
  /\ DOMAIN conn = Peers
  /\ \A p \in Peers : Injected(p) =>
       LET id == PeerID(name[p]) IN ~Rejected(id) /\ conn[p] = Write(NewAddress(id))

-----------------------------------------------------------------------------
(* The peer's identifier. *)

\* A string has finitely many places.
LEMMA VisibleFinite ==
  ASSUME NEW s \in Seq(Text)
  PROVE  /\ Visible(s) \in SUBSET (1 .. Len(s)) /\ IsFiniteSet(Visible(s))
         /\ Cardinality(Visible(s)) \in Nat
<1>1. Len(s) \in Nat /\ DOMAIN s = 1 .. Len(s)
  BY LenProperties
<1>2. Visible(s) \in SUBSET (1 .. Len(s))
  BY <1>1 DEF Visible
<1>3. IsFiniteSet(1 .. Len(s))
  BY <1>1, FS_Interval
<1> QED BY <1>2, <1>3, FS_Subset, FS_CardinalityType

\* Places are ranked in their order, from one to their number.
LEMMA RankGrows ==
  ASSUME NEW s \in Seq(Text), NEW i \in Visible(s)
  PROVE  /\ Rank(s, i) \in 1 .. Cardinality(Visible(s))
         /\ \A j \in Visible(s) : i < j => Rank(s, i) < Rank(s, j)
<1> DEFINE Upto(j) == {k \in Visible(s) : k =< j}
<1>1. /\ Visible(s) \in SUBSET (1 .. Len(s)) /\ IsFiniteSet(Visible(s))
      /\ Len(s) \in Nat /\ Cardinality(Visible(s)) \in Nat
  BY VisibleFinite, LenProperties
<1>2. \A j : /\ IsFiniteSet(Upto(j)) /\ Cardinality(Upto(j)) \in Nat
             /\ Cardinality(Upto(j)) =< Cardinality(Visible(s))
  BY <1>1, FS_Subset, FS_CardinalityType
<1>3. \A j : Rank(s, j) = Cardinality(Upto(j))
  BY DEF Rank
<1>4. i \in Nat /\ i \in Upto(i)
  BY <1>1
<1>5. Cardinality(Upto(i)) # 0
  BY <1>2, <1>4, FS_EmptySet
<1>6. ASSUME NEW j \in Visible(s), i < j
      PROVE  Cardinality(Upto(i)) < Cardinality(Upto(j))
  <2>1. Upto(i) \in SUBSET Upto(j) /\ j \in Upto(j) /\ j \notin Upto(i)
    BY <1>1, <1>6
  <2>2. /\ Cardinality(Upto(i)) =< Cardinality(Upto(j))
        /\ Cardinality(Upto(i)) # Cardinality(Upto(j))
    BY <1>2, <2>1, FS_Subset
  <2>3. Cardinality(Upto(i)) \in Nat /\ Cardinality(Upto(j)) \in Nat
    BY <1>2
  <2> HIDE DEF Upto
  <2> QED BY <2>2, <2>3
<1>7. Cardinality(Upto(i)) \in Nat /\ Cardinality(Upto(i)) =< Cardinality(Visible(s))
  BY <1>2
<1> HIDE DEF Upto
<1>8. Rank(s, i) \in 1 .. Cardinality(Visible(s))
  BY <1>1, <1>3, <1>5, <1>7
<1> QED BY <1>3, <1>6, <1>8

\* Different places have different ranks.
LEMMA RankApart ==
  ASSUME NEW s \in Seq(Text), NEW i \in Visible(s), NEW j \in Visible(s)
  PROVE  Rank(s, i) = Rank(s, j) => i = j
<1>1. i \in Nat /\ j \in Nat
  BY VisibleFinite
<1>2. Rank(s, i) \in Nat /\ Rank(s, j) \in Nat
  BY VisibleFinite, RankGrows
<1>3. (i < j => Rank(s, i) < Rank(s, j)) /\ (j < i => Rank(s, j) < Rank(s, i))
  BY RankGrows
<1> QED BY <1>1, <1>2, <1>3

\* Every rank is taken.
LEMMA RankTaken ==
  ASSUME NEW s \in Seq(Text), NEW k \in 1 .. Cardinality(Visible(s))
  PROVE  \E i \in Visible(s) : Rank(s, i) = k
<1> DEFINE V == Visible(s)
           n == Cardinality(V)
           f == [i \in V |-> Rank(s, i)]
           I == {Rank(s, i) : i \in V}
<1>1. IsFiniteSet(V) /\ n \in Nat
  BY VisibleFinite
<1>2. I \in SUBSET (1 .. n)
  BY RankGrows
<1>3. f \in Bijection(V, I)
  BY RankApart DEF Bijection, Injection, Surjection, IsInjective
<1>4. Cardinality(I) = n
  <2> HIDE DEF f, I
  <2> QED BY <1>1, <1>3, FS_Bijection DEF ExistsBijection
<1>5. IsFiniteSet(1 .. n) /\ Cardinality(1 .. n) = n
  BY <1>1, FS_Interval
<1>6. I = 1 .. n
  <2> HIDE DEF I
  <2> QED BY <1>2, <1>4, <1>5, FS_Subset
<1> QED BY <1>6

\* The identifier has what is visible of the name, at its rank.
LEMMA PeerIDIs ==
  ASSUME NEW s \in Seq(Text)
  PROVE  /\ PeerID(s) \in Seq(Text) /\ Len(PeerID(s)) = Cardinality(Visible(s))
         /\ \A i \in Visible(s) : PeerID(s)[Rank(s, i)] = s[i]
<1> DEFINE At(k) == CHOOSE i \in Visible(s) : Rank(s, i) = k
<1>1. Cardinality(Visible(s)) \in Nat /\ \A i \in Visible(s) : s[i] \in Text
  BY VisibleFinite, ElementOfSeq
<1>2. \A k \in 1 .. Cardinality(Visible(s)) : At(k) \in Visible(s) /\ Rank(s, At(k)) = k
  BY RankTaken
<1>3. PeerID(s) = [k \in 1 .. Cardinality(Visible(s)) |-> s[At(k)]]
  BY DEF PeerID
<1> HIDE DEF At
<1>4. PeerID(s) \in Seq(Text) /\ Len(PeerID(s)) = Cardinality(Visible(s))
  BY <1>1, <1>2, <1>3
<1>5. ASSUME NEW i \in Visible(s) PROVE PeerID(s)[Rank(s, i)] = s[i]
  <2>1. Rank(s, i) \in 1 .. Cardinality(Visible(s))
    BY RankGrows
  <2>2. At(Rank(s, i)) = i
    BY <1>2, <2>1, RankApart
  <2> QED BY <1>3, <2>1, <2>2
<1> QED BY <1>4, <1>5

\* Equal identifiers come from names that are the same but for blanks.
LEMMA SameID ==
  ASSUME NEW s \in Seq(Text), NEW t \in Seq(Text), PeerID(s) = PeerID(t)
  PROVE  SameButBlanks(s, t)
<1> DEFINE n == Cardinality(Visible(s))
           f == [i \in Visible(s) |-> CHOOSE j \in Visible(t) : Rank(t, j) = Rank(s, i)]
<1>1. n \in Nat /\ Cardinality(Visible(t)) = n
  BY VisibleFinite, PeerIDIs
<1>2. ASSUME NEW i \in Visible(s)
      PROVE  f[i] \in Visible(t) /\ Rank(t, f[i]) = Rank(s, i)
  BY <1>1, RankGrows, RankTaken
<1>3. f \in [Visible(s) -> Visible(t)]
  BY <1>2
<1> HIDE DEF f
<1>4. ASSUME NEW i \in Visible(s), NEW j \in Visible(s), f[i] = f[j]
      PROVE  i = j
  BY <1>2, <1>4, RankApart
<1>5. ASSUME NEW j \in Visible(t) PROVE \E i \in Visible(s) : f[i] = j
  <2>1. PICK i \in Visible(s) : Rank(s, i) = Rank(t, j)
    BY <1>1, RankGrows, RankTaken
  <2> QED BY <1>2, <2>1, RankApart
<1>6. f \in Bijection(Visible(s), Visible(t))
  BY <1>3, <1>4, <1>5 DEF Bijection, Injection, Surjection, IsInjective
<1>7. ASSUME NEW i \in Visible(s) PROVE t[f[i]] = s[i]
  BY <1>2, PeerIDIs
<1>8. ASSUME NEW i \in Visible(s), NEW j \in Visible(s), i < j PROVE f[i] < f[j]
  <2>1. f[i] \in Nat /\ f[j] \in Nat
    BY <1>2, VisibleFinite
  <2>2. Rank(s, i) \in Nat /\ Rank(s, j) \in Nat
    BY VisibleFinite, RankGrows
  <2>3. Rank(t, f[i]) < Rank(t, f[j])
    BY <1>2, <1>8, RankGrows
  <2>4. f[j] < f[i] => Rank(t, f[j]) < Rank(t, f[i])
    BY <1>2, RankGrows
  <2>5. f[i] # f[j]
    BY <1>2, <2>2, <2>3
  <2> QED BY <1>2, <2>1, <2>2, <2>3, <2>4, <2>5
<1> QED BY <1>6, <1>7, <1>8 DEF SameButBlanks

-----------------------------------------------------------------------------
(* The address. *)

\* The last of the places below a bound.
LEMMA MaxIs ==
  ASSUME NEW n \in Nat, NEW S \in SUBSET (1 .. n), S # {}
  PROVE  Max(S) \in S /\ \A i \in S : i =< Max(S)
<1> DEFINE T == {n - i : i \in S}
<1>1. T \in SUBSET Nat /\ T # {}
  <2>1. \A i \in S : n - i \in Nat
    OBVIOUS
  <2>2. PICK i \in S : n - i \in T
    OBVIOUS
  <2> QED BY <2>1, <2>2
<1>2. PICK k \in T : \A m \in T : ~(<<m, k>> \in OpToRel(<, Nat))
  BY <1>1, NatLessThanWellFounded, WFMin
<1>3. PICK j \in S : k = n - j
  BY <1>2
<1>4. \A i \in S : ~(n - i < n - j)
  BY <1>1, <1>2, <1>3 DEF OpToRel
<1>5. \A i \in S : i =< j
  BY <1>4
<1>6. \E x \in S : \A y \in S : x >= y
  BY <1>5
<1> QED BY <1>6 DEF Max

\* A part of a string.
LEMMA PartOf ==
  ASSUME NEW s \in Seq(Text), NEW m \in 1 .. Len(s) + 1, NEW n \in m - 1 .. Len(s)
  PROVE  /\ SubSeq(s, m, n) \in Seq(Text) /\ Len(SubSeq(s, m, n)) = n - m + 1
         /\ \A i \in 1 .. n - m + 1 : SubSeq(s, m, n)[i] = s[m + i - 1]
<1>1. Len(s) \in Nat /\ m \in Int /\ n \in Int
  BY LenProperties
<1>2. \A i \in m .. n : s[i] \in Text
  BY <1>1, ElementOfSeq
<1> QED BY <1>1, <1>2, SubSeqProperties

\* A part of a string that begins after k places.
LEMMA PartAfter ==
  ASSUME NEW s \in Seq(Text), NEW k \in Nat, NEW l \in Nat, k + l =< Len(s)
  PROVE  /\ SubSeq(s, k + 1, k + l) \in Seq(Text) /\ Len(SubSeq(s, k + 1, k + l)) = l
         /\ \A i \in 1 .. l : SubSeq(s, k + 1, k + l)[i] = s[k + i]
<1>1. PICK m \in Nat, n \in Nat : m = k + 1 /\ n = k + l
  OBVIOUS
<1>2. Len(s) \in Nat
  BY LenProperties
<1>3. m \in 1 .. Len(s) + 1 /\ n \in m - 1 .. Len(s) /\ n - m + 1 = l
  BY <1>1, <1>2
<1>4. /\ SubSeq(s, m, n) \in Seq(Text) /\ Len(SubSeq(s, m, n)) = l
      /\ \A i \in 1 .. l : SubSeq(s, m, n)[i] = s[m + i - 1]
  BY <1>3, PartOf
<1>5. \A i \in 1 .. l : m + i - 1 = k + i
  BY <1>1
<1> QED BY <1>1, <1>4, <1>5

\* The beginning of a string.
LEMMA PartUpto ==
  ASSUME NEW s \in Seq(Text), NEW k \in Nat, k =< Len(s)
  PROVE  /\ SubSeq(s, 1, k) \in Seq(Text) /\ Len(SubSeq(s, 1, k)) = k
         /\ \A i \in 1 .. k : SubSeq(s, 1, k)[i] = s[i]
<1>1. Len(s) \in Nat
  BY LenProperties
<1>2. 1 \in 1 .. Len(s) + 1 /\ k \in 1 - 1 .. Len(s) /\ k - 1 + 1 = k
  BY <1>1
<1>3. \A i \in 1 .. k : 1 + i - 1 = i
  OBVIOUS
<1> QED BY <1>2, <1>3, PartOf

\* The end of a string is a suffix of it.
LEMMA SuffixIs ==
  ASSUME NEW s \in Seq(Text), NEW n \in 0 .. Len(s)
  PROVE  IsSuffix(SubSeq(s, n + 1, Len(s)), s)
<1> DEFINE t == SubSeq(s, n + 1, Len(s))
<1>1. PICK m \in 0 .. Len(s) : m = Len(s) - n
  BY LenProperties
<1>2. Len(s) \in Nat /\ m \in Nat /\ Len(s) = n + m
  BY <1>1, LenProperties
<1>3. t \in Seq(Text) /\ Len(t) = m /\ \A i \in 1 .. m : t[i] = s[n + i]
  BY <1>1, <1>2, PartOf
<1> HIDE DEF t
<1>4. /\ Reverse(t) \in Seq(Text) /\ Len(Reverse(t)) = m
      /\ \A i \in 1 .. m : Reverse(t)[i] = t[m - i + 1]
  BY <1>2, <1>3 DEF Reverse
<1>5. /\ Reverse(s) \in Seq(Text) /\ Len(Reverse(s)) = Len(s)
      /\ \A i \in 1 .. Len(s) : Reverse(s)[i] = s[Len(s) - i + 1]
  BY <1>2 DEF Reverse
<1>6. ASSUME NEW i \in 1 .. m PROVE Reverse(t)[i] = Reverse(s)[i]
  <2>1. m - i + 1 \in 1 .. m /\ i \in 1 .. Len(s) /\ n + (m - i + 1) = Len(s) - i + 1
    BY <1>2
  <2> QED BY <1>3, <1>4, <1>5, <2>1
<1> HIDE DEF t
<1>7. SubSeq(Reverse(t), 1, m) = SubSeq(Reverse(s), 1, m)
  BY <1>2, <1>4, <1>5, <1>6, PartOf, SeqEqual
<1>8. IsPrefix(Reverse(t), Reverse(s))
  BY <1>2, <1>4, <1>5, <1>7 DEF IsPrefix
<1> QED BY <1>8 DEF IsSuffix, t

\* An address that is not refused has its colon at one place.
LEMMA OneColon ==
  ASSUME addr \in Seq(Text), NEW id, ~Rejected(id)
  PROVE  \E c \in 1 .. Len(addr) : Occurrences(addr, ":") = {c} /\ Max({c}) = c /\ addr[c] = ":"
<1>1. Len(addr) \in Nat /\ Occurrences(addr, ":") \in SUBSET (1 .. Len(addr))
  BY LenProperties DEF Occurrences
<1>2. IsFiniteSet(Occurrences(addr, ":"))
  <2>1. IsFiniteSet(1 .. Len(addr))
    BY <1>1, FS_Interval
  <2> QED BY <1>1, <2>1, FS_Subset
<1>3. PICK c : Occurrences(addr, ":") = {c}
  BY <1>2, FS_Singleton DEF Rejected
<1>4. Max({c}) = c
  BY <1>1, <1>3, MaxIs
<1> QED BY <1>1, <1>3, <1>4 DEF Occurrences

\* The dots of a host, the part before the colon.
LEMMA HostOf ==
  ASSUME NEW s \in Seq(Text), NEW c \in 1 .. Len(s)
  PROVE  LET host == SubSeq(s, 1, c - 1) IN
         /\ host \in Seq(Text) /\ Len(host) = c - 1 /\ \A i \in 1 .. c - 1 : host[i] = s[i]
         /\ Occurrences(host, ".") = {i \in Occurrences(s, ".") : i < c}
<1> DEFINE host == SubSeq(s, 1, c - 1)
<1>1. Len(s) \in Nat /\ c \in Nat /\ DOMAIN s = 1 .. Len(s)
  BY LenProperties
<1>2. host \in Seq(Text) /\ Len(host) = c - 1 /\ \A i \in 1 .. c - 1 : host[i] = s[i]
  BY <1>1, PartOf
<1> HIDE DEF host
<1>3. DOMAIN host = 1 .. c - 1
  BY <1>2, LenProperties
<1>4. Occurrences(host, ".") = {i \in Occurrences(s, ".") : i < c}
  BY <1>1, <1>2, <1>3 DEF Occurrences
<1> QED BY <1>2, <1>4 DEF host

\* A part of the beginning of a string is a part of the string.
LEMMA PartOfPart ==
  ASSUME NEW s \in Seq(Text), NEW n \in 0 .. Len(s), NEW a \in 1 .. n + 1, NEW b \in a - 1 .. n
  PROVE  SubSeq(SubSeq(s, 1, n), a, b) = SubSeq(s, a, b)
<1>1. Len(s) \in Nat /\ n \in Nat /\ a \in Nat \ {0} /\ b \in Nat /\ n =< Len(s) /\ b =< n
  BY LenProperties
<1>2. PICK t : t = SubSeq(s, 1, n)
  OBVIOUS
<1>3. t \in Seq(Text) /\ Len(t) = n /\ \A i \in 1 .. n : t[i] = s[i]
  BY <1>1, <1>2, PartOf
<1>4. PICK k \in Nat : k = b - a + 1
  BY <1>1
<1>5. /\ SubSeq(t, a, b) \in Seq(Text) /\ Len(SubSeq(t, a, b)) = k
      /\ \A i \in 1 .. k : SubSeq(t, a, b)[i] = t[a + i - 1]
  BY <1>1, <1>3, <1>4, PartOf
<1>6. /\ SubSeq(s, a, b) \in Seq(Text) /\ Len(SubSeq(s, a, b)) = k
      /\ \A i \in 1 .. k : SubSeq(s, a, b)[i] = s[a + i - 1]
  <2>1. a \in 1 .. Len(s) + 1 /\ b \in a - 1 .. Len(s)
    BY <1>1
  <2> QED BY <1>4, <2>1, PartOf
<1>7. \A i \in 1 .. k : a + i - 1 \in 1 .. n
  BY <1>1, <1>4
<1>8. \A i \in 1 .. k : SubSeq(t, a, b)[i] = SubSeq(s, a, b)[i]
  BY <1>3, <1>5, <1>6, <1>7
<1>9. SubSeq(t, a, b) = SubSeq(s, a, b)
  BY <1>5, <1>6, <1>8, SeqEqual
<1> QED BY <1>2, <1>9

\* The host is cut at its last dot.
LEMMA CutAtDot ==
  ASSUME NEW host \in Seq(Text), NEW d \in 1 .. Len(host), host[d] = ".",
         d = Max(Occurrences(host, "."))
  PROVE  /\ LastItem(host, ".") = SubSeq(host, d + 1, Len(host))
         /\ TrimSuffix(host, <<".">> \o LastItem(host, ".")) = SubSeq(host, 1, d - 1)
<1>1. Len(host) \in Nat /\ DOMAIN host = 1 .. Len(host) /\ d \in Nat /\ 1 =< d /\ d =< Len(host)
  BY LenProperties
<1>2. d \in Occurrences(host, ".")
  BY <1>1 DEF Occurrences
<1>3. LastItem(host, ".") = SubSeq(host, d + 1, Len(host))
  <2>1. 1 + d = d + 1
    BY <1>1
  <2> QED BY <1>2, <2>1 DEF LastItem
<1>4. <<".">> \o SubSeq(host, d + 1, Len(host)) = SubSeq(host, d, Len(host))
  BY <1>1, SubSeqRecursiveFirst
<1>5. IsSuffix(SubSeq(host, d, Len(host)), host)
  <2>1. d - 1 \in 0 .. Len(host) /\ (d - 1) + 1 = d
    BY <1>1
  <2> QED BY <2>1, SuffixIs
<1>6. Len(SubSeq(host, d, Len(host))) = Len(host) - d + 1
  BY <1>1, PartOf
<1>7. Len(host) - (Len(host) - d + 1) = d - 1
  BY <1>1
<1> QED BY <1>3, <1>4, <1>5, <1>6, <1>7 DEF TrimSuffix

\* parseAddress of a host with a dot cuts at the last one.
LEMMA ParseWithDot ==
  ASSUME NEW s \in Seq(Text), NEW c \in 1 .. Len(s), Occurrences(s, ":") = {c}, Max({c}) = c,
         NEW D, D = {i \in Occurrences(s, ".") : i < c}, D # {}
  PROVE  /\ Max(D) \in 1 .. c - 1 /\ s[Max(D)] = "."
         /\ Parse(s) = [hostname |-> SubSeq(s, 1, Max(D) - 1),
                        domain   |-> SubSeq(s, Max(D) + 1, c - 1),
                        port     |-> SubSeq(s, c + 1, Len(s))]
<1>1. Len(s) \in Nat /\ DOMAIN s = 1 .. Len(s)
  BY LenProperties
<1>2. PICK n \in 0 .. Len(s) : n = c - 1
  BY <1>1
<1>3. PICK host : host = SubSeq(s, 1, n)
  OBVIOUS
<1>4. /\ host \in Seq(Text) /\ Len(host) = n /\ \A i \in 1 .. n : host[i] = s[i]
      /\ Occurrences(host, ".") = D
  BY <1>2, <1>3, HostOf
<1>5. PICK d \in 1 .. n : d = Max(D) /\ s[d] = "."
  <2>1. D \in SUBSET (1 .. n) /\ n \in Nat
    BY <1>1, <1>2 DEF Occurrences
  <2>2. Max(D) \in D
    BY <2>1, MaxIs
  <2> QED BY <2>1, <2>2 DEF Occurrences
<1>6. /\ LastItem(host, ".") = SubSeq(host, d + 1, n)
      /\ TrimSuffix(host, <<".">> \o LastItem(host, ".")) = SubSeq(host, 1, d - 1)
  BY <1>4, <1>5, CutAtDot
<1>7. SubSeq(host, d + 1, n) = SubSeq(s, d + 1, n) /\ SubSeq(host, 1, d - 1) = SubSeq(s, 1, d - 1)
  <2>1. d + 1 \in 1 .. n + 1 /\ n \in (d + 1) - 1 .. n /\ 1 \in 1 .. n + 1 /\ d - 1 \in 1 - 1 .. n
    BY <1>1, <1>2, <1>5
  <2> QED BY <1>3, <2>1, PartOfPart
<1> QED BY <1>2, <1>3, <1>5, <1>6, <1>7 DEF Parse

\* Without a dot all of the host is both.
LEMMA ParseWithoutDot ==
  ASSUME NEW s \in Seq(Text), NEW c \in 1 .. Len(s), Occurrences(s, ":") = {c}, Max({c}) = c,
         {i \in Occurrences(s, ".") : i < c} = {}
  PROVE  Parse(s) = [hostname |-> SubSeq(s, 1, c - 1), domain |-> SubSeq(s, 1, c - 1),
                     port |-> SubSeq(s, c + 1, Len(s))]
<1> DEFINE host == SubSeq(s, 1, c - 1)
<1>1. host \in Seq(Text) /\ Occurrences(host, ".") = {}
  BY HostOf
<1> HIDE DEF host
<1>2. LastItem(host, ".") = host
  BY <1>1 DEF LastItem
<1>3. ~IsSuffix(<<".">> \o host, host)
  <2>1. Len(host) \in Nat /\ Len(<<".">> \o host) = Len(host) + 1
    BY <1>1, LenProperties
  <2>2. /\ Len(Reverse(host)) = Len(host)
        /\ Len(Reverse(<<".">> \o host)) = Len(<<".">> \o host)
    BY <2>1 DEF Reverse
  <2> QED BY <2>1, <2>2 DEF IsSuffix, IsPrefix
<1>4. TrimSuffix(host, <<".">> \o host) = host
  BY <1>3 DEF TrimSuffix
<1> QED BY <1>2, <1>4 DEF Parse, host

\* Strings of the same length with the same elements are equal.
LEMMA SameElements ==
  ASSUME NEW x \in Seq(Text), NEW y \in Seq(Text), NEW n, Len(x) = n, Len(y) = n,
         \A i \in 1 .. n : x[i] = y[i]
  PROVE  x = y
BY SeqEqual

\* What is between two strings.
LEMMA Middle ==
  ASSUME NEW a \in Seq(Text), NEW b \in Seq(Text), NEW c \in Seq(Text),
         NEW new, new = (a \o b) \o c
  PROVE  /\ new \in Seq(Text) /\ Len(new) = Len(a) + Len(b) + Len(c)
         /\ SubSeq(new, 1, Len(a)) = a
         /\ SubSeq(new, Len(a) + 1, Len(a) + Len(b)) = b
         /\ SubSeq(new, Len(a) + Len(b) + 1, Len(new)) = c
<1>1. PICK k \in Nat, l \in Nat, m \in Nat : k = Len(a) /\ l = Len(b) /\ m = Len(c)
  BY LenProperties
<1>2. /\ a \o b \in Seq(Text) /\ Len(a \o b) = k + l
      /\ \A i \in 1 .. k + l : (a \o b)[i] = IF i <= k THEN a[i] ELSE b[i - k]
  BY <1>1, ConcatProperties
<1>3. /\ new \in Seq(Text) /\ Len(new) = k + l + m
      /\ \A i \in 1 .. k + l + m : new[i] = IF i <= k + l THEN (a \o b)[i] ELSE c[i - (k + l)]
  BY <1>1, <1>2, ConcatProperties
<1>4. SubSeq(new, 1, k) = a
  <2>1. /\ SubSeq(new, 1, k) \in Seq(Text) /\ Len(SubSeq(new, 1, k)) = k
        /\ \A i \in 1 .. k : SubSeq(new, 1, k)[i] = new[i]
    <3>1. k =< Len(new)
      BY <1>3
    <3> QED BY <1>3, <3>1, PartUpto
  <2>2. \A i \in 1 .. k : new[i] = a[i]
    BY <1>2, <1>3
  <2>3. PICK x : x = SubSeq(new, 1, k)
    OBVIOUS
  <2>4. x \in Seq(Text) /\ Len(x) = k /\ Len(a) = k
    BY <1>1, <2>1, <2>3
  <2>5. \A i \in 1 .. k : x[i] = a[i]
    BY <2>1, <2>2, <2>3, Zenon
  <2> QED BY <2>3, <2>4, <2>5, SameElements, Zenon
<1>5. SubSeq(new, k + 1, k + l) = b
  <2>1. /\ SubSeq(new, k + 1, k + l) \in Seq(Text) /\ Len(SubSeq(new, k + 1, k + l)) = l
        /\ \A i \in 1 .. l : SubSeq(new, k + 1, k + l)[i] = new[k + i]
    BY <1>3, PartAfter
  <2>2. \A i \in 1 .. l : new[k + i] = b[i]
    BY <1>2, <1>3
  <2>3. PICK x : x = SubSeq(new, k + 1, k + l)
    OBVIOUS
  <2>4. x \in Seq(Text) /\ Len(x) = l /\ Len(b) = l
    BY <1>1, <2>1, <2>3
  <2>5. \A i \in 1 .. l : x[i] = b[i]
    BY <2>1, <2>2, <2>3, Zenon
  <2> QED BY <2>3, <2>4, <2>5, SameElements, Zenon
<1>6. PICK j \in Nat : j = k + l
  OBVIOUS
<1>7. SubSeq(new, j + 1, j + m) = c
  <2>1. new \in Seq(Text) /\ Len(new) = j + m /\ j + m =< Len(new)
    BY <1>3, <1>6
  <2>2. /\ SubSeq(new, j + 1, j + m) \in Seq(Text) /\ Len(SubSeq(new, j + 1, j + m)) = m
        /\ \A i \in 1 .. m : SubSeq(new, j + 1, j + m)[i] = new[j + i]
    BY <2>1, PartAfter
  <2>3. ASSUME NEW i \in 1 .. m PROVE new[j + i] = c[i]
    <3>1. j + i \in 1 .. k + l + m /\ ~(j + i <= k + l) /\ (j + i) - (k + l) = i
      BY <1>6
    <3> QED BY <1>3, <3>1
  <2>4. PICK x : x = SubSeq(new, j + 1, j + m)
    OBVIOUS
  <2>5. x \in Seq(Text) /\ Len(x) = m /\ Len(c) = m
    BY <1>1, <2>2, <2>4
  <2>6. \A i \in 1 .. m : x[i] = c[i]
    BY <2>2, <2>3, <2>4, Zenon
  <2> QED BY <2>4, <2>5, <2>6, SameElements, Zenon
<1> QED BY <1>1, <1>3, <1>4, <1>5, <1>6, <1>7

\* The order in which three strings are put together does not matter.
LEMMA Associative ==
  ASSUME NEW s \in Seq(Text), NEW t \in Seq(Text), NEW u \in Seq(Text)
  PROVE  (s \o t) \o u = s \o (t \o u)
OBVIOUS

\* The address that the domain mode puts together is the old one with the
\* identifier after the dot at d.
LEMMA Joined ==
  ASSUME NEW s \in Seq(Text), NEW c \in 1 .. Len(s), s[c] = ":",
         NEW d \in 1 .. c - 1, s[d] = ".", NEW id \in Seq(Text)
  PROVE  SubSeq(s, 1, d - 1) \o <<".">> \o id \o <<"-">> \o SubSeq(s, d + 1, c - 1)
           \o <<":">> \o SubSeq(s, c + 1, Len(s))
         = (SubSeq(s, 1, d) \o (id \o <<"-">>)) \o SubSeq(s, d + 1, Len(s))
<1>1. PICK n \in Nat : n = Len(s)
  BY LenProperties
<1>2. /\ c \in Nat /\ d \in Nat /\ 1 =< d /\ d + 1 =< c /\ c =< n
  BY <1>1
<1>3. SubSeq(s, 1, d - 1) \o <<".">> = SubSeq(s, 1, d)
  <2>1. 1 \in 1 .. Len(s) /\ d \in 1 .. Len(s)
    BY <1>1, <1>2
  <2> QED BY <2>1, SubSeqRecursiveSecond
<1>4. SubSeq(s, d + 1, c - 1) \o <<":">> = SubSeq(s, d + 1, c)
  <2>1. d + 1 \in 1 .. Len(s) /\ c \in d + 1 .. Len(s)
    BY <1>1, <1>2
  <2> QED BY <2>1, SubSeqRecursiveSecond
<1>5. SubSeq(s, d + 1, c) \o SubSeq(s, c + 1, n) = SubSeq(s, d + 1, n)
  <2>1. d + 1 \in 1 .. Len(s) + 1 /\ c \in (d + 1) - 1 .. Len(s) /\ n \in c .. Len(s)
    BY <1>1, <1>2
  <2> QED BY <2>1, ConcatAdjacentSubSeq
<1> DEFINE a == SubSeq(s, 1, d)
           dom == SubSeq(s, d + 1, c - 1)
           port == SubSeq(s, c + 1, n)
           dash == <<"-">>
           colon == <<":">>
           b == a \o (id \o dash)
<1>6. a \in Seq(Text)
  <2>1. 1 \in 1 .. Len(s) + 1 /\ d \in 1 - 1 .. Len(s)
    BY <1>1, <1>2
  <2> QED BY <2>1, PartOf
<1>7. dom \in Seq(Text)
  <2>1. d + 1 \in 1 .. Len(s) + 1 /\ c - 1 \in (d + 1) - 1 .. Len(s)
    BY <1>1, <1>2
  <2> QED BY <2>1, PartOf
<1>8. port \in Seq(Text)
  <2>1. c + 1 \in 1 .. Len(s) + 1 /\ n \in (c + 1) - 1 .. Len(s)
    BY <1>1, <1>2
  <2> QED BY <2>1, PartOf
<1>9. "-" \in Text /\ ":" \in Text
  BY DEF Text
<1>10. dash \in Seq(Text) /\ colon \in Seq(Text)
  BY <1>9
<1> HIDE DEF a, dom, port, dash, colon
<1>11. id \o dash \in Seq(Text)
  BY <1>10, ConcatProperties
<1>12. b \in Seq(Text)
  BY <1>6, <1>11, ConcatProperties
<1>13. (a \o id) \o dash = b
  BY <1>6, <1>10, Associative
<1> HIDE DEF b
<1>14. ((b \o dom) \o colon) \o port = b \o ((dom \o colon) \o port)
  <2>1. dom \o colon \in Seq(Text)
    BY <1>7, <1>10, ConcatProperties
  <2>2. (b \o dom) \o colon = b \o (dom \o colon)
    BY <1>7, <1>10, <1>12, Associative
  <2>3. (b \o (dom \o colon)) \o port = b \o ((dom \o colon) \o port)
    BY <1>8, <1>12, <2>1, Associative
  <2> QED BY <2>2, <2>3
<1> QED BY <1>1, <1>3, <1>4, <1>5, <1>13, <1>14, Zenon DEF a, b, dom, port, dash, colon

\* The separators are strings of length one.
LEMMA SeparatorsAreText ==
  /\ <<".">> \in Seq(Text) /\ <<":">> \in Seq(Text) /\ <<"-">> \in Seq(Text)
  /\ Len(<<".">>) = 1 /\ Len(<<":">>) = 1 /\ Len(<<"-">>) = 1
<1>1. "." \in Text /\ ":" \in Text /\ "-" \in Text
  BY DEF Text
<1> QED BY <1>1

\* Equal strings are still equal without the same end.
LEMMA CancelRight ==
  ASSUME NEW x \in Seq(Text), NEW y \in Seq(Text), NEW v \in Seq(Text), x \o v = y \o v
  PROVE  x = y
<1>1. Len(x) \in Nat /\ Len(y) \in Nat /\ Len(v) \in Nat
  BY LenProperties
<1>2. Len(x) = Len(y)
  BY <1>1, ConcatProperties
<1>3. \A i \in 1 .. Len(x) : x[i] = (x \o v)[i]
  BY <1>1, ConcatProperties
<1>4. \A i \in 1 .. Len(y) : y[i] = (y \o v)[i]
  BY <1>1, ConcatProperties
<1> QED BY <1>2, <1>3, <1>4, SeqEqual

\* Equal strings are still equal without the same beginning.
LEMMA CancelLeft ==
  ASSUME NEW x \in Seq(Text), NEW y \in Seq(Text), NEW u \in Seq(Text), u \o x = u \o y
  PROVE  x = y
<1>1. Len(x) \in Nat /\ Len(y) \in Nat /\ Len(u) \in Nat
  BY LenProperties
<1>2. Len(x) = Len(y)
  BY <1>1, ConcatProperties
<1>3. \A i \in 1 .. Len(x) : x[i] = (u \o x)[Len(u) + i]
  BY <1>1, ConcatProperties
<1>4. \A i \in 1 .. Len(y) : y[i] = (u \o y)[Len(u) + i]
  BY <1>1, ConcatProperties
<1> QED BY <1>2, <1>3, <1>4, SeqEqual

\* An address of the domain mode, from its parts.
Join(h, id, dom, port) ==
  h \o <<".">> \o id \o <<"-">> \o dom \o <<":">> \o port

\* A string with a separator after it.
LEMMA Followed ==
  ASSUME NEW x \in Seq(Text), NEW c \in {".", ":", "-"}
  PROVE  x \o <<c>> \in Seq(Text) /\ Len(x \o <<c>>) = Len(x) + 1
BY SeparatorsAreText, ConcatProperties

\* The pieces of such an address, one after the other, and its length.
LEMMA JoinIs ==
  ASSUME NEW h \in Seq(Text), NEW id \in Seq(Text), NEW dom \in Seq(Text), NEW port \in Seq(Text)
  PROVE  /\ h \o <<".">> \in Seq(Text)
         /\ h \o <<".">> \o id \in Seq(Text)
         /\ h \o <<".">> \o id \o <<"-">> \in Seq(Text)
         /\ h \o <<".">> \o id \o <<"-">> \o dom \in Seq(Text)
         /\ h \o <<".">> \o id \o <<"-">> \o dom \o <<":">> \in Seq(Text)
         /\ Join(h, id, dom, port) \in Seq(Text)
         /\ Len(Join(h, id, dom, port)) = Len(h) + Len(id) + Len(dom) + Len(port) + 3
<1> DEFINE a == h \o <<".">>
           b == a \o id
           c == b \o <<"-">>
           d == c \o dom
           e == d \o <<":">>
           f == e \o port
<1>1. a \in Seq(Text) /\ Len(a) = Len(h) + 1
  BY Followed
<1> HIDE DEF a
<1>2. b \in Seq(Text) /\ Len(b) = Len(a) + Len(id)
  BY <1>1, ConcatProperties
<1> HIDE DEF b
<1>3. c \in Seq(Text) /\ Len(c) = Len(b) + 1
  BY <1>2, Followed
<1> HIDE DEF c
<1>4. d \in Seq(Text) /\ Len(d) = Len(c) + Len(dom)
  BY <1>3, ConcatProperties
<1> HIDE DEF d
<1>5. e \in Seq(Text) /\ Len(e) = Len(d) + 1
  BY <1>4, Followed
<1> HIDE DEF e
<1>6. f \in Seq(Text) /\ Len(f) = Len(e) + Len(port)
  BY <1>5, ConcatProperties
<1> HIDE DEF f
<1>7. Len(h) \in Nat /\ Len(id) \in Nat /\ Len(dom) \in Nat /\ Len(port) \in Nat
  BY LenProperties
<1>8. Len(f) = Len(h) + Len(id) + Len(dom) + Len(port) + 3
  <2>1. Len(c) = Len(h) + 1 + Len(id) + 1
    BY <1>1, <1>2, <1>3
  <2>2. Len(f) = Len(c) + Len(dom) + 1 + Len(port)
    BY <1>4, <1>5, <1>6
  <2>3. Len(f) = Len(h) + 1 + Len(id) + 1 + Len(dom) + 1 + Len(port)
    BY <2>1, <2>2, Zenon
  <2> QED BY <1>7, <2>3
<1> QED BY <1>1, <1>2, <1>3, <1>4, <1>5, <1>6, <1>8, Zenon DEF Join, a, b, c, d, e, f

\* With the same host and port, the identifier can be told from the address.
LEMMA JoinApart ==
  ASSUME NEW h \in Seq(Text), NEW i \in Seq(Text), NEW j \in Seq(Text),
         NEW dom \in Seq(Text), NEW port \in Seq(Text),
         Join(h, i, dom, port) = Join(h, j, dom, port)
  PROVE  i = j
<1>1. <<".">> \in Seq(Text) /\ <<"-">> \in Seq(Text) /\ <<":">> \in Seq(Text)
  BY SeparatorsAreText
<1>2. h \o <<".">> \o i \o <<"-">> \o dom \o <<":">>
      = h \o <<".">> \o j \o <<"-">> \o dom \o <<":">>
  BY JoinIs, CancelRight DEF Join
<1>3. h \o <<".">> \o i \o <<"-">> \o dom = h \o <<".">> \o j \o <<"-">> \o dom
  BY <1>1, <1>2, JoinIs, CancelRight
<1>4. h \o <<".">> \o i \o <<"-">> = h \o <<".">> \o j \o <<"-">>
  BY <1>3, JoinIs, CancelRight
<1>5. h \o <<".">> \o i = h \o <<".">> \o j
  BY <1>1, <1>4, JoinIs, CancelRight
<1> QED BY <1>5, JoinIs, CancelLeft

-----------------------------------------------------------------------------
(* What the peers write. *)

\* The addresses a package may have.
LEMMA StringsAreText == \A n \in Nat : Strings(n) \in SUBSET Seq(Text)
<1> SUFFICES ASSUME NEW n \in Nat, NEW k \in 0 .. n, NEW s \in [1 .. k -> Labels \cup {".", ":"}]
             PROVE  s \in Seq(Text)
  BY DEF Strings
<1>1. s \in [1 .. k -> Text]
  BY DEF Text
<1> QED BY <1>1

\* The names and what is left of them.
LEMMA NamesAreText == \A s \in Names : s \in Seq(Text) /\ PeerID(s) \in Seq(Text)
<1> SUFFICES ASSUME NEW s \in Names PROVE s \in Seq(Text)
  BY PeerIDIs
<1>1. Labels \cup {" "} \subseteq Text
  BY DEF Text
<1>2. s \in Seq(Labels \cup {" "})
  BY PeerAddressAssumption
<1> QED BY <1>1, <1>2, SeqMonotonic

\* Nothing is written at first.
LEMMA PeerInvInit == PeerInit => PeerInv
<1> SUFFICES ASSUME PeerInit PROVE PeerInv
  OBVIOUS
<1>1. addr \in Seq(Text)
  <2>1. NoString \in Seq(Text)
    <3>1. \A x \in Text : <<x>> \in Seq(Text)
      OBVIOUS
    <3>2. "not a string" \in Text
      BY Zenon DEF Text
    <3> QED BY <3>1, <3>2, Zenon DEF NoString
  <2> QED BY <2>1, StringsAreText, PeerAddressAssumption DEF PeerInit
<1>2. \A p \in Peers : ~Injected(p)
  BY DEF PeerInit, Injected
<1> QED BY <1>1, <1>2 DEF PeerInit, PeerInv

\* A peer writes its own address and disturbs no other.
LEMMA PeerInvNext == PeerInv /\ [PeerNext]_peerVars => PeerInv'
<1> SUFFICES ASSUME PeerInv, [PeerNext]_peerVars PROVE PeerInv'
  OBVIOUS
<1>1. ASSUME NEW p \in Peers, InjectPeerIdentifier(p) PROVE PeerInv'
  <2> DEFINE id == PeerID(name[p])
  <2>1. UNCHANGED <<inject, addr, name>> /\ DOMAIN conn' = Peers
    BY <1>1 DEF InjectPeerIdentifier, PeerInv
  <2>2. \A q \in Peers \ {p} : conn'[q] = conn[q]
    BY <1>1 DEF InjectPeerIdentifier, PeerInv
  <2>3. conn'[p] = IF inject = "absent" THEN Write(addr)
                   ELSE IF Rejected(id) THEN Fail ELSE Write(NewAddress(id))
    BY <1>1 DEF InjectPeerIdentifier, PeerInv
  <2>4. Injected(p)' => ~Rejected(id) /\ conn'[p] = Write(NewAddress(id))
    BY <2>1, <2>3 DEF Injected, Fail
  <2>5. \A q : /\ Rejected(PeerID(name[q]))' <=> Rejected(PeerID(name'[q]))
               /\ Write(NewAddress(PeerID(name[q])))' = Write(NewAddress(PeerID(name'[q])))
    BY <2>1 DEF Rejected, NewAddress, Write
  <2>6. ASSUME NEW q \in Peers, Injected(q)'
        PROVE  (~Rejected(PeerID(name[q])) /\ conn[q] = Write(NewAddress(PeerID(name[q]))))'
    <3>1. CASE q = p
      <4>1. name'[q] = name[p] /\ ~Rejected(id) /\ conn'[q] = Write(NewAddress(id))
        BY <2>1, <2>4, <2>6, <3>1
      <4> QED BY <2>5, <4>1, Zenon DEF id
    <3>2. CASE q # p
      <4>1. Injected(q)
        BY <2>1, <2>2, <2>6, <3>2 DEF Injected
      <4>2. name'[q] = name[q] /\ conn'[q] = conn[q]
        BY <2>1, <2>2, <3>2
      <4>3. ~Rejected(PeerID(name[q])) /\ conn[q] = Write(NewAddress(PeerID(name[q])))
        BY <4>1, Zenon DEF PeerInv
      <4> QED BY <2>5, <4>2, <4>3, Zenon
    <3> QED BY <3>1, <3>2
  <2>7. inject' = inject /\ addr' = addr /\ name' = name
    BY <2>1
  <2> QED BY <2>1, <2>6, <2>7, Zenon DEF PeerInv
<1>2. CASE UNCHANGED peerVars
  BY <1>2 DEF peerVars, PeerInv, Injected, Rejected, NewAddress, Write
<1> QED BY <1>1, <1>2 DEF PeerNext, PeersFinished

\* What the invariant says of a peer that has injected its identifier.
LEMMA WrittenIs ==
  ASSUME PeerInv, NEW p \in Peers, Injected(p)
  PROVE  /\ PeerID(name[p]) \in Seq(Text) /\ addr \in Seq(Text)
         /\ ~Rejected(PeerID(name[p]))
         /\ conn[p].address = NewAddress(PeerID(name[p]))
BY NamesAreText DEF PeerInv, Write

\* The identifier stands in front of one label of the address.
LEMMA OneLabelFromInv == PeerInv => OneLabelChanged
<1> SUFFICES ASSUME PeerInv, NEW p \in Peers, Injected(p),
                    inject = "domain" => HostDots # {}
             PROVE  LET dashed == PeerID(name[p]) \o <<"-">>
                        head == IF inject = "hostname" THEN 0 ELSE Max(HostDots)
                        new == conn[p].address
                    IN /\ SubSeq(new, head + 1, head + Len(dashed)) = dashed
                       /\ SubSeq(new, 1, head) \o SubSeq(new, head + Len(dashed) + 1, Len(new))
                            = addr
  BY Zenon DEF OneLabelChanged
<1>0. PICK dashed, head, new :
        /\ dashed = PeerID(name[p]) \o <<"-">>
        /\ head = IF inject = "hostname" THEN 0 ELSE Max(HostDots)
        /\ new = conn[p].address
  OBVIOUS
<1> SUFFICES /\ SubSeq(new, head + 1, head + Len(dashed)) = dashed
             /\ SubSeq(new, 1, head) \o SubSeq(new, head + Len(dashed) + 1, Len(new)) = addr
  BY <1>0, Zenon
<1>1. PICK id, s : id = PeerID(name[p]) /\ s = addr
  OBVIOUS
<1>2. id \in Seq(Text) /\ s \in Seq(Text) /\ ~Rejected(id) /\ new = NewAddress(id)
  BY <1>0, <1>1, WrittenIs
<1>3. dashed \in Seq(Text) /\ dashed = id \o <<"-">>
  BY <1>0, <1>1, <1>2, Followed
<1>4. CASE inject = "hostname"
  <2>1. head = 0 /\ new = dashed \o s
    BY <1>0, <1>1, <1>2, <1>3, <1>4 DEF NewAddress
  <2>2. << >> \in Seq(Text) /\ Len(<< >>) = 0 /\ << >> \o dashed = dashed
    BY <1>3, EmptySeq, ConcatEmptySeq
  <2>3. new = (<< >> \o dashed) \o s
    BY <2>1, <2>2
  <2>4. /\ SubSeq(new, 1, 0) = << >> /\ SubSeq(new, 0 + 1, 0 + Len(dashed)) = dashed
        /\ SubSeq(new, 0 + Len(dashed) + 1, Len(new)) = s
    BY <1>2, <1>3, <2>2, <2>3, Middle
  <2>5. << >> \o s = s
    BY <1>2, ConcatEmptySeq
  <2> QED BY <1>1, <2>1, <2>4, <2>5
<1>5. CASE inject = "domain"
  <2>1. PICK c \in 1 .. Len(s) : Occurrences(s, ":") = {c} /\ Max({c}) = c /\ s[c] = ":"
    BY <1>1, <1>2, OneColon
  <2>2. PICK D : D = HostDots
    OBVIOUS
  <2>3. D = {i \in Occurrences(s, ".") : i < c} /\ D # {} /\ head = Max(D)
    BY <1>0, <1>1, <1>5, <2>1, <2>2 DEF HostDots
  <2>4. PICK d \in 1 .. c - 1 : d = Max(D)
    BY <1>2, <2>1, <2>3, ParseWithDot
  <2>5. /\ s[d] = "."
        /\ Parse(s) = [hostname |-> SubSeq(s, 1, d - 1), domain |-> SubSeq(s, d + 1, c - 1),
                       port |-> SubSeq(s, c + 1, Len(s))]
    BY <1>2, <2>1, <2>3, <2>4, ParseWithDot
  <2>6. new = SubSeq(s, 1, d - 1) \o <<".">> \o id \o <<"-">> \o SubSeq(s, d + 1, c - 1)
                \o <<":">> \o SubSeq(s, c + 1, Len(s))
    <3>1. PICK f : f = Parse(s)
      OBVIOUS
    <3>2. new = f.hostname \o <<".">> \o id \o <<"-">> \o f.domain \o <<":">> \o f.port
      BY <1>1, <1>2, <1>5, <3>1 DEF NewAddress
    <3>3. f.hostname = SubSeq(s, 1, d - 1) /\ f.domain = SubSeq(s, d + 1, c - 1)
          /\ f.port = SubSeq(s, c + 1, Len(s))
      BY <2>5, <3>1
    <3> QED BY <3>2, <3>3, Zenon
  <2>7. new = (SubSeq(s, 1, d) \o dashed) \o SubSeq(s, d + 1, Len(s))
    BY <1>2, <1>3, <2>1, <2>5, <2>6, Joined
  <2>8. Len(s) \in Nat /\ d \in Nat /\ 1 =< d /\ d =< Len(s)
    BY <1>2, <2>1, LenProperties
  <2>9. /\ SubSeq(s, 1, d) \in Seq(Text) /\ Len(SubSeq(s, 1, d)) = d
        /\ SubSeq(s, d + 1, Len(s)) \in Seq(Text)
    <3>1. 1 \in 1 .. Len(s) + 1 /\ d \in 1 - 1 .. Len(s) /\ d - 1 + 1 = d
      BY <2>8
    <3>2. d + 1 \in 1 .. Len(s) + 1 /\ Len(s) \in (d + 1) - 1 .. Len(s)
      BY <2>8
    <3> QED BY <1>2, <3>1, <3>2, PartOf
  <2>10. /\ SubSeq(new, 1, d) = SubSeq(s, 1, d)
         /\ SubSeq(new, d + 1, d + Len(dashed)) = dashed
         /\ SubSeq(new, d + Len(dashed) + 1, Len(new)) = SubSeq(s, d + 1, Len(s))
    <3>1. PICK x, y : x = SubSeq(s, 1, d) /\ y = SubSeq(s, d + 1, Len(s))
      OBVIOUS
    <3>2. x \in Seq(Text) /\ y \in Seq(Text) /\ new = (x \o dashed) \o y /\ Len(x) = d
      BY <2>7, <2>9, <3>1
    <3>3. /\ SubSeq(new, 1, Len(x)) = x
          /\ SubSeq(new, Len(x) + 1, Len(x) + Len(dashed)) = dashed
          /\ SubSeq(new, Len(x) + Len(dashed) + 1, Len(new)) = y
      <4>1. dashed \in Seq(Text) /\ x \in Seq(Text) /\ y \in Seq(Text)
        BY <1>3, <3>2
      <4>2. new = (x \o dashed) \o y
        BY <3>2
      <4> QED BY <4>1, <4>2, Middle
    <3> QED BY <3>1, <3>2, <3>3, Zenon
  <2>11. SubSeq(s, 1, d) \o SubSeq(s, d + 1, Len(s)) = s
    <3>1. 1 \in 1 .. Len(s) + 1 /\ d \in 1 - 1 .. Len(s) /\ Len(s) \in d .. Len(s)
      BY <2>8
    <3> QED BY <1>2, <3>1, ConcatAdjacentSubSeq, SubSeqFull
  <2> QED BY <1>1, <2>3, <2>4, <2>10, <2>11
<1> QED BY <1>4, <1>5 DEF Injected

\* The address that a peer writes, from the parts of the package's.
LEMMA DomainAddress ==
  ASSUME PeerInv, NEW p \in Peers, Injected(p), inject = "domain"
  PROVE  \E h, dom, port \in Seq(Text) :
           /\ \A q \in Peers : Injected(q) =>
                conn[q].address = Join(h, PeerID(name[q]), dom, port)
           /\ Len(h) + Len(dom) + Len(port) + 2 >= Len(addr)
<1>1. PICK s : s = addr
  OBVIOUS
<1>2. s \in Seq(Text) /\ ~Rejected(PeerID(name[p]))
  BY <1>1, WrittenIs
<1>3. PICK c \in 1 .. Len(s) : Occurrences(s, ":") = {c} /\ Max({c}) = c
  BY <1>1, <1>2, OneColon
<1>4. PICK f : f = Parse(s)
  OBVIOUS
<1>5. Len(s) \in Nat /\ c \in Nat /\ 1 =< c /\ c =< Len(s)
  BY <1>2, LenProperties
<1>6. /\ f.hostname \in Seq(Text) /\ f.domain \in Seq(Text) /\ f.port \in Seq(Text)
      /\ Len(f.hostname) + Len(f.domain) + Len(f.port) + 2 >= Len(s)
  <2>1. SubSeq(s, c + 1, Len(s)) \in Seq(Text) /\ Len(SubSeq(s, c + 1, Len(s))) = Len(s) - c
    <3>1. c + 1 \in 1 .. Len(s) + 1 /\ Len(s) \in (c + 1) - 1 .. Len(s)
          /\ Len(s) - (c + 1) + 1 = Len(s) - c
      BY <1>5
    <3> QED BY <1>2, <3>1, PartOf
  <2>2. PICK D : D = {i \in Occurrences(s, ".") : i < c}
    OBVIOUS
  <2>3. CASE D = {}
    <3>1. f.hostname = SubSeq(s, 1, c - 1) /\ f.domain = SubSeq(s, 1, c - 1)
          /\ f.port = SubSeq(s, c + 1, Len(s))
      BY <1>2, <1>3, <1>4, <2>2, <2>3, ParseWithoutDot
    <3>2. SubSeq(s, 1, c - 1) \in Seq(Text) /\ Len(SubSeq(s, 1, c - 1)) = c - 1
      BY <1>2, HostOf
    <3>3. (c - 1) + (c - 1) + (Len(s) - c) + 2 >= Len(s)
      BY <1>5
    <3> QED BY <2>1, <3>1, <3>2, <3>3
  <2>4. CASE D # {}
    <3>1. PICK d \in 1 .. c - 1 : d = Max(D)
      BY <1>2, <1>3, <2>2, <2>4, ParseWithDot
    <3>2. f.hostname = SubSeq(s, 1, d - 1) /\ f.domain = SubSeq(s, d + 1, c - 1)
          /\ f.port = SubSeq(s, c + 1, Len(s))
      <4>1. Parse(s) = [hostname |-> SubSeq(s, 1, d - 1), domain |-> SubSeq(s, d + 1, c - 1),
                        port |-> SubSeq(s, c + 1, Len(s))]
        BY <1>2, <1>3, <2>2, <2>4, <3>1, ParseWithDot
      <4> QED BY <1>4, <4>1
    <3>3. d \in Nat /\ 1 =< d /\ d =< c - 1
      BY <1>5
    <3>4. SubSeq(s, 1, d - 1) \in Seq(Text) /\ Len(SubSeq(s, 1, d - 1)) = d - 1
      <4>1. 1 \in 1 .. Len(s) + 1 /\ d - 1 \in 1 - 1 .. Len(s) /\ (d - 1) - 1 + 1 = d - 1
        BY <1>5, <3>3
      <4> QED BY <1>2, <4>1, PartOf
    <3>5. /\ SubSeq(s, d + 1, c - 1) \in Seq(Text)
          /\ Len(SubSeq(s, d + 1, c - 1)) = (c - 1) - d
      <4>1. d + 1 \in 1 .. Len(s) + 1 /\ c - 1 \in (d + 1) - 1 .. Len(s)
            /\ (c - 1) - (d + 1) + 1 = (c - 1) - d
        BY <1>5, <3>3
      <4> QED BY <1>2, <4>1, PartOf
    <3>6. (d - 1) + ((c - 1) - d) + (Len(s) - c) + 2 >= Len(s)
      BY <1>5, <3>3
    <3> QED BY <2>1, <3>2, <3>4, <3>5, <3>6
  <2> QED BY <2>3, <2>4
<1>7. ASSUME NEW q \in Peers, Injected(q)
      PROVE  conn[q].address = Join(f.hostname, PeerID(name[q]), f.domain, f.port)
  <2>1. conn[q].address = NewAddress(PeerID(name[q]))
    BY <1>7, WrittenIs
  <2>2. inject = "domain" /\ inject # "hostname"
    OBVIOUS
  <2> QED BY <1>1, <1>4, <2>1, <2>2 DEF NewAddress, Join
<1> QED BY <1>1, <1>6, <1>7

\* What two peers write differs as their names do.
LEMMA PeersApartFromInv == PeerInv => PeersApart
<1> SUFFICES ASSUME PeerInv, NEW p \in Peers, NEW q \in Peers, Injected(p), Injected(q)
             PROVE  /\ conn[p] = conn[q] => SameButBlanks(name[p], name[q])
                    /\ conn[p].address # addr
  BY Zenon DEF PeersApart
<1>1. PICK s, i, j : s = addr /\ i = PeerID(name[p]) /\ j = PeerID(name[q])
  OBVIOUS
<1>2. s \in Seq(Text) /\ i \in Seq(Text) /\ j \in Seq(Text)
  BY <1>1, WrittenIs
<1>3. Len(s) \in Nat /\ Len(i) \in Nat
  BY <1>2, LenProperties
<1>4. (conn[p].address = conn[q].address => i = j) /\ conn[p].address # s
  <2>1. CASE inject = "hostname"
    <3>1. conn[p].address = i \o <<"-">> \o s /\ conn[q].address = j \o <<"-">> \o s
      BY <1>1, <2>1, WrittenIs DEF NewAddress
    <3>2. /\ i \o <<"-">> \in Seq(Text) /\ Len(i \o <<"-">>) = Len(i) + 1
          /\ j \o <<"-">> \in Seq(Text) /\ <<"-">> \in Seq(Text)
      BY <1>2, Followed, SeparatorsAreText
    <3>3. i \o <<"-">> \o s = j \o <<"-">> \o s => i = j
      BY <1>2, <3>2, CancelRight
    <3>4. Len(i \o <<"-">> \o s) = Len(i) + 1 + Len(s)
      BY <1>2, <3>2, ConcatProperties
    <3>5. Len(i) + 1 + Len(s) # Len(s)
      BY <1>3
    <3> QED BY <3>1, <3>3, <3>4, <3>5, Zenon
  <2>2. CASE inject = "domain"
    <3>1. PICK h, dom, port \in Seq(Text) :
            /\ conn[p].address = Join(h, i, dom, port)
            /\ conn[q].address = Join(h, j, dom, port)
            /\ Len(h) + Len(dom) + Len(port) + 2 >= Len(s)
      BY <1>1, <2>2, DomainAddress
    <3>2. Join(h, i, dom, port) = Join(h, j, dom, port) => i = j
      BY <1>2, JoinApart
    <3>3. Len(Join(h, i, dom, port)) = Len(h) + Len(i) + Len(dom) + Len(port) + 3
      BY <1>2, JoinIs
    <3>4. Len(h) \in Nat /\ Len(dom) \in Nat /\ Len(port) \in Nat
      BY LenProperties
    <3>5. Len(h) + Len(i) + Len(dom) + Len(port) + 3 # Len(s)
      BY <1>3, <3>1, <3>4
    <3> QED BY <3>1, <3>2, <3>3, <3>5, Zenon
  <2> QED BY <2>1, <2>2 DEF Injected
<1>5. name[p] \in Seq(Text) /\ name[q] \in Seq(Text)
  BY NamesAreText DEF PeerInv
<1>6. i = j => SameButBlanks(name[p], name[q])
  BY <1>1, <1>5, SameID
<1> QED BY <1>1, <1>4, <1>6

-----------------------------------------------------------------------------
\* What a peer has written is what injectPeerIdentifier made of the address of
\* the package and of its own name, and not an address it should have refused.
THEOREM PeerInvariance == PeerSpec => []PeerInv
BY PeerInvInit, PeerInvNext, PTL DEF PeerSpec

\* Whatever the address and the names, an injected identifier stands with its dash
\* in front of one label, and without it the address is the package's, port
\* included: parseAddress and fmt.Sprintf lose and swap nothing (build.go 207-235,
\* 251-267).
THEOREM OneLabelChangedAlways == PeerSpec => []OneLabelChanged
BY PeerInvariance, OneLabelFromInv, PTL

\* Whatever the address and however many peers there are, two of them share an
\* injected address only if their names are the same but for blanks, and none
\* keeps the address of the package (build.go 207-235, 269-275).
THEOREM PeersApartAlways == PeerSpec => []PeersApart
BY PeerInvariance, PeersApartFromInv, PTL
=============================================================================
