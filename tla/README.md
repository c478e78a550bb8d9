# Verification of the Fabric chaincode builder

TLA+ specifications of the program that builds and runs Hyperledger Fabric
chaincode as Kubernetes pods: the sidecar (`cmd/ibp-builder`, `pkg/k8sbuilder`,
`pkg/pod`, `pkg/filetransfer`), the client a peer calls (`cmd/ibp-builder-client`,
`pkg/command`, `pkg/fs`) and the pods between them, with the TLC configurations
that check them and TLAPS proofs of their safety properties. `PROJECT.json` maps
every definition to the lines it models.

## The system

A Fabric peer calls the client (`cmd/ibp-builder-client`) as its external
builder; the client puts its inputs in a directory shared with the sidecar and
calls the sidecar's gRPC services. The sidecar creates one bare pod for each
call; the pod's containers fetch and store files over the sidecar's HTTPS file
server. A crypto secret with the chaincode's key is created for each run.

| Component | State it keeps | Operations | What makes it correct |
|---|---|---|---|
| `executePod` (`server.go` 213-326) | watch, event in hand, `activeLogStreams`, wait group | open watch, create pod, set owner reference, event loop, `streamLogs`, deferred clean-up | the answer is the pod's fate; log lines neither lost silently nor sent twice; no goroutine uses the stream after a return for the pod's end; build pods are deleted; the call ends |
| `Build`, `Run` (85-183, 656-781) | UUID, result, deferred function | read metadata, create secret, define container, execute pod, delete secret | secrets are deleted or owned; a pod keeps the secret it mounts; nil means success |
| Main program (`main.go`, `pod/handler.go`, `pkg/tls`) | credentials, `cert.pem`, `key.pem`, list of completed pods | list, delete, make and store the certificate, listen, serve | only completed pods are deleted; the sidecar always gets to serve; its own pods, and only they, can use the file server |
| Stream wrappers (`server.go` 117-133, 185-201) | mutex | `Send`, `Log` | messages are not mixed; no `Log` blocks for ever |
| File transfer (`filetransfer/handler.go`) | files below the shared directory | GET, PUT, health | a file is created once, 201 means a whole file, a reader sees one upload |
| Client commands (`pkg/command`) | temporary directory, output directory | detect, build, release, run | exit status tells the truth; the output is complete; temporary files are removed; commands end |
| Container templates (`golang.go`, `java.go`, `node.go`, `executable.go`) | volume, archive | build and run scripts, mounts, environment, secret | the run finds what the build left |
| Archives and copies (`pkg/fs`) | files | `CreateTar`, `ExtractTar`, `CopyDir`, `UpdateFile` | extract after create gives the tree back, times included |
| Logger, generated gRPC code | none | - | - |

Interaction: client to sidecar by gRPC with a stream of log lines back; sidecar
to Kubernetes by requests, a watch and log streams, each of which may fail or
be carried out although its answer is lost; pods to sidecar by HTTPS.

Hard behaviours: the handler goroutine runs concurrently with one log goroutine
for each container, with the pod, with the API server's late and merged events
and with a client that may cancel; early returns leave goroutines and pods behind,
and a pod that outlives its call still talks to the file server while the client
removes its directory; any request or file operation may fail between two others,
and the scripts in the pods overlook some failures; the process may crash between
any two steps, and restarts with a clean-up, other credentials and another
certificate. `PROJECT.json` lists each as a hazard at its line, with the
properties that would catch it going wrong.

## Modules

- `ExecutePod` - one call of `executePod` in full. `pc` is the handler's
  position: `watch`, `create`, `reference`, then `loop` (the select), `scan`
  (the loop over container statuses, at `idx` of the event `cur`), `wait`
  (`wg.Wait`), `closing` and `delete` (deferred functions), `returned`.
  `streamer[c]`, `pos[c]`, `sent[c]` are the log goroutine of container `c`.
  `kubelet` is the pod's status on its node, `api` what the API server holds,
  `events` what the watch still has to deliver: the three differ, which is where
  the hazards are. Containers and lines are numbered; a `Send` is one step
  because the stream wrappers hold a mutex.
- `PodExecution` - what `executePod` promises: at most one pod, one answer,
  backed by the pod's phase, no deletion of a run pod. `ExecutePod!Promise` is the
  refinement mapping (the result counts once returned; the phase is the API
  server's).
- `Server` - any number of concurrent `Build` and `Run` calls, each with its
  secret and pod, the sidecar's crash, restart and startup clean-up. Every
  request that changes an object has three outcomes: `ok`, `refused`, and `lost`
  (carried out, but an error is returned). The event loop of `executePod` is the
  step `Await`, with the answers `PodExecution` allows; `errAwait` stands for
  the returns for the context, the watch and error events.
- `SerializedStream` - the goroutines that send on one gRPC stream through the
  wrapper: `Log`, `Lock`, a `Send` in two parts that may fail at each, the
  deferred `Unlock`. It is why `ExecutePod` may take a `Send` for one step.
- `Startup` - `main` from its flags to serving, one step for each thing that may
  fail, with its exit status. Credentials, certificates and keys are named by the
  start that made them; the two files are opened (truncated) and written in
  separate steps, so a crash leaves any mixture of old, empty and new.
  `ServeTLS` is given file names, so the server uses what it reads back.
- `FileTransfer` - `ServeHTTP` for any number of concurrent requests. A location
  names an inode, so that removing a file leaves what is open alone; an inode
  records which request wrote each chunk. `os.RemoveAll` of a client is two
  actions, `RemoveFile` and `RemoveDir`.
- `Pipeline` - the whole way of a chaincode: the client's build and run commands
  step by step, the call, the pod's containers in their order, the temporary
  directory, the sidecar's crash and restart, a client that is killed. Here
  `Server` and `ExecutePod` are two steps (`CreatePod`, `EndCall`, with the answers
  `PodExecution` allows), `Startup` two (`Restart`, `ListenFiles`) and
  `FileTransfer` the transfers. `masked` records the jobs in which the status of
  curl was lost: in `curl | tar` it is tar's that counts, and an upload is made
  without `--fail`. The deferred `RemoveAll` is `RemoveEntries` and `RemoveDirectory`,
  or `RemoveFails`, whose error nobody sees.
- `Builder` - detect, build, release and run of one package, each of which calls
  `IsExternalCC` anew, and the type switches of client and sidecar. `unread`
  records the commands that could not read a `metadata.json` that is there, and
  whether build could not look at the source's META-INF (`dirExists`).
- `Containers` - extends `Builder` with the pods between a call and its end: mounts,
  scripts, archive, environment and secret for the four languages. Mounts are
  pairs of a container's directory and a volume's; a volume mounted at a directory
  hides what the image has there.
- `PeerAddress` - `injectPeerIdentifier` and `parseAddress` on strings of labels and
  separators, at several peers. What `getPeerID` leaves of a name is defined by the
  rank of what is not blank, which needs no recursion.
- `Archive` - `CreateTar` then `ExtractTar`, or `CopyDir`, one file operation at a
  time, any of which may fail. Creating an entry sets its directory's time.
- `ExecutePodProofs`, `ServerProofs`, `SerializedStreamProofs`, `StartupProofs`,
  `FileTransferProofs`, `PipelineProofs`, `ChaincodeProofs` (`Builder`, `Containers` and
  `PeerAddress`), `ArchiveProofs` - inductive invariants and theorems.
- `MCExecutePod`, `MCFileTransfer`, `MCArchive`, `MCPeerAddress` - the modules TLC runs
  where symmetry or a constant needs a definition; the other modules are run as
  they are.

Operators marked "Fault" are plausible bugs of the definition that follows
them. They are used in no specification: replacing the definition by its fault
must break the property that `PROJECT.json` names for it.

## Runs

| Run | Instance | Shows |
|---|---|---|
| `execute_pod` | 2 containers, 1 line each; 3.1 million states | `ResultMatchesPod`, `NoSilentLogLoss`, `NoDuplicateLines`, `NoLateSender`, `BuildPodReclaimed`, and `KeepsPromise` (refinement of `PodExecution`) |
| `execute_pod_live` | 1 container, 1 line | `TerminatedPodReturns`, `CancelReturns` |
| `server` | 2 calls, 1 crash; 548,772 states | `SecretReclaimed`, `PodKeepsSecret`, `AwaitedPodOwnsSecret`, `SuccessIsReal`, `StartupSparesPods`, `OwnedSecretKept`, `CallsEnd`, `StartupEnds` |
| `secret_comment` | 1 call | `DoNothingIfDeleted`: the comment in `deleteCryptoSecret` does not hold |
| `serialized_stream` | 3 goroutines, 2 lines each; 10,781 states | `MessagesWhole`, `LogReturns` |
| `file_transfer` | 3 requests of any kind, 1 location, 2 chunks; 34,584 states | `CreatedIsWhole`, `ReadOfOneUpload`, `StoredForGood`, `ReadAfterCreated` |
| `pipeline` | 1 job, 2 crashes; 8,182 states | `SuccessIsWhole`, `SuccessLeavesNothing`, `AwaitedPodIsKnown`, `RemovedForGood`, `CommandsEnd` |
| `build_output_test` | 1 job, no crash | `BuiltHasOutput`: what the integration test expects of a build does not hold |
| `startup` | 3 starts, 2 pods; 4,645 states | `OwnPodsServed`, `OldPodsCutOff` |
| `containers` | all types, all packages over 6 files; 420,240 states | `DetectedIsBuildable`, `ExternalNotRun`, `ReleaseIsComplete`, `BuiltProgramStarts`, `StartsWhatWasBuilt`, `GoModeFits` |
| `peer_address` | 2 peers, 7 names, all addresses of up to 5 tokens; 1,070,944 states | `OneLabelChanged`, `PeersApart` |
| `archive` | all trees over 5 nested paths; 4,233 states | `Reproduced` |

The runs `execute_pod` and `server` check the type invariant as well; for the
other modules with proofs `TypeOK` is part of what is proved.

Bounds. Two containers give an init container and a main one, hence a container
that never starts, one that ended before it was first seen and two log goroutines
at once; one line is enough to lose or repeat one. The number of events is bounded
by the pod's life except for `ResendStatus`, which publishes only into an empty
queue. Two calls are enough for a call in progress beside one that is over;
calls meet only through the process, so one crash puts two calls in any two
places. Three requests are an upload, one that
competes with it and a download; two chunks make a partial file. Jobs meet only
in the sidecar's crash, which breaks every call at once, so one job shows what a
job can do; the second crash lets a pod of the first start meet the third. Three
starts leave a certificate of one start beside a key of another when the third
begins. Five tokens are an address with two dots and a port, or with one of each
misplaced; the names are unset, blank, a word, and two words in either order, with
and without a blank. The five paths of `archive` nest to depth three, beside a second entry.
The theorems remove these bounds for the safety properties of the modules that
have proofs.

What the properties exempt is as informative as what they state:

- `NoSilentLogLoss` allows lost lines when a failure to read the log was logged,
  and says nothing of returns for the context or the watch, which drop what is
  left of the logs by design.
- `NoLateSender` is about returns for the pod's end; the same other returns leave
  goroutines that may still call `Log`. `Log` drops the error of `Send`
  (`server.go` 129, 197): a stream that is broken ends the RPC with an error, so
  `ExecutePod` has no failing `Send`, and `SerializedStream` has.
- `BuildPodReclaimed` exempts a failed deletion (logged only) and a `Create`
  whose answer is lost, after which nobody deletes the pod.
- `PodKeepsSecret` exempts runs that could not create the pod or set the owner
  reference: such a pod stays, waiting for a secret that the same call deletes.
- `SecretReclaimed` exempts an error of the secret's creation or deletion
  (reported by Run) and of the read before it (not reported), and calls that
  a crash ended: nothing reclaims their secret if it had no owner yet.
  `AwaitedPodOwnsSecret` bounds that window: once Run waits for its pod, the
  secret has its owner.
- `SuccessIsWhole` exempts exactly the jobs in which a transfer failed and the
  pod's script did not notice. So a build may exit with 0 without its output
  (`server.go` 422; run `build_output_test`), and a program may be built from a part
  of its source (`server.go` 396).
- `SuccessLeavesNothing` exempts a `RemoveAll` that fails: its error is dropped
  (`build.go` 60, `run.go` 54), the command exits with 0 and the directory stays.
  What it shows is that no upload can be the cause, nor touch what is left. It
  speaks of success only: after an error the pod may still upload between the two
  halves of `RemoveAll`, and the directory stays. A client that is killed leaves
  its directory, too.
- `OwnPodsServed` is stated for a year, the life of the certificate, and for
  starts with the flag `fileServerBaseURL`. Without the flag, which `main.go` 90
  calls optional, the certificate is made for an empty host (`main.go` 136, 271)
  while pods are told the listen address (`fsBaseURL`), and no pod trusts the server.
- `ReleaseIsComplete` and `DetectedIsBuildable` exempt a command that could not
  read `metadata.json`: `IsExternalCC` takes any error for a missing file
  (`common.go` 27-30), so a release may succeed without `connection.json`.
  `ReleaseIsComplete` exempts a META-INF that build could not look at: `dirExists`
  takes any error for no directory (`build.go` 177-183), so a build and a release
  may succeed without the indexes.
- `OneLabelChanged` says nothing of a host without a dot in domain mode, where
  the host is doubled.
- `BuiltProgramStarts` leaves out packages that lack what their type needs, and
  takes transfers as whole; the ones that break off unnoticed are in `Pipeline`.
  `StartsWhatWasBuilt` also shows that the `build.sh` branch of the Node and
  executable scripts is never taken: the volume at `/chaincode` hides it.

Findings. Each has a run that shows the shortest such execution.

- `secret_comment`: `deleteCryptoSecret` does nothing on any error of `Get`, "if
  secret has already been deleted" (`server.go` 734). After a timeout or a refused
  request the secret is still there, has no owner, and stays for good; Run does
  not report it.
- `build_output_test`: `integration/buildpack_test.go` 152-153 expects
  `chaincode-output.tar` once a build exits with 0. When the file server refuses the
  upload, curl, called without `--fail` (`server.go` 422), ends with status 0; the
  pod succeeds, the call returns nil and the client exits with 0.

## Fairness

`ExecutePod`: goroutines that can run do (WF). Go's `select` picks among ready
cases at random, so a done context is not passed over for ever (SF on
`ContextDone`). `clientConfig.Timeout` covers the body of a response, so a log
stream without end breaks at last (WF on `ScanFails`). A status that changed on
its node reaches the API server (WF on `ReportStatus`); a lost node is an
action of its own and may or may not happen. Containers, the client and the watch
may do nothing for ever.

`Server`: goroutines that can run do; as requests and watches time out, `Await`
ends too (WF on `Step`). Kubernetes restarts the sidecar and startup goes on (WF
on `Startup`). Nothing is assumed of pods, callers or crashes.

`SerializedStream`: goroutines that can run do (WF on their steps); a `sync.Mutex`
hands itself to a goroutine that has waited for a millisecond, so nobody starves
(SF on `Lock`). A `Send` ends, with an error if the stream is broken.

`Pipeline`: the client goes on when it can (WF on `Client`); Kubernetes restarts
the sidecar, which goes on to serve files (WF); the sidecar ends each call
whatever the pod does, because its requests and watches time out, as the runs
`execute_pod_live` and `server` show (WF on `EndCall`). Nothing is assumed
of pods, crashes or the peer.

## Proofs

All theorems hold for every number of containers, lines, calls, goroutines,
requests, locations, chunks, pods, starts, jobs, peers and crashes, for addresses
and names of any length, and for trees of files of any finite size and depth.
The only assumptions are the ones named in the modules: `ExecutePodAssumption` (at least one container), that bounds are natural
numbers, that `Size` and `MaxStarts` are not zero, that `None` and `Nobody` are no
request and no goroutine, that a peer's name is text and blanks
(`PeerAddressAssumption`), and `ArchiveAssumption` (the paths are finitely many
sequences of names, and the directory of a path is a path).

`ExecutePodProofs` proves `TypeOK`, the five safety invariants and the
refinement of `PodExecution`. None of the invariants is inductive. `IInv` adds:

- `StatusInv`: once the API server has the pod's end nothing changes it, and
  each status in the queue or in hand is *final* in what it says: an end is the
  pod's end, and a container shown terminated writes no more (`Frozen`). Without
  it an old event could carry another phase than the answer is judged by.
- `ResultInv`: the result is set from the status in hand on leaving the loop.
- `StreamInv`: a stream without `Follow` holds the whole, frozen log; a goroutine
  that is done has sent all of a frozen log or complained. A lost node may take
  back a container's state, which is why `Frozen` has its second disjunct.
- `ScanInv`: behind the scan no started container is without a stream or a
  complaint; after the wait no goroutine is scanning.
- `DeleteInv`: where a build pod can exist and who deletes it.

Each part has a step lemma, built on lemmas that say which actions can
change what (`StatusFrame`, `StreamFrame`, `OthersKeepHandler`, `EventsKept`).
`PromiseStep` maps every step to a step of `PodExecution` or a stutter.

`ServerProofs` proves `TypeOK`, the five invariants and the action property
`OwnedSecretKept`. Its `IInv` says, call by call, where the secret and the pod
are at each step (`SecretInv`, `PodInv`), how the result of `executePod` and
of the call relate (`ResultInv`), and that startup and calls never overlap
(`ProcessInv`). `OwnStep` and `OtherCalls` split a step into its call and the rest.

`SerializedStreamProofs` proves `TypeOK` and `MessagesWhole`, which rests on who
holds the mutex (`MutexInv`) and on the parity of the wire, which says how far
the holder's message has come (`WireInv`). On a broken stream the parity is lost
and nothing more is sent.

`StartupProofs` proves `TypeOK`, `OwnPodsServed` and `OldPodsCutOff`. `FilesInv` says
which step of `main` has brought which file up to date, whatever earlier starts
left in it; `PodInv` what a pod was given.

`FileTransferProofs` proves `TypeOK`, both invariants and both action properties.
Exclusive creation gives every inode one writer, the request that created it:
`fd[i] = i` says that request `i` has created its inode, and `off[i]` how many
chunks are in it, which is all of `DataInv`. `OpenInv` says that whatever is open
was created and that a download announced no more than there is.

`PipelineProofs` proves `TypeOK`, the three invariants and `RemovedForGood`. `CallInv`
ties the call to the client that waits and to the pod: a call that is open belongs
to the current start, and nil means a pod that succeeded, hence one that uploads
nothing any more, not even to a directory that could not be removed. `DirInv` and `ExitInv` say where the directory and the exit
status are at each step of the client, `WholeInv` what each container passes on.

`ChaincodeProofs` proves the three properties of `Builder`, the three of
`Containers` and, at its end, the two of `PeerAddress`. The package's files, what
can be read and the scripts of the images are free, so TLC's run is exhaustive but for the six files; what the proofs add is
the argument. `ControlInv` says what is known when a command is at a step: what
detect has accepted, and that an external chaincode is at the sidecar only because
build could not read its metadata. The client's detection and the sidecar's
switch meet in one lemma, `SidecarBuildsStep`. `OutputInv` says what is in the output
directory at each step of each command, hence what a release can copy; that the
archive of META-INF is in it exactly if build has found one is `FoundIsTold`. `PodInv`
follows the program through volume and archive: the build pod leaves it in the
volume, the archive is the volume's output, the run pod's volume is the archive.
That the run's script finds it is `ProgramDirIsOutput`: whatever the type, the
program's directory is where `output` is mounted.

Its part on `PeerAddress` holds for any peers, names and addresses. `PeerInv` says
that what a peer has written is what `injectPeerIdentifier` makes of the package
and of its name; the rest is about strings.

- The identifier: places that are not blank are ranked in their order
  (`RankGrows`), every rank is taken (`RankTaken`, by counting), so names with the same
  identifier are matched rank by rank (`SameID`).
- The cut: with one colon, the host ends there (`OneColon`, `HostOf`) and
  `parseAddress` cuts it at its last dot (`ParseWithDot`); a host without a dot is
  both hostname and domain (`ParseWithoutDot`).
- The pieces: put together again they are the old address with the identifier
  after the dot (`Joined`, `Middle`), and the identifier is determined by the address
  and what surrounds it (`JoinApart`, by cancelling from both ends).

`ArchiveProofs` proves `Reproduced` for every finite tree. It has two parts.

- The order of the walk: `Before` is a strict total order (`BeforeTotal`,
  `BeforeTransitive`, `BeforeIrreflexive`), so that `FirstOf` of any finite set is its
  first element (`FirstOfIsFirst`), and a directory comes before what is in it.
  Facts about all paths would call for an induction over data, which the prover
  lacks; the least length, or the least number of predecessors, at which such a
  fact could fail is refuted instead (`LeastNatural`).
- The invariant. For archives: every entry of the archive comes after its
  directory (`ArchiveInv`), and what is extracted is there, directories with the
  time of now until their own is set (`ExtractInv`): entries made in a directory
  whose time was set too early would spoil it. For copies: the calls in progress
  are a path down the tree (`StackInv`), what is finished is final, and so is all
  below it (`CopyInv`).

Only model-checked: the liveness properties (the prover does not handle
fairness) and `DoNothingIfDeleted` and `BuiltHasOutput`, which are false. Every invariant, every action property and the refinement that a passing run
checks is proved.

## Not modelled

Assumed, not modelled: a request that reports an error took effect before the
error or never; nobody but the sidecar and the garbage collector touches the
secrets; UUIDs, temporary directories and random credentials are unique; a
shared directory behaves like a local file system.

Left out, and why:

- `pkg/logger`, `pkg/util`: configuration of a library.
- `pkg/sidecar`: generated from the protocol files; `pkg/k8sbuilder/fakes`: test
  doubles. Together they are a third of the lines.
- Cryptography in `pkg/tls`: which certificate goes where is in `Startup`, how it is
  made and verified is the library's.
- `pkg/fs/copy.go`: the same code as `copy_linux.go` for other systems.
- Names, images, users, resources and security contexts of the pods: constants
  that no other code depends on.
- Symbolic links into and out of a tree, owners and modes of files: `Archive` has
  links as far as the code tells them apart.
