# A TLA+ verification of packer-plugin-cloud-hypervisor

The plugin is a Packer builder: it starts a `cloud-hypervisor` process, has it
create and boot a virtual machine over an HTTP API on a Unix socket, lets Packer
provision the guest, shuts the guest down, copies the writable disk images, and
takes the process down again. This directory holds TLA+ models of that code, the
TLC configurations that check them on small instances, and proofs of the results
that matter most, checked by TLAPS for every value of the constants.

Source paths below are relative to `src/builder/cloud-hypervisor/`.

## 1. Inventory

### Components

| component | source | state it keeps | operations | talks to |
|---|---|---|---|---|
| Builder and runner | `builder.go` | the step list, the state bag (`error`, `artifact`, `ch_cmd`, `ch_client`), the build's context | `Prepare`, `Run`; the SDK's `BasicRunner` calls every step's `Run` and defers its `Cleanup` | the steps, through the state bag and their `ActionContinue` / `ActionHalt` |
| StepLaunchCh | `step_launch_ch.go` | the `exec.Cmd`, the socket path, the stderr pipe and the goroutine that logs it | `Run`: start, ping up to 50 times, start the goroutine; `Cleanup`: SIGTERM, wait 5 s, SIGKILL, remove the socket file | the process, its API, `exec.CommandContext`, and through the path whatever else listens there |
| StepCreateVM, StepBootVM | `step_create_vm.go`, `step_boot_vm.go` | none | one request each | the API client |
| StepShutdownVM | `step_shutdown_vm.go` | the deadline | `Run`: shutdown, poll `vm.info`, force-delete after 30 s; `Cleanup`: delete under `context.Background()` | the API client |
| StepCollectArtifact, Artifact | `step_collect_artifact.go`, `artifact.go` | files in the output directory | filter, mkdir, copy each image, put the artifact; `Destroy` | the file system |
| API client | `chclient/client.go` | none | six blocking requests, each ended by its answer, an error or its context | the process |
| Configuration | `config.go` | the decoded settings | `Prepare`: filter of the raw values, defaults, decode, choice of the socket path, checks, warning | `config.Decode`, `os.Stat`, the directory of temporary files |
| VM configuration | `builder.go` | none | `buildVMConfig`, `normalizeImageType`, `normalizeConsoleMode`, `pascalCase` | the settings, `StepCreateVM` |
| CommHost | `ssh.go` | none | the host `StepConnect` dials | the settings |
| cloud-hypervisor | not in the repository | process, VM, socket file | serves, crashes, hangs, exits on signals | everything above |
| SDK steps | not in the repository | none | `StepConnect`, `StepProvision` | the guest |
| generated HCL2 spec, `main.go`, `version.go`, workflows, examples | `config.hcl2spec.go` and others | none | registration and data | - |

### What is hard

* **Cancellation** can arrive anywhere: in a request, in a sleep, between the
  start of the process and its first ping, between two steps. What is then
  running (a process, a guest, an abandoned request) has to be cleaned up.
* **Three parties end the process**: `Cleanup`, the goroutine of
  `exec.CommandContext`, and the process itself.
* **The API is the only witness** of the guest: an answer may be late, an error
  may mean that the VM is gone or only that the request failed, and a request
  whose caller gave up may still be executed.
* **Timeouts** race late successes: the shutdown deadline and the guest's
  power-off, the 5 seconds after SIGTERM and the exit.
* **The socket path is a name that builds share**: another build, or the
  hypervisor of a Packer that died, may listen there, and `Cleanup` removes
  whatever lies there. A default path is a temporary file removed again at once.
* **Stderr is a pipe read late**: the hypervisor waits for its reader and the
  reader is started by a ping that the hypervisor has to answer.
* **Copies fail half-way** and the output directory outlives the build.
* **Validation and translation** of the settings are two pieces of code that
  have to agree, and validation happens long before use. The communicator is
  even looked up twice, in the first raw value and in the decoded last one.

`PROJECT.json` lists these hazards line by line, with the properties that cover
each and a note where a property covers only a part.

### What makes each component correct

* Builder: exactly the steps that began are cleaned up, last first; every halt
  is explained; an artifact means that all seven steps ran; a build returns
  unless it waits for a hypervisor or a provisioner that never ends, and one
  that is interrupted always returns.
* Launch: nothing the build started outlives it; its socket file is gone; builds
  with paths of their own never meet; launching and cleaning up end.
* Shutdown: the images are read, and the process is signalled, only when no
  guest can be writing.
* Collect: an artifact is the writable images of this build, complete; the
  user's images are only read.
* Configuration: what `Prepare` accepts is a machine the API can boot, of the
  size and with the communicator the user asked for, and the address that is
  dialled is that of its first interface that has one.

## 2. Modules

| module | what it models |
|---|---|
| `CloudHypervisor` | the external process, its VM, its socket and its API; `Faults` switches on an API that may fail whatever the state (`"api"`), a process that may hang (`"hang"`) and an `os.Remove` that may fail (`"remove"`) |
| `Chclient` | the client: a request, its answer, its abandonment when the context is done |
| `VmBuild` | `Builder.Run`: the runner, the `Run` and `Cleanup` of every step, cancellation, on top of the two modules above |
| `BuildLifecycle` | the abstract specification: what `Builder.Run` promises, without the insides of its steps |
| `LaunchHost` | `StepLaunchCh.Run` and `Cleanup` of several builds on one host: socket paths, stderr pipes, Packer dying |
| `LaunchIsolation` | `LaunchHost` as the specification of itself: a build among others behaves as on a host of its own |
| `Ranks` | the lexicographic order of tuples of naturals, in which progress is stated |
| `CollectArtifact` | `StepCollectArtifact.Run`, `copyFile` and `Artifact.Destroy` over a file system and several builds |
| `AtomicCollect` | the abstract specification of the collection: all writable images at once or nothing |
| `PrepareConfig` | `Config.Prepare` with its raw values, `buildVMConfig`, `CommHost` |
| `MCVmBuild`, `MCLaunchHost`, `MCCollectArtifact`, `MCPrepareConfig` | values for TLC and the statements of comments and documentation that the code breaks |
| `VmBuildProofs`, `VmBuildProgressProofs`, `RanksProofs`, `LaunchHostProofs`, `LaunchIsolationProofs`, `CollectArtifactProofs`, `PrepareConfigProofs` | theorems and proofs |

Composition: `VmBuild` EXTENDS `Chclient`, which EXTENDS `CloudHypervisor`; their
actions are conjoined with the builder's (`WithClient(CreateVM("build"))`).
`VmBuild` implements `BuildLifecycle` under the mapping `Phase`, `step`, `Held`,
`Result`. `CollectArtifact` implements `AtomicCollect` under `Images`, `Writable`,
`Phase`, `Delivered`. `LaunchIsolation` EXTENDS `LaunchHost` and has it as an
INSTANCE too, `Private(b)`, with `{b}` for its builds and what belongs to `b` for
its variables. `LaunchHost` and `VmBuild` look at the same step from two
sides: `VmBuild` follows one build through every step with the requests of each,
`LaunchHost` follows several through the launching step and sums up the rest as
a phase (`Work`, `WorkEnds`) in which requests go to the same path.

### VmBuild and the code

The builder has one goroutine. `pc` is where it is, `step` whose `Run` or
`Cleanup` is executing, `ran` the last step begun, `bag` the keys of the state
bag, `iter` the counter of the running loop. Code between two points at which
another party can act is one action: a request is one action that sends it and
one that takes its answer, and `Serve`, `ConnectionFails` or `CtxAborts`, of
other parties, lie in between. Sleeps are the freedom of others to act.
Real time is not modelled: a deadline may pass at any moment between two polls.

| code | actions |
|---|---|
| `BasicRunner.Run` (SDK) | `NextStep`, `StopRunning`, `CleanupNothing`, `Return` |
| `StepLaunchCh.Run` | `LaunchFails`, `LaunchStarts`, `PingCancelled`, `PingSend`, `PingReply`, `PingGivesUp` |
| `StepCreateVM.Run`, `StepBootVM.Run` | `CreateSend`, `CreateReply`, `BootSend`, `BootReply` |
| `StepConnect`, `StepProvision` (SDK) | `ConnectProvision` |
| `StepShutdownVM.Run` | `ShutdownSend`, `ShutdownReply`, `PollCancelled`, `PollSend`, `PollReply`, `PollTimesOut`, `ForceReply` |
| `StepShutdownVM.Cleanup` | `CleanupShutdown`, `CleanupDeleteReply` |
| `StepCollectArtifact.Run` | `CollectStarts`, `CopyDisk`, `CopyFails`, `CollectEnds` |
| `StepLaunchCh.Cleanup` | `CleanupLaunch`, `CleanupSignal`, `CleanupReaped`, `CleanupKills`, `RemoveSocket` |
| `exec.CommandContext` | `CtxKill` |
| Packer interrupts the build | `Cancel` |

The process is as free as its callers have to expect. It can refuse `vm.create`,
`vm.boot` and `vm.shutdown` in any state, crash at any moment, find its address
taken, exit late or, by SIGTERM, with or without unlinking its socket; the guest
can power itself off. Whether a VM that powered off is still there for
`vm.info` is left open, since the answer depends on the hypervisor's version.
An abandoned update stays in `late`, and the process may execute it at any later
moment, once, or never.

### LaunchHost and the code

Each build has a path, a process, a pipe and a reader; `file` is what lies at
each path, a plain file or the socket of a certain process. `met` remembers whose
hypervisor answered a build, which the code cannot know.

| code | actions |
|---|---|
| `Config.Prepare`, `ch_socket_path` | `GivenPath`, or `CreateTemp` and `RemoveTemp`, between which others act |
| `StepLaunchCh.Run` | `LaunchFails`, `LaunchStarts`, `PingOK` (with the start of the goroutine), `PingErr`, `PingGivesUp`, `Interrupted` |
| the later steps | `Work`, `WorkEnds`, `Interrupted` |
| the logging goroutine | `Read` |
| `StepLaunchCh.Cleanup` | `Signal`, `Reaped`, `Kills`, `RemoveSocket`; `Wait` is its goroutine, which closes the pipe |
| Packer dies (SIGKILL) | `PackerDies` |
| the process | `Write`, `Bind`, `Exit` |

`Bind` needs a free path, as `bind(2)` does; a process whose path is taken can only
exit. A process that wants to write to a full pipe (`Stalled`) neither binds nor
answers. Once Packer is dead its end of the pipe is closed and writing no longer blocks.
The path is removed by name: `RemoveSocket` asks neither whose file it is nor
whether the build's own process ever bound it.

### CollectArtifact and the code

Every file is identified by its directory and base name, and holds nothing, part
of an image, or the image of a disk as the guest of a certain build left it.
`OpenSource`, `CreateDest`, `CopyData` and `CloseDest` are the four calls of
`copyFile`, each with its failure; `RunVM` stands for the earlier steps of the
build and the filter of the writable disks, `Destroy` for `Artifact.Destroy`, whose
`os.RemoveAll` may stop half-way with an error and leave some of the copies,
`Leave` for a user who keeps the artifact and builds again. For `AtomicCollect`
only three things are visible: what the configured images hold, whether the step
is running, and what the files of the artifact hold.

### PrepareConfig and the code

A path is what `os.Stat` finds at it; a mode is a word and the way it is written;
an address is its host, whether a CIDR suffix follows, and whether there are blanks
around it, or nothing else (`TrimSpace`). `Prepare` makes every
check and collects every error as the code does, `PrepareStops` is its early
returns, `StartRun` is the `buildVMConfig` at the head of `Builder.Run`, and
`Connect` is `StepConnect` asking `CommHost`. `Int64` wraps in two's complement.

`raws` are the arguments of `Prepare`: maps, which is what a JSON template
and Packer's own settings become, or the `cty.Value` of an HCL template, which only
`config.Decode` reads. `Collected` is what the recursion of `collectKeys` comes to,
the least set of structs that has `Config` and whatever is squashed into one of its
members; `KnownKeys` their tags, with one key for each kind of field; `FilterRaws` keeps the
known keys and those with the prefix `packer_`. `Explicit` is the communicator the
network is checked for, from the first map that has the key; `Decoded` the one
`config.Decode` arrives at, and `Communicator` what the SDK makes of it when it is
empty.

## 3. Runs

| run | expect | what it shows |
|---|---|---|
| `VmBuild_safety` | pass | truthful API, crashes, refusals, cancellation anywhere, stale socket file: `NoOrphan`, `DisksQuiescent`, `TermAfterDelete`, `SocketRemoved`, `ArtifactSound`, `NoSilentFailure`, a guest starts in step 3 only (`GuestStarts`), every step of the builder leaves less to do (`BuilderProgress`), the inductive invariant, and the refinement of `BuildLifecycle` |
| `VmBuild_hang` | pass | every fault, a lying and a hanging hypervisor included: every build returns unless the hypervisor hangs, or a provisioner waits for ever, and nobody interrupts it (`Terminates`), an interrupted one always does (`CancelTerminates`), no process is left over (`HypervisorGone`), and the inductive invariant holds, from which the safety properties of the run above follow for these faults too |
| `Launch_shared` | pass | two builds with one path or two, Packer dying anywhere: `OwnHypervisor`, `Reachable`, `LeftoverExplained`; a build with a path of its own behaves as if it were alone (`Isolated`); a stalled hypervisor is being pinged, read from or ended (`StallEnds`); `Run` returns except from a stalled hypervisor (`LaunchReturns`), a hypervisor that was ready does not wait for ever to write (`StallsOnlyUnready`), `Cleanup` ends (`CleanupEnds`) |
| `Collect_safety` | pass | three builds of up to three disks into one output directory: `ArtifactFaithful`, `SourcesKept`, the refinement of `AtomicCollect`, that each call of the copy loop leaves fewer to make (`CopyProgress`), and that the loop ends |
| `Prepare_accepted` | pass | what is accepted has one payload of regular files and boot CPUs within the maximum (`AcceptedIsBootable`), its size in bytes is exact where it fits (`MemoryExact`), the first interface with an address is dialled (`HostOfInterface`), and the communicator is the one that was written (`CommunicatorHonoured`) |
| `VmBuild_readonly_msg` | violation | after an interruption the build reports that all disks are read-only (`builder.go:117`) |
| `VmBuild_any_error` | violation | an HTTP 500 to `vm.info` lets the images be copied under a running guest (`step_shutdown_vm.go:21-23`) |
| `VmBuild_stuck_poll` | violation | an unanswered `vm.info` outlasts the shutdown timeout (`step_shutdown_vm.go:29-30`) |
| `Launch_foreign` | violation | the ping is answered by another build's hypervisor (`step_launch_ch.go:26`) |
| `Launch_stderr` | violation | a hypervisor whose stderr pipe is full before it is ready is pinged for ever (`step_launch_ch.go:20`) |
| `Collect_same_name` | violation | two images with one base name: one copy is lost (`step_collect_artifact.go:24`) |
| `Prepare_hcl` | violation | an HCL template that asks for SSH is accepted without a network interface (`README.md:149`, `config.go:311-313`) |

Run one with `tlc -config VmBuild_safety.cfg MCVmBuild`.

`DisksQuiescent` and `TermAfterDelete` carry the assumption `"api" \notin Faults`
in their statement; `VmBuild_any_error` shows that it is needed. `ArtifactFaithful`
and `SourcesKept` carry `Apart` (no image in the output directory, no two writable
images of one base name), which `Config.Prepare` does not check;
`Collect_same_name` shows what happens without its second half, and without the first
an image is truncated by its own copy (section 6).
`OwnHypervisor` and `Reachable` carry `Alone` (no other build has the path), which
`Launch_foreign` shows to be needed and which the code does not ensure: a path
may be given twice, and `os.CreateTemp` draws a name that is free, not one that
no earlier build was given and has yet to bind. `CommunicatorHonoured` assumes
that the raw values agree; two that do not (a first that says `none`, a last that
says `ssh`) are accepted without a network. With values that agree the communicator is
the one written, in JSON or HCL, and what the property says of the network is only about
templates where a map sets it: in HCL it is a `cty.Value`, into which the check of
the network does not look, and `Prepare_hcl` shows what is then accepted.

`SocketRemoved` and `LeftoverExplained` exempt a process that was killed, since `Cleanup`
does not wait for it: such a process may still bind its socket after the file was
removed. What they exclude is that anything else leaves one.

### Bounds

* `VmBuild`: `PingRetries` for 50, `MaxPolls` for the polls that fit into 30 s
  and `MaxDisks` are 3 in `VmBuild_safety` and 2 in the other runs: the loops treat all iterations but
  the last alike, and two is enough for a first, a last, and a failure after a
  success. The proofs hold for all values.
* `LaunchHost`: two builds and two paths, so that builds share a path or do
  not, and one can follow the other over what it left; one failed ping; a pipe
  that one chunk fills. A third build adds no new relation between two, and
  the proofs of the invariants hold for any number.
* `CollectArtifact`: an output directory and another, three names, three disks,
  three builds: enough for a copy that fails after one that succeeded and
  before another, an overwritten copy, a clash, and a torn copy two builds old.
  `Collect_same_name` has a third directory, for equal names. Two images
  never are one and the same file.
* `PrepareConfig`: sizes around every comparison (0, 1, the minimum, one over,
  negative), 2^64 scaled to 2^7 and a MiB to 4 so that products wrap, lists of up
  to two disks or interfaces in every order, settings varied group by group
  around a valid configuration since no check relates two groups; lists of one
  or two raw values, maps and HCL values, each with any communicator, none, or a
  value that is no string, next to known, passed and unknown keys.

## 4. Fairness

`FairSpec` of `VmBuild` assumes that the builder's goroutine is scheduled
(`WF` of `Builder`: some step of it, never a chosen one) except while it runs the
provisioners of a build that nobody interrupts (`Provisioning`), since
`StepProvision` has no timeout and a guest may hang; an interruption ends it, because
the step waits for the context as well. `StepConnect` ends by itself, by
`ssh_timeout` or `winrm_timeout`. It also assumes that a process that
serves answers the request before it, and that a dial to a dead one fails;
that `net/http` watches the context of a request; that the goroutine of
`exec.CommandContext` runs; and that the kernel delivers SIGKILL. Nothing is
assumed of SIGTERM, of the socket ever being bound, of the guest, of the provisioners, of
requests that were abandoned, or of a process that hangs. That the ping loop, the poll loop and the copy
loop end follows from their counters; for the poll loop the counter stands for the
deadline. `CancelTerminates` holds with a hanging process only because
`CtxKill` kills it: the delete in `StepShutdownVM.Cleanup` runs under a context
that nothing cancels. Without a cancellation a hypervisor that hangs, or a
provisioner, can block a build for ever: these are the exceptions `Terminates` states.

`FairSpec` of `LaunchHost` assumes that a step that has begun goes on: `WF` of
`Cleanup`, of the goroutine that waits and of the one that reads, and of the
delivery of SIGKILL. `SF` of `Run` says that a process which is able to answer
again and again, between writes to stderr, answers a ping in the end; a process
that stays blocked on a full pipe is not assumed to. Packer is never obliged to begin
a build or to end its work, and a hypervisor to do anything until it is killed.

`FairSpec` of `CollectArtifact` assumes that the step runs.

## 5. Proofs

Assumptions are the named `ASSUME`s: `FaultsAssumption`, `BoundsAssumption`,
`LaunchAssumption`, `CollectAssumption`, `PrepareAssumption`, `RawsAssumption`,
`ConfigsAssumption` (types, that names are distinct and, for the last, that a pointer
points to one value).

**VmBuild, safety.** No safety property is inductive by itself. That no orphan is left,
for instance, needs to know that the process handle is in the bag from the moment
it starts and that the cleanup of step 1 cannot be passed otherwise. `IInv` adds
to the type invariant: `ControlInv` (which `pc` belongs to which step, which
request can be outstanding there and under which context), `ProcessInv` (when the
process, its handle and the client exist, and what is true past the cleanup of
step 1), `OutcomeInv` (what the bag says of the work done), `GuestInv` (where the
guest is known to be inactive; an abandoned `vm.boot` can only be pending in a
build that was cancelled before step 5). `Invariance` proves
`Spec => []IInv`, one step per action and one lemma per part. `NoOrphanLeft`,
`DisksReadQuiescent`, `DeletedBeforeTerm`, `SocketIsRemoved`, `ArtifactIsSound`
and `FailuresAreReported` follow from it, and `Implements` shows that every step of `VmBuild` is a step of
`BuildLifecycle` or a stutter. `GuestStartsInBoot` is an action property of the
whole system: a guest comes to life in step 3, while its `vm.boot` waits for its
answer, or else in a build that was interrupted before any later step. It rests on
`GuestInv`, which knows when an abandoned `vm.boot` can be pending. A client with a
timeout of its own would break it, and with it the shutdown step, which
takes a guest that is gone for one that stays gone.

**VmBuild, progress.** `Rank` is what is left of a build: whether it runs or
cleans up, the steps to go, the stretches of the current step, the turns of its
loop, and whether the next request is still to be sent. `BuilderMakesProgress`
proves that every step of the builder, whatever branch it takes and whatever the
API answers, lowers `Rank` lexicographically, and that no step of the
hypervisor, of the kernel or of the user changes it; `RanksAreNatural` that a rank
is a tuple of naturals, which is where the counters of the ping, poll and copy
loops must stay within their bounds; `NoEndlessDescent`, from the
well-foundedness of the natural numbers and of lexicographic order, that no such tuple falls
for ever. So a build takes finitely many steps for every number of pings,
polls and disks and every set of faults: whatever keeps it from
returning is a step it waits for. What is missing from there to `Terminates` is which waits
end: that under `WF` of `Builder` and of the answers some step is enabled until `pc = "done"`
(`ENABLED`), and the induction over the rank inside a temporal formula. Both are beyond
the prover and stay with TLC.

**LaunchHost.** `LaunchInv` is the type invariant, `Reachable`, `LeftoverExplained`
and `PathInv`. That a build meets only its own hypervisor is not inductive: it rests
on what a path means at every moment, that it is chosen once, that a socket at a
path belongs to a process launched with that path, and that whoever answered
had that path. `Reachable` needs in addition that nobody without the path
removes the file, and `LeftoverExplained` that past the wait the process is
dead or was sent SIGKILL. `LaunchInvariance` proves all of it by one case per
action, for any number of builds and paths and any size of the pipe;
`MeetsOwnHypervisor`, `StaysReachable` and `LeftoversExplained` follow.
`StallsAreEnded` is the safety half of `StallsOnlyUnready` and `CleanupEnds`: a
hypervisor blocked on its stderr pipe is one that is still pinged, read from,
being terminated, or sent SIGKILL. It needs that a build which works has a
reader, which `PathInv` says, and it fails if the goroutine is not started.

**LaunchIsolation.** `BuildsAreIsolated` is a refinement of `LaunchHost` by
`LaunchHost`: from the moment a build has its path, and as long as no other has
the same, each step of the host is a step of the host with that build
alone, or changes nothing there. The steps of other builds leave
everything of `b` as it is (`OthersStep`), its path included, because they touch
only files at their own paths. Its own steps are steps of the private host (`OwnStep`) because nobody
but its own hypervisor can answer at its path (`OwnAnswer`), which is where
the invariant of the paths is needed. So whatever holds of every
step of a single build carries over to any number of them with paths of their own.
It speaks of steps, not of fairness, and not of the step that picks the path:
there a build may find the file that a dead one left.

**CollectArtifact.** `LoopInv`: in the loop, the images already copied are whole
and in place, and every source still is what this build's guest left, which needs that
destinations differ from each other and from every source (`Apart`).
`ArtifactIsFaithful` and `SourcesAreKept` follow for any number of disks,
directories and builds. `CollectsAtomically` is the refinement: the four calls of a
copy are stutters of `AtomicCollect` because they leave the images alone, every
failure is `DeliverNothing`, and `PutArtifact` is `Deliver` by `LoopInv`; a guest
changes the writable images and no other because no file is attached twice.
`CopyMakesProgress`: `CallsLeft`, a natural number by `CallsLeftNatural`, falls with every
call of the step, so that a build makes at most four calls for every writable
disk and two more, whichever of them fails.

**PrepareConfig.** `PrepareInv` says that a configuration past `Prepare` is one
without errors and that what was built was built from it. `AcceptedBoots`,
`MemoryIsExact`, `HostIsOfInterface` and `CommunicatorIsHonoured` follow for all configurations of `ConfigType`, integers of any size and lists of
any length. `PrepareTypes` includes that the result is a `VMConfig` with a memory
size within int64. `CommunicatorIsHonoured` shows for lists of raw values of any length
that filtering keeps every communicator (its struct is squashed into `Config`, so its key
is collected), and that with agreeing values the last one, and the first map where there
is one, say the same. Of the network it says nothing where no map sets the
communicator, which is every HCL template. That `CommHost` finds a first interface rests on the well-foundedness
of the natural numbers, from the library.

Only model-checked: everything temporal under fairness (`Terminates`,
`CancelTerminates`, `HypervisorGone`, `LaunchReturns`, `StallsOnlyUnready`,
`CleanupEnds`, `CollectReturns`), which the prover does not reach. What is proved
towards them is their safety half: `BuilderMakesProgress`, `CopyMakesProgress` and
`StallsAreEnded` are the measures and the invariants from which they follow once fairness
makes the next step happen. The statements of the `violation` runs are false
and have no theorem; each of the theorems above that needs the opposite carries it as a
hypothesis (`Apart`, `Alone`, `"api" \notin Faults`).

## 6. Findings

The seven `violation` runs, each with the line it contradicts, are listed in
`PROJECT.json`. In short: the message after an interruption is wrong; any error of
`vm.info` is taken for a 404; a hanging request defeats the shutdown timeout; a
ping is answered by whoever has the path; a hypervisor that fills its stderr pipe
before it is ready is pinged for ever; of two images of the same base name one
is lost; and for an HCL template the network that SSH and WinRM need is not asked for.

Met while modelling, without a run since each is visible in one definition:

* `README.md:118` documents `serial_file` as the path for serial output, and
  `buildVMConfig` does not pass it (`builder.go:238`; `SerialConfig` has no such
  field, `client.go:88-90`). The field is therefore no part of `ConfigType`.
* An image that already lies in the output directory is its own destination, and
  `os.Create` truncates it before it is read (`step_collect_artifact.go:97`), while
  `README.md:160` speaks of copies. `SourcesKept` excludes it by `Apart`.
* A build without any disk ends without an artifact
  (`TestStepCollectArtifact_Run_EmptyDisks`) and with the message that all disk images
  are read-only (`builder.go:118`). It was not warned: the warning needs a disk
  (`config.go:290`, `config.go:306`), while `README.md:135` says that at least one writable
  disk is required.
* A communicator that is left out becomes SSH and is accepted without a
  network interface (`config.go:331`), on purpose by the comment at
  `config.go:314-316`, but against `README.md:149`.
* The goroutine that logs stderr starts after the API has answered
  (`step_launch_ch.go:104`), so that the stderr of a hypervisor that never
  becomes ready, captured "for diagnostics" (`step_launch_ch.go:48`), is not
  logged.

## 7. Plan and what is not modelled

The order the project was built in, every part done:

1. `CloudHypervisor`, `Chclient`, `VmBuild`: the lifecycle, its interleavings, its proofs.
2. `BuildLifecycle`: the abstract specification and the refinement.
3. `CollectArtifact` and its proofs.
4. `PrepareConfig` and its proofs.
5. `LaunchHost` and its proofs: several builds over socket paths, some of which
   die with Packer, the stderr pipe with its reader, and the temporary file
   names.
6. `PrepareConfig` with several raw values, JSON and HCL, `filterRaws` and the two
   readings of the communicator.
7. `AtomicCollect` and the refinement.
8. Progress: `Ranks`, `BuilderProgress`, `CopyProgress`, `StallEnds` and their proofs.
9. `LaunchIsolation`: builds with paths of their own do not notice each other.

What could follow: proofs that `BuildLifecycle` and `AtomicCollect` promise by themselves
what is said of them (every step begun is undone once, an artifact is delivered
at most once), from which the same follows for the code by the refinements; a rank
for `LaunchHost`; `VmBuild` as a refinement of `Private(b)`, a build of `LaunchHost`
alone on its host; `LaunchHost` with the requests of every step of `VmBuild` in place of
`Work`, which multiplies two state spaces that are large already, and names that
`os.CreateTemp` draws from a large set, with the probability of a clash, which TLA+
does not speak of.

Not modelled:

* The runners of `-on-error=ask`, `-on-error=abort` and `-debug`: SDK code that
  asks a user, or skips the cleanup on purpose.
* `config.Decode` beyond the communicator: SDK code. The decoded configuration
  is any that agrees with the raw values on the communicator, or an error.
* The assertions on the state bag that `Builder.Run` makes true (`ui` is always
  there), the wording of messages and errors, JSON, identifiers that are
  passed on unchanged, the registry metadata of the artifact.
* Connections of `net/http` that are kept alive between requests: a request is
  taken to dial, so that a path whose owner has changed reaches the new owner.
* `config.hcl2spec.go`: a generated table without state or control flow.
* `main.go`, `version.go`: registration of the builder, no behaviour of their own.
* `examples/setup.sh`: prepares images and a TAP device for the examples; the
  plugin neither calls it nor reads its state.
* The release tooling.
