------------------------------- MODULE VmBuild -------------------------------
(***************************************************************************)
(* Builder.Run (builder.go) with its seven steps: the multistep runner,    *)
(* the Run and Cleanup of every step of the plugin, the state bag they     *)
(* share, cancellation of the build's context at any moment, and the       *)
(* hypervisor process underneath.                                          *)
(*                                                                         *)
(* pc says where the builder's only goroutine is.  A step's Run and        *)
(* Cleanup are one action per stretch of code between two points at which  *)
(* another actor can interfere: the requests, the sleeps, the waits and    *)
(* the file copies.                                                        *)
(***************************************************************************)
EXTENDS Naturals, Chclient, Ranks

CONSTANTS
    PingRetries,  \* chPingRetries: how often the API is pinged
    MaxPolls,     \* bound: vm.info polls before shutdownTimeout must expire
    MaxDisks      \* bound: writable disk images of the build

ASSUME BoundsAssumption ==
    /\ PingRetries \in Nat \ {0}
    /\ MaxPolls \in Nat
    /\ MaxDisks \in Nat

VARIABLES
    pc,       \* where the builder is
    step,     \* the step whose Run or Cleanup is being executed
    ran,      \* the last step whose Run was called
    bag,      \* the keys present in the state bag
    iter,     \* the loop counter of the running step
    writable  \* the number of disk images that are not read-only

buildVars == <<pc, step, ran, bag, iter, writable>>
vars == <<chVars, cancelled, buildVars>>

-----------------------------------------------------------------------------

\* Positions of the steps in the list Builder.Run assembles.
Launch    == 1
Create    == 2
Boot      == 3
Connect   == 4
Provision == 5
Shutdown  == 6
Collect   == 7
Steps     == 1..7

Running  == {"continue", "halt", "launch", "ping", "create", "boot", "connect",
             "provision", "shutdown", "poll", "force", "collect", "copy"}
Cleaning == {"cleanup", "delete", "term", "reap", "remove"}

\* The pc at which the Run of a step begins.
Entry == <<"launch", "create", "boot", "connect", "provision", "shutdown",
           "collect">>

Init ==
    /\ CHInit
    /\ cancelled = FALSE
    /\ pc = "continue"
    /\ step = 0
    /\ ran = 0
    /\ bag = {}
    /\ iter = 0
    /\ writable \in 0..MaxDisks

\* What the Run of a step returns: ActionContinue, ActionHalt with an error
\* in the state bag, or a bare ActionHalt.
Continue == pc' = "continue" /\ UNCHANGED bag
\* Mutant: the step halts and forgets the state.Put("error", err).
FailSilently == pc' = "halt" /\ UNCHANGED bag

Fail     == pc' = "halt" /\ bag' = bag \cup {"error"}
Halt     == pc' = "halt" /\ UNCHANGED bag

\* Nothing of the hypervisor, of the request or of the context changes.
Local == UNCHANGED <<chVars, cancelled>>

\* The request changes and nothing else of the hypervisor does.
Calling == UNCHANGED <<proc, signals, socket, vm, late, cancelled>>

-----------------------------------------------------------------------------
(* multistep.BasicRunner.                                                  *)

\* The context is looked at before every step, and Cleanup is deferred for
\* every step whose Run was called.
NextStep ==
    /\ pc = "continue"
    /\ step < Collect
    /\ ~cancelled
    /\ step' = step + 1
    /\ ran' = step + 1
    /\ pc' = Entry[step + 1]
    /\ iter' = 0
    /\ Local
    /\ UNCHANGED <<bag, writable>>

StopRunning ==
    /\ \/ pc = "halt"
       \/ pc = "continue" /\ (cancelled \/ step = Collect)
    /\ pc' = "cleanup"
    /\ Local
    /\ UNCHANGED <<step, ran, bag, iter, writable>>

-----------------------------------------------------------------------------
(* 1. StepLaunchCh.Run.                                                    *)

\* StderrPipe or Start returns an error; Start does when ctx is done.
LaunchFails ==
    /\ pc = "launch"
    /\ Fail
    /\ Local
    /\ UNCHANGED <<step, ran, iter, writable>>

LaunchStarts ==
    /\ pc = "launch"
    /\ ~cancelled
    /\ proc' = "starting"
    /\ bag' = bag \cup {"ch_cmd"}
    /\ pc' = "ping"
    /\ UNCHANGED <<signals, socket, vm, call, late, cancelled>>
    /\ UNCHANGED <<step, ran, iter, writable>>

PingCancelled ==
    /\ pc = "ping"
    /\ call = Idle
    /\ iter < PingRetries
    /\ cancelled
    /\ Halt
    /\ Local
    /\ UNCHANGED <<step, ran, iter, writable>>

PingSend ==
    /\ pc = "ping"
    /\ iter < PingRetries
    /\ ~cancelled
    /\ Ping("build")
    /\ Calling
    /\ UNCHANGED buildVars

\* Mutant: the retry loop does not count.
PingReplyUncounted ==
    /\ pc = "ping"
    /\ \/ /\ Answered("ping", "ok")
          /\ bag' = bag \cup {"ch_client"}
          /\ pc' = "continue"
       \/ /\ Answered("ping", "err")
          /\ UNCHANGED <<bag, pc>>
    /\ Calling
    /\ UNCHANGED <<step, ran, iter, writable>>

PingReply ==
    /\ pc = "ping"
    /\ \/ /\ Answered("ping", "ok")
          /\ bag' = bag \cup {"ch_client"}
          /\ pc' = "continue"
          /\ UNCHANGED iter
       \/ /\ Answered("ping", "err")
          /\ iter' = iter + 1
          /\ UNCHANGED <<bag, pc>>
    /\ Calling
    /\ UNCHANGED <<step, ran, writable>>

PingGivesUp ==
    /\ pc = "ping"
    /\ call = Idle
    /\ iter = PingRetries
    /\ Fail
    /\ Local
    /\ UNCHANGED <<step, ran, iter, writable>>

-----------------------------------------------------------------------------
(* 2, 3. StepCreateVM.Run and StepBootVM.Run.                              *)

\* A step that finds no ch_client in the state bag fails.
WithClient(Send) ==
    /\ IF "ch_client" \in bag
       THEN Send /\ UNCHANGED <<pc, bag>>
       ELSE Fail /\ UNCHANGED call
    /\ Calling
    /\ UNCHANGED <<step, ran, iter, writable>>

CreateSend == pc = "create" /\ call = Idle /\ WithClient(CreateVM("build"))

CreateReply ==
    /\ pc = "create"
    /\ \/ Answered("create", "ok") /\ Continue
       \/ Answered("create", "err") /\ Fail
    /\ Calling
    /\ UNCHANGED <<step, ran, iter, writable>>

BootSend == pc = "boot" /\ call = Idle /\ WithClient(BootVM("build"))

BootReply ==
    /\ pc = "boot"
    /\ \/ Answered("boot", "ok") /\ Continue
       \/ Answered("boot", "err") /\ Fail
    /\ Calling
    /\ UNCHANGED <<step, ran, iter, writable>>

-----------------------------------------------------------------------------
(* 4, 5. communicator.StepConnect and commonsteps.StepProvision, of the    *)
(* SDK: they succeed, fail, or stop because the context is done.  How long *)
(* they wait before that is a matter of fairness: see Provisioning.        *)

ConnectProvision ==
    /\ pc \in {"connect", "provision"}
    /\ Continue \/ Fail \/ (cancelled /\ Halt)
    /\ Local
    /\ UNCHANGED <<step, ran, iter, writable>>

-----------------------------------------------------------------------------
(* 6. StepShutdownVM.Run.                                                  *)

ShutdownSend == pc = "shutdown" /\ call = Idle /\ WithClient(ShutdownVM("build"))

\* An error is logged and the wait starts all the same.
ShutdownReply ==
    /\ pc = "shutdown"
    /\ \E r \in {"ok", "err"} : Answered("shutdown", r)
    /\ pc' = "poll"
    /\ Calling
    /\ UNCHANGED <<step, ran, bag, iter, writable>>

PollCancelled ==
    /\ pc = "poll"
    /\ call = Idle
    /\ cancelled
    /\ Halt
    /\ Local
    /\ UNCHANGED <<step, ran, iter, writable>>

PollSend ==
    /\ pc = "poll"
    /\ iter < MaxPolls
    /\ ~cancelled
    /\ VMInfo("build")
    /\ Calling
    /\ UNCHANGED buildVars

\* Any error at all is taken for the 404 of a VM that is gone.
PollReply ==
    /\ pc = "poll"
    /\ \/ /\ Answered("info", "ok")
          /\ iter' = iter + 1
          /\ UNCHANGED <<bag, pc>>
       \/ /\ Answered("info", "err")
          /\ Continue
          /\ UNCHANGED iter
    /\ Calling
    /\ UNCHANGED <<step, ran, writable>>

\* Mutant: a guest that did not stop in time is left running.
PollTimesOutKeeping ==
    /\ pc = "poll"
    /\ call = Idle
    /\ Continue
    /\ Local
    /\ UNCHANGED <<step, ran, iter, writable>>

\* shutdownTimeout: the deadline may pass between any two polls.
PollTimesOut ==
    /\ pc = "poll"
    /\ DeleteVM("build")
    /\ pc' = "force"
    /\ Calling
    /\ UNCHANGED <<step, ran, bag, iter, writable>>

\* The error of a failed force-delete is only shown.
ForceReply ==
    /\ pc = "force"
    /\ \E r \in {"ok", "err"} : Answered("delete", r)
    /\ Continue
    /\ Calling
    /\ UNCHANGED <<step, ran, iter, writable>>

-----------------------------------------------------------------------------
(* 7. StepCollectArtifact.Run, which never looks at the context.           *)

CollectStarts ==
    /\ pc = "collect"
    /\ \/ writable = 0 /\ Continue
       \/ writable > 0 /\ Fail
       \/ writable > 0 /\ pc' = "copy" /\ UNCHANGED bag
    /\ Local
    /\ UNCHANGED <<step, ran, iter, writable>>

\* Mutant: the copy loop does not stop after the last disk.
CopyDiskPastEnd ==
    /\ pc = "copy"
    /\ iter' = iter + 1
    /\ Local
    /\ UNCHANGED <<pc, step, ran, bag, writable>>

CopyDisk ==
    /\ pc = "copy"
    /\ iter < writable
    /\ iter' = iter + 1
    /\ Local
    /\ UNCHANGED <<pc, step, ran, bag, writable>>

\* Mutant: a failed copy ends the loop and the artifact is made of the rest.
CopyFailsTolerated ==
    /\ pc = "copy"
    /\ iter < writable
    /\ bag' = bag \cup {"artifact"}
    /\ pc' = "continue"
    /\ Local
    /\ UNCHANGED <<step, ran, iter, writable>>

CopyFails ==
    /\ pc = "copy"
    /\ iter < writable
    /\ Fail
    /\ Local
    /\ UNCHANGED <<step, ran, iter, writable>>

CollectEnds ==
    /\ pc = "copy"
    /\ iter = writable
    /\ bag' = bag \cup {"artifact"}
    /\ pc' = "continue"
    /\ Local
    /\ UNCHANGED <<step, ran, iter, writable>>

-----------------------------------------------------------------------------
(* The deferred Cleanup calls, last step first.                            *)

\* Create, Boot, Connect, Provision and Collect have nothing to undo.
CleanupNothing ==
    /\ pc = "cleanup"
    /\ step \in Steps \ {Launch, Shutdown}
    /\ step' = step - 1
    /\ Local
    /\ UNCHANGED <<pc, ran, bag, iter, writable>>

\* Mutant: the cleanup deletes the VM under the build's own context.
CleanupShutdownCancelled ==
    /\ pc = "cleanup"
    /\ step = Shutdown
    /\ IF "ch_client" \in bag
       THEN DeleteVM("build") /\ pc' = "delete" /\ UNCHANGED step
       ELSE step' = step - 1 /\ UNCHANGED <<pc, call>>
    /\ Calling
    /\ UNCHANGED <<ran, bag, iter, writable>>

\* StepShutdownVM.Cleanup: vm.delete, whatever became of the context.
CleanupShutdown ==
    /\ pc = "cleanup"
    /\ step = Shutdown
    /\ IF "ch_client" \in bag
       THEN DeleteVM("background") /\ pc' = "delete" /\ UNCHANGED step
       ELSE step' = step - 1 /\ UNCHANGED <<pc, call>>
    /\ Calling
    /\ UNCHANGED <<ran, bag, iter, writable>>

CleanupDeleteReply ==
    /\ pc = "delete"
    /\ \E r \in {"ok", "err"} : Answered("delete", r)
    /\ pc' = "cleanup"
    /\ step' = step - 1
    /\ Calling
    /\ UNCHANGED <<ran, bag, iter, writable>>

\* StepLaunchCh.Cleanup: with no process there is only the socket to remove.
CleanupLaunch ==
    /\ pc = "cleanup"
    /\ step = Launch
    /\ pc' = IF "ch_cmd" \in bag THEN "term" ELSE "remove"
    /\ Local
    /\ UNCHANGED <<step, ran, bag, iter, writable>>

\* SIGTERM, or SIGKILL when it could not be sent.
CleanupSignal ==
    /\ pc = "term"
    /\ \E s \in {"TERM", "KILL"} : signals' = signals \cup {s}
    /\ pc' = "reap"
    /\ UNCHANGED <<proc, socket, vm, call, late, cancelled>>
    /\ UNCHANGED <<step, ran, bag, iter, writable>>

CleanupReaped ==
    /\ pc = "reap"
    /\ ~Alive
    /\ pc' = "remove"
    /\ Local
    /\ UNCHANGED <<step, ran, bag, iter, writable>>

\* Mutant: the wait times out and nothing is done about it.
CleanupGivesUp ==
    /\ pc = "reap"
    /\ pc' = "remove"
    /\ Local
    /\ UNCHANGED <<step, ran, bag, iter, writable>>

\* killWaitSeconds are over: SIGKILL, and the exit is not waited for.
CleanupKills ==
    /\ pc = "reap"
    /\ signals' = signals \cup {"KILL"}
    /\ pc' = "remove"
    /\ UNCHANGED <<proc, socket, vm, call, late, cancelled>>
    /\ UNCHANGED <<step, ran, bag, iter, writable>>

\* Mutant: the socket is removed only if this build started the process.
RemoveOwnSocket ==
    /\ pc = "remove"
    /\ socket' = ("ch_cmd" \notin bag /\ socket)
    /\ pc' = "cleanup"
    /\ step' = step - 1
    /\ UNCHANGED <<proc, signals, vm, call, late, cancelled>>
    /\ UNCHANGED <<ran, bag, iter, writable>>

\* os.Remove of the socket, run even if the process never started.
RemoveSocket ==
    /\ pc = "remove"
    /\ \/ socket' = FALSE
       \/ "remove" \in Faults /\ UNCHANGED socket
    /\ pc' = "cleanup"
    /\ step' = step - 1
    /\ UNCHANGED <<proc, signals, vm, call, late, cancelled>>
    /\ UNCHANGED <<ran, bag, iter, writable>>

\* Builder.Run returns; Result says what.
Return ==
    /\ pc = "cleanup"
    /\ step = 0
    /\ pc' = "done"
    /\ Local
    /\ UNCHANGED <<step, ran, bag, iter, writable>>

-----------------------------------------------------------------------------
(* The other actors.                                                       *)

\* Packer is interrupted and cancels the context it passed to Builder.Run.
Cancel ==
    /\ pc # "done"
    /\ ~cancelled
    /\ cancelled' = TRUE
    /\ UNCHANGED <<chVars, buildVars>>

\* Mutant: exec.Command in place of exec.CommandContext.
NoCtxKill == FALSE

\* exec.CommandContext: the watcher kills the process when ctx is done.
CtxKill ==
    /\ cancelled
    /\ Alive
    /\ "KILL" \notin signals
    /\ signals' = signals \cup {"KILL"}
    /\ UNCHANGED <<proc, socket, vm, call, late, cancelled, buildVars>>

\* The build has returned and its hypervisor is gone: nothing is left to do.
Finished ==
    /\ pc = "done"
    /\ ~Alive
    /\ UNCHANGED vars

RunSteps ==
    \/ NextStep \/ StopRunning
    \/ LaunchFails \/ LaunchStarts
    \/ PingCancelled \/ PingSend \/ PingReply \/ PingGivesUp
    \/ CreateSend \/ CreateReply
    \/ BootSend \/ BootReply
    \/ ConnectProvision
    \/ ShutdownSend \/ ShutdownReply
    \/ PollCancelled \/ PollSend \/ PollReply \/ PollTimesOut \/ ForceReply
    \/ CollectStarts \/ CopyDisk \/ CopyFails \/ CollectEnds

CleanupSteps ==
    \/ CleanupNothing
    \/ CleanupShutdown \/ CleanupDeleteReply
    \/ CleanupLaunch \/ CleanupSignal \/ CleanupReaped \/ CleanupKills
    \/ RemoveSocket
    \/ Return

Builder == RunSteps \/ CleanupSteps

Environment == Hypervisor /\ UNCHANGED <<cancelled, buildVars>>

Next ==
    \/ Builder
    \/ Environment
    \/ CtxAborts /\ UNCHANGED buildVars
    \/ CtxKill
    \/ Cancel
    \/ Finished

Spec == Init /\ [][Next]_vars

\* StepProvision waits for the provisioners, which have no timeout, and for
\* the guest they talk to, which may hang: only the context ends that wait.
\* StepConnect gives up by itself, after ssh_timeout or winrm_timeout.
Provisioning == pc = "provision" /\ ~cancelled

\* The builder's goroutine is scheduled wherever it does not wait for a
\* provisioner, a process that still serves answers, net/http watches the
\* context, and so does exec.CommandContext, and SIGKILL is delivered.
\* Nothing is assumed of SIGTERM, of binding the socket, of the guest, of the
\* provisioners, or of a process that hangs.
Fairness ==
    /\ WF_vars(Builder /\ ~Provisioning)
    /\ WF_vars((Serve \/ ConnectionFails) /\ UNCHANGED <<cancelled, buildVars>>)
    /\ WF_vars(CtxAborts /\ UNCHANGED buildVars)
    /\ WF_vars(CtxKill)
    /\ WF_vars(Killed /\ UNCHANGED <<cancelled, buildVars>>)

FairSpec == Spec /\ Fairness

-----------------------------------------------------------------------------

\* What Builder.Run makes of the state bag once the runner is done with it.
Result ==
    IF pc # "done" THEN "none"
    ELSE IF "error" \in bag THEN "error"
    ELSE IF "artifact" \in bag THEN "artifact"
    ELSE "readonly"

TypeOK ==
    /\ CHTypeOK
    /\ cancelled \in BOOLEAN
    /\ pc \in Running \cup Cleaning \cup {"done"}
    /\ step \in 0..Collect
    /\ ran \in 0..Collect
    /\ bag \subseteq {"error", "artifact", "ch_cmd", "ch_client"}
    /\ iter \in 0..(PingRetries + MaxPolls + MaxDisks)
    /\ writable \in 0..MaxDisks

\* Whatever failed, and wherever the build was interrupted, no hypervisor
\* survives it: when Run has returned the process has exited or SIGKILL has
\* been posted to it (StepLaunchCh.Cleanup, exec.CommandContext).
NoOrphan == pc = "done" => ~Alive \/ "KILL" \in signals

\* The disk images are copied only when no guest can write to them any more,
\* be it that it stopped, that it was deleted, or that its process died.  It
\* needs truthful answers: see MCVmBuild for an API that can fail.
DisksQuiescent ==
    "api" \notin Faults /\ pc \in {"collect", "copy"} => ~GuestActive

\* SIGTERM goes to a hypervisor whose VM StepShutdownVM has already removed:
\* Cleanup runs in the reverse order and the delete does not need the build's
\* context, so a guest that reached the shutdown step is not cut off.
TermAfterDelete ==
    "api" \notin Faults /\ pc \in {"term", "reap", "remove"} /\ ran >= Shutdown
        => ~GuestActive

\* The socket file is gone after a build that started step 1, whoever made
\* it, unless the process was killed without waiting for its exit.
SocketRemoved ==
    "remove" \notin Faults /\ pc = "done" /\ ran >= Launch /\ socket
        => "KILL" \in signals

\* An artifact is handed over only by a build whose seven steps all ran
\* without an error and which copied every writable disk image.
ArtifactSound ==
    Result = "artifact" => ran = Collect /\ writable > 0 /\ iter = writable

\* A step that halts says why, unless the build was interrupted, and a build
\* with writable disks comes back empty-handed only if it was interrupted.
NoSilentFailure ==
    /\ pc = "halt" => "error" \in bag \/ cancelled
    /\ Result = "readonly" /\ writable > 0 => cancelled

\* A guest is started by step 3 and by nothing else, unless the build was
\* interrupted in that step: only then can a vm.boot whose sender has gone
\* away boot the VM behind the builder's back, and no later step has begun.
StartsInBoot ==
    ~GuestActive /\ GuestActive' =>
        \/ pc = "boot" /\ call.reply = "wait"
        \/ cancelled /\ ran <= Boot

GuestStarts == [][StartsInBoot]_vars

\* What is left to do, the most significant part first: the rest of the run
\* and of the cleanup, the steps of it, the stretches of the current step,
\* the turns of its loop, and whether its next request is still to be sent.
StageLeft == IF pc \in Running THEN 2 ELSE IF pc \in Cleaning THEN 1 ELSE 0

StepsLeft == IF pc \in Running THEN Collect - step ELSE step

StretchesLeft ==
    CASE pc = "cleanup" -> 4
      [] pc \in {"launch", "shutdown", "collect", "term"} -> 3
      [] pc \in {"ping", "poll", "copy", "reap"} -> 2
      [] pc \in {"create", "boot", "connect", "provision", "force", "delete",
                 "remove"} -> 1
      [] OTHER -> 0

TurnsLeft == (PingRetries + MaxPolls + MaxDisks) - iter

Rank == <<StageLeft, StepsLeft, StretchesLeft, TurnsLeft,
          IF call = Idle THEN 1 ELSE 0>>

\* The builder never goes round in circles: each of its steps, of whatever
\* branch, leaves less to do, and no reply, crash or interruption gives it
\* more.  What can keep a build from returning is a step it waits for.
BuilderProgress ==
    [][IF Builder THEN Less(Rank', Rank) ELSE Rank' = Rank]_vars

\* Every build returns, whatever fails and whatever the API answers; the only
\* ones that do not wait for ever, uninterrupted, for a hypervisor that hangs
\* or for a provisioner.
Terminates ==
    \/ <>(pc = "done")
    \/ <>[](proc = "stuck" /\ ~cancelled)
    \/ <>[]Provisioning

\* An interrupted build returns even if the hypervisor hangs, or the guest
\* does with a provisioner in it.
CancelTerminates == cancelled ~> pc = "done"

\* The hypervisor process of a build that returned does disappear.
HypervisorGone == pc = "done" ~> ~Alive

-----------------------------------------------------------------------------
(* The inductive invariant the proofs rest on, in four parts.              *)

\* Where the goroutine can be in which step, and with which request.
Requesting ==
    {"ping", "create", "boot", "shutdown", "poll", "force", "delete"}

OpOf(p) == IF p = "poll" THEN "info"
           ELSE IF p = "force" THEN "delete"
           ELSE p

ControlInv ==
    /\ \A s \in Steps : pc = Entry[s] => step = s
    /\ pc = "ping" => step = Launch
    /\ pc \in {"poll", "force", "delete"} => step = Shutdown
    /\ pc = "copy" => step = Collect
    /\ pc \in {"term", "reap", "remove"} => step = Launch
    /\ pc = "halt" => step \in Steps
    /\ pc = "done" => step = 0
    /\ IF pc \in Running THEN ran = step ELSE step <= ran
    /\ pc \in {"force", "delete"} => call # Idle
    /\ call # Idle =>
          /\ pc \in Requesting
          /\ call.op = OpOf(pc)
          /\ call.ctx = IF pc = "delete" THEN "background" ELSE "build"
    /\ pc \in {"launch", "shutdown"} => iter = 0
    /\ pc = "ping" => iter <= PingRetries /\ (call # Idle => iter < PingRetries)
    /\ pc = "poll" => iter <= MaxPolls /\ (call # Idle => iter < MaxPolls)

\* The process exists when its handle is in the bag, holds a VM only while
\* it serves, and is finished with once the socket is about to be removed.
ProcessInv ==
    /\ (proc = "none") <=> ("ch_cmd" \notin bag)
    /\ proc = "none" => signals = {}
    /\ proc \notin {"serving", "stuck"} => vm = "none" /\ late = {}
    /\ (pc = "launch" \/ ran = 0) => "ch_cmd" \notin bag
    /\ (ran > Launch \/ (pc = "continue" /\ step = Launch)) => "ch_client" \in bag
    /\ "ch_client" \in bag \/ pc \in {"ping", "term", "reap"} => "ch_cmd" \in bag
    /\ (pc = "remove" \/ (pc \notin Running /\ step = 0))
          => ~Alive \/ "KILL" \in signals
    /\ "remove" \notin Faults /\ pc \notin Running /\ step = 0 /\ ran >= Launch
          => ~socket \/ "KILL" \in signals

\* What the state bag and the loop counter say of the work done.
OutcomeInv ==
    /\ pc = "halt" => "error" \in bag \/ cancelled
    /\ pc = "collect" => iter = 0
    /\ pc = "copy" => writable > 0 /\ iter <= writable
    /\ "artifact" \in bag =>
          /\ pc \notin Running \/ pc = "continue"
          /\ ran = Collect
          /\ writable > 0
          /\ iter = writable
    /\ "error" \in bag => pc \notin Running \/ pc = "halt"
    /\ pc = "continue" /\ step = Collect => "artifact" \in bag \/ writable = 0
    /\ pc \notin Running =>
          "error" \in bag \/ "artifact" \in bag \/ writable = 0 \/ cancelled

\* Who still can make the guest run, and where it is known not to.
GuestInv ==
    /\ "boot" \in late => cancelled /\ ran <= Boot
    /\ "api" \notin Faults =>
          /\ pc \in {"poll", "force"} /\ call.reply \in {"err", "ok"}
                => ~GuestActive \/ cancelled \/ (pc = "poll" /\ call.reply = "ok")
          /\ pc = "continue" /\ step = Shutdown => ~GuestActive \/ cancelled
          /\ pc \in {"collect", "copy"} => ~GuestActive
          /\ pc = "delete" /\ call.reply # "wait" => ~GuestActive
          /\ pc \in Cleaning /\ ran >= Shutdown /\ step < Shutdown => ~GuestActive

\* Every part holds in every state, and together they imply the properties
\* above: the statement of what the builder's control flow relies on.
IInv == TypeOK /\ ControlInv /\ ProcessInv /\ OutcomeInv /\ GuestInv

-----------------------------------------------------------------------------
(* Builder.Run implements the lifecycle it promises.                       *)

Phase ==
    IF pc \in Running THEN "run" ELSE IF pc \in Cleaning THEN "cleanup" ELSE "done"

Held == Alive /\ "KILL" \notin signals

Lifecycle == INSTANCE BuildLifecycle WITH
    phase <- Phase, undo <- step, held <- Held, outcome <- Result

\* Steps in order, none after an interruption, cleanup in reverse order, the
\* hypervisor started by step 1 only and given back before the build returns.
ImplementsLifecycle == Lifecycle!AbsSpec
=============================================================================
