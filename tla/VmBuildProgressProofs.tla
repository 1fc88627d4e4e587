------------------------ MODULE VmBuildProgressProofs ------------------------
(***************************************************************************)
(* Proofs about VmBuild: that a guest starts in step 3 only, and that the  *)
(* builder never goes round in circles.                                    *)
(***************************************************************************)
EXTENDS VmBuildProofs, RanksProofs

\* A guest is started by a vm.boot the builder waits for, or by one it gave
\* up in an interrupted step 3.
THEOREM GuestStartsInBoot == Spec => GuestStarts
  <1>1. IInv /\ [Next]_vars => [StartsInBoot]_vars
    <2> SUFFICES ASSUME IInv, Next, ~GuestActive, GuestActive'
                 PROVE  \/ pc = "boot" /\ call.reply = "wait"
                        \/ cancelled /\ ran <= Boot
      BY DEF StartsInBoot
    <2> USE DEF IInv, GuestActive
    <2>1. CASE Serve /\ UNCHANGED <<cancelled, buildVars>>
      <3>1. call.op = "boot" /\ call.reply = "wait"
        BY <2>1 DEF Serve, Execute, Accepts
      <3>2. pc = "boot"
        BY <3>1, IdleHasNoReply DEF ControlInv, Requesting, OpOf
      <3> QED
        BY <3>1, <3>2
    <2>2. CASE LateServe /\ UNCHANGED <<cancelled, buildVars>>
      <3>1. "boot" \in late
        BY <2>2 DEF LateServe, Execute, Accepts
      <3> QED
        BY <3>1 DEF GuestInv
    <2>3. CASE vm' \in {vm, "off", "none"}
      BY <2>3
    <2>4. vm' \in {vm, "off", "none"} \/ (Environment /\ (Serve \/ LateServe))
      <3>1. CASE RunSteps
        BY <3>1 DEF RunSteps, NextStep, StopRunning, LaunchFails, LaunchStarts,
              PingCancelled, PingSend, PingReply, PingGivesUp, CreateSend,
              CreateReply, BootSend, BootReply, WithClient, ConnectProvision,
              ShutdownSend, ShutdownReply, PollCancelled, PollSend, PollReply,
              PollTimesOut, ForceReply, CollectStarts, CopyDisk, CopyFails,
              CollectEnds, Local, Calling, chVars
      <3>2. CASE CleanupSteps
        BY <3>2 DEF CleanupSteps, CleanupNothing, CleanupShutdown,
              CleanupDeleteReply, CleanupLaunch, CleanupSignal, CleanupReaped,
              CleanupKills, RemoveSocket, Return, Local, Calling, chVars
      <3>3. CASE Environment
        BY <3>3 DEF Environment, Hypervisor, ConnectionFails, Bind, Crash, Hang,
              GuestStops, Terminated, Killed, Die
      <3>4. CASE CtxAborts \/ CtxKill \/ Cancel \/ Finished
        BY <3>4 DEF CtxAborts, CtxKill, Cancel, Finished, vars, chVars
      <3> QED
        BY <3>1, <3>2, <3>3, <3>4 DEF Next, Builder
    <2> QED
      BY <2>1, <2>2, <2>3, <2>4 DEF Environment
  <1> QED
    BY Invariance, <1>1, PTL DEF Spec, GuestStarts

-----------------------------------------------------------------------------
(* The rank of a build.                                                    *)

\* The most significant part of Rank that differs has become smaller.
Falls ==
    \/ StageLeft' < StageLeft
    \/ /\ StageLeft' = StageLeft
       /\ \/ StepsLeft' < StepsLeft
          \/ /\ StepsLeft' = StepsLeft
             /\ \/ StretchesLeft' < StretchesLeft
                \/ /\ StretchesLeft' = StretchesLeft
                   /\ \/ TurnsLeft' < TurnsLeft
                      \/ /\ TurnsLeft' = TurnsLeft
                         /\ call = Idle /\ call' # Idle

\* This is the order of tuples.
LEMMA FallsIsLess == Falls => Less(Rank', Rank)
  <1> SUFFICES ASSUME Falls PROVE Less(Rank', Rank)
    OBVIOUS
  <1>1. DOMAIN Rank = 1..5
    BY DEF Rank
  <1>2. ASSUME NEW i \in 1..5, Rank'[i] < Rank[i],
               \A j \in 1..(i - 1) : Rank'[j] = Rank[j]
        PROVE  Less(Rank', Rank)
    BY <1>1, <1>2 DEF Less
  <1>3. CASE StageLeft' < StageLeft
    BY <1>2, <1>3 DEF Rank
  <1>4. CASE StageLeft' = StageLeft /\ StepsLeft' < StepsLeft
    BY <1>2, <1>4 DEF Rank
  <1>5. CASE /\ StageLeft' = StageLeft /\ StepsLeft' = StepsLeft
             /\ StretchesLeft' < StretchesLeft
    BY <1>2, <1>5 DEF Rank
  <1>6. CASE /\ StageLeft' = StageLeft /\ StepsLeft' = StepsLeft
             /\ StretchesLeft' = StretchesLeft /\ TurnsLeft' < TurnsLeft
    BY <1>2, <1>6 DEF Rank
  <1>7. CASE /\ StageLeft' = StageLeft /\ StepsLeft' = StepsLeft
             /\ StretchesLeft' = StretchesLeft /\ TurnsLeft' = TurnsLeft
             /\ call = Idle /\ call' # Idle
    BY <1>2, <1>7 DEF Rank
  <1> QED
    BY <1>3, <1>4, <1>5, <1>6, <1>7 DEF Falls

\* A rank is a tuple of five natural numbers, so that NoEndlessDescent
\* applies to it: the builder takes finitely many steps.
THEOREM RanksAreNatural == Spec => [](Rank \in [1..5 -> Nat])
  <1>1. IInv => Rank \in [1..5 -> Nat]
    <2> SUFFICES ASSUME IInv PROVE Rank \in [1..5 -> Nat]
      OBVIOUS
    <2>1. StageLeft \in Nat /\ StretchesLeft \in Nat
      BY DEF StageLeft, StretchesLeft
    <2>2. StepsLeft \in Nat /\ TurnsLeft \in Nat
      BY BoundsAssumption DEF IInv, TypeOK, StepsLeft, TurnsLeft, Collect
    <2> QED
      BY <2>1, <2>2 DEF Rank
  <1> QED
    BY Invariance, <1>1, PTL

\* Inside a step, stretches, turns or the request decide.
LEMMA InsideFalls ==
    ASSUME \/ pc \in Running /\ pc' \in Running
           \/ pc \in Cleaning /\ pc' \in Cleaning,
           step' = step,
           \/ StretchesLeft' < StretchesLeft
           \/ /\ StretchesLeft' = StretchesLeft
              /\ \/ TurnsLeft' < TurnsLeft
                 \/ TurnsLeft' = TurnsLeft /\ call = Idle /\ call' # Idle
    PROVE  Falls
  <1>1. StageLeft' = StageLeft /\ StepsLeft' = StepsLeft
    BY DEF StageLeft, StepsLeft, Running, Cleaning
  <1> QED
    BY <1>1 DEF Falls

\* A request is sent in the same stretch and turn, or the step fails.
LEMMA SendFalls ==
    ASSUME IInv,
           \/ PingSend \/ PollSend
           \/ CreateSend \/ BootSend \/ ShutdownSend
    PROVE  \/ StretchesLeft' < StretchesLeft
           \/ /\ StretchesLeft' = StretchesLeft /\ TurnsLeft' = TurnsLeft
              /\ call = Idle /\ call' # Idle
  <1> USE DEF StretchesLeft, TurnsLeft, Ops, Contexts
  <1>1. CASE PingSend \/ PollSend
    BY <1>1, RequestMade DEF PingSend, PollSend, Ping, VMInfo, buildVars
  <1>2. CASE CreateSend
    BY <1>2, RequestMade DEF CreateSend, WithClient, CreateVM, Fail
  <1>3. CASE BootSend
    BY <1>3, RequestMade DEF BootSend, WithClient, BootVM, Fail
  <1>4. CASE ShutdownSend
    BY <1>4, RequestMade DEF ShutdownSend, WithClient, ShutdownVM, Fail
  <1> QED
    BY <1>1, <1>2, <1>3, <1>4

\* The turns of the three loops are counted.
LEMMA LoopFalls ==
    ASSUME IInv, PingReply \/ PollReply \/ CopyDisk
    PROVE  \/ StretchesLeft' < StretchesLeft
           \/ StretchesLeft' = StretchesLeft /\ TurnsLeft' < TurnsLeft
  <1>1. iter' = iter + 1 => TurnsLeft' < TurnsLeft
    BY BoundsAssumption DEF TurnsLeft, IInv, TypeOK
  <1>2. CASE PingReply
    BY <1>1, <1>2 DEF PingReply, StretchesLeft
  <1>3. CASE PollReply
    BY <1>1, <1>3 DEF PollReply, Continue, StretchesLeft
  <1>4. CASE CopyDisk
    BY <1>1, <1>4 DEF CopyDisk, StretchesLeft
  <1> QED
    BY <1>2, <1>3, <1>4

\* Every step of the run leaves less to do.
LEMMA RunFalls == IInv /\ RunSteps => Falls
  <1> SUFFICES ASSUME IInv, RunSteps PROVE Falls
    OBVIOUS
  <1>1. CASE NextStep
    <2>1. pc \in Running /\ pc' \in Running
      BY <1>1 DEF NextStep, Running, Entry, Collect, IInv, TypeOK
    <2>2. StepsLeft' < StepsLeft
      BY <1>1, <2>1 DEF NextStep, StepsLeft, Collect, IInv, TypeOK
    <2> QED
      BY <2>1, <2>2 DEF Falls, StageLeft
  <1>2. CASE StopRunning
    BY <1>2 DEF StopRunning, Falls, StageLeft, Running, Cleaning
  <1>3. CASE LaunchStarts
    <2>1. pc \in Running /\ pc' \in Running /\ step' = step
      BY <1>3 DEF LaunchStarts, Running
    <2>2. StretchesLeft' < StretchesLeft
      BY <1>3 DEF LaunchStarts, StretchesLeft
    <2> QED
      BY <2>1, <2>2, InsideFalls
  <1>4. CASE Inside
    <2>1. pc \in Running /\ pc' \in Running /\ step' = step
      BY <1>4 DEF Inside
    <2>2. CASE \/ LaunchFails \/ PingCancelled \/ PingGivesUp
               \/ CreateReply \/ BootReply \/ ConnectProvision
               \/ ShutdownReply \/ PollCancelled \/ PollTimesOut \/ ForceReply
               \/ CollectStarts \/ CopyFails \/ CollectEnds
      <3>1. StretchesLeft' < StretchesLeft
        BY <2>2 DEF LaunchFails, PingCancelled, PingGivesUp, CreateReply,
              BootReply, ConnectProvision, ShutdownReply, PollCancelled,
              PollTimesOut, ForceReply, CollectStarts, CopyFails, CollectEnds,
              Continue, Fail, Halt, StretchesLeft
      <3> QED
        BY <2>1, <3>1, InsideFalls
    <2>3. CASE \/ PingSend \/ PollSend
               \/ CreateSend \/ BootSend \/ ShutdownSend
      BY <2>1, <2>3, SendFalls, InsideFalls
    <2>4. CASE PingReply \/ PollReply \/ CopyDisk
      BY <2>1, <2>4, LoopFalls, InsideFalls
    <2> QED
      BY <1>1, <1>2, <1>3, <2>2, <2>3, <2>4 DEF RunSteps
  <1> QED
    BY <1>1, <1>2, <1>3, <1>4, RunStepKinds

\* Every step of the cleanup leaves less to do.
LEMMA CleanupFalls == IInv /\ CleanupSteps => Falls
  <1> SUFFICES ASSUME IInv, CleanupSteps PROVE Falls
    OBVIOUS
  <1>1. ASSUME pc \in Cleaning, pc' \in Cleaning, step' = step - 1,
               step \in Steps
        PROVE  Falls
    <2>1. StageLeft' = StageLeft
      BY <1>1 DEF StageLeft, Running, Cleaning
    <2>2. StepsLeft' < StepsLeft
      BY <1>1 DEF StepsLeft, Running, Cleaning, Steps
    <2> QED
      BY <2>1, <2>2 DEF Falls
  <1>2. ASSUME pc \in Cleaning, pc' \in Cleaning, step' = step,
               StretchesLeft' < StretchesLeft
        PROVE  Falls
    BY <1>2, InsideFalls
  <1> USE DEF Cleaning, Steps
  <1>3. CASE CleanupNothing
    BY <1>1, <1>3 DEF CleanupNothing
  <1>4. CASE CleanupShutdown
    BY <1>1, <1>2, <1>4 DEF CleanupShutdown, Shutdown, StretchesLeft
  <1>5. CASE CleanupDeleteReply
    BY <1>1, <1>5 DEF CleanupDeleteReply, IInv, ControlInv, Shutdown
  <1>6. CASE CleanupLaunch \/ CleanupSignal \/ CleanupReaped \/ CleanupKills
    BY <1>2, <1>6 DEF CleanupLaunch, CleanupSignal, CleanupReaped, CleanupKills,
          StretchesLeft
  <1>7. CASE RemoveSocket
    BY <1>1, <1>7 DEF RemoveSocket, IInv, ControlInv, Launch
  <1>8. CASE Return
    BY <1>8 DEF Return, Falls, StageLeft, Running
  <1> QED
    BY <1>3, <1>4, <1>5, <1>6, <1>7, <1>8 DEF CleanupSteps

\* No other actor changes what is left to do.
LEMMA OthersKeepRank ==
    ASSUME IInv,
           \/ Environment \/ (CtxAborts /\ UNCHANGED buildVars)
           \/ CtxKill \/ Cancel \/ Finished \/ UNCHANGED vars
    PROVE  Rank' = Rank
  <1>1. UNCHANGED buildVars
    BY DEF Environment, CtxKill, Cancel, Finished, vars
  <1>2. (call' = Idle) <=> (call = Idle)
    <2>1. CASE call' = call
      BY <2>1
    <2>2. CASE \E r \in Replies : call # Idle /\ call' = [call EXCEPT !.reply = r]
      BY <2>2, ReplyArrives DEF IInv, TypeOK, CHTypeOK
    <2>3. call' = call \/ \E r \in Replies :
                               call # Idle /\ call' = [call EXCEPT !.reply = r]
      <3>1. CASE Environment
        BY <3>1, IdleHasNoReply DEF Environment, Hypervisor, Serve,
              ConnectionFails, LateServe, Bind, Crash, Hang, GuestStops,
              Terminated, Killed, Replies
      <3>2. CASE CtxAborts
        BY <3>2, IdleHasNoReply DEF CtxAborts, Replies
      <3>3. CASE CtxKill \/ Cancel \/ Finished \/ UNCHANGED vars
        BY <3>3 DEF CtxKill, Cancel, Finished, vars, chVars
      <3> QED
        BY <3>1, <3>2, <3>3
    <2> QED
      BY <2>1, <2>2, <2>3
  <1> QED
    BY <1>1, <1>2 DEF Rank, buildVars, StageLeft, StepsLeft, StretchesLeft,
          TurnsLeft

\* Each step of the builder leaves less to do, and no step of another actor
\* gives it more: the safety half of the termination of every build.
THEOREM BuilderMakesProgress == Spec => BuilderProgress
  <1>1. IInv /\ [Next]_vars
            => [IF Builder THEN Less(Rank', Rank) ELSE Rank' = Rank]_vars
    <2> SUFFICES ASSUME IInv, Next
                 PROVE  IF Builder THEN Less(Rank', Rank) ELSE Rank' = Rank
      OBVIOUS
    <2>1. CASE Builder
      BY <2>1, RunFalls, CleanupFalls, FallsIsLess DEF Builder
    <2>2. CASE ~Builder
      BY <2>2, OthersKeepRank DEF Next
    <2> QED
      BY <2>1, <2>2
  <1> QED
    BY Invariance, <1>1, PTL DEF Spec, BuilderProgress
=============================================================================
