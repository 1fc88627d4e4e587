---------------------------- MODULE VmBuildProofs ----------------------------
(***************************************************************************)
(* Proofs about VmBuild: its inductive invariant, the safety properties it *)
(* implies, and that every build implements BuildLifecycle, for any number *)
(* of ping retries, polls and disks and for any set of faults.             *)
(***************************************************************************)
EXTENDS VmBuild, TLAPS

\* A request that has been made is outstanding and waits for its reply.
LEMMA RequestMade ==
    ASSUME NEW op \in Ops, NEW ctx \in Contexts, Request(op, ctx)
    PROVE  /\ call = Idle
           /\ call' \in Calls
           /\ call' # Idle
           /\ call'.op = op
           /\ call'.ctx = ctx
           /\ call'.reply = "wait"
  BY DEF Request, Calls, Idle, Contexts, Ops, Replies

\* A client method that returns leaves no request behind.
LEMMA AnswerTaken ==
    ASSUME NEW op \in Ops, NEW reply \in Replies, Answered(op, reply)
    PROVE  /\ call # Idle
           /\ call.op = op
           /\ call.reply = reply
           /\ call' = Idle
           /\ call' \in Calls
  BY DEF Answered, Calls, Idle, Contexts, Ops, Replies

\* A reply changes nothing else of the request.
LEMMA ReplyArrives ==
    ASSUME NEW r \in Replies, call \in Calls, call # Idle,
           call' = [call EXCEPT !.reply = r]
    PROVE  /\ call' \in Calls
           /\ call' # Idle
           /\ call'.op = call.op
           /\ call'.ctx = call.ctx
           /\ call'.reply = r
  BY DEF Calls, Idle, Ops, Replies

\* When no request is outstanding nothing is being waited for.
LEMMA IdleHasNoReply == Idle.op = "none" /\ Idle.reply = "none" /\ Idle \in Calls
  BY DEF Idle, Calls

-----------------------------------------------------------------------------

\* Every step preserves the types.
LEMMA TypeStep == IInv /\ [Next]_vars => TypeOK'
  <1> SUFFICES ASSUME IInv, [Next]_vars PROVE TypeOK'
    OBVIOUS
  <1> USE BoundsAssumption, IdleHasNoReply
      DEF IInv, TypeOK, CHTypeOK, ControlInv, OutcomeInv, Procs, VMs, Updates,
          Ops, Contexts, Replies, Running, Cleaning, Local, chVars, buildVars,
          vars, Launch, Create, Boot, Connect, Provision, Shutdown, Collect,
          Steps
  <1>1. CASE NextStep
    BY <1>1 DEF NextStep, Entry
  <1>2. CASE StopRunning
    BY <1>2 DEF StopRunning
  <1>3. CASE LaunchFails
    BY <1>3 DEF LaunchFails, Fail
  <1>4. CASE LaunchStarts
    BY <1>4 DEF LaunchStarts
  <1>5. CASE PingCancelled
    BY <1>5 DEF PingCancelled, Halt
  <1>6. CASE PingSend
    BY <1>6, RequestMade DEF PingSend, Calling, Ping
  <1>7. CASE PingReply
    <2>1. iter' \in 0..(PingRetries + MaxPolls + MaxDisks)
      BY <1>7, AnswerTaken DEF PingReply
    <2>2. bag' \subseteq {"error", "artifact", "ch_cmd", "ch_client"}
      BY <1>7 DEF PingReply
    <2>3. call' \in Calls /\ pc' \in {"ping", "continue"}
      BY <1>7, AnswerTaken DEF PingReply
    <2> QED
      BY <1>7, <2>1, <2>2, <2>3 DEF PingReply, Calling
  <1>8. CASE PingGivesUp
    BY <1>8 DEF PingGivesUp, Fail
  <1>9. CASE CreateSend
    BY <1>9, RequestMade DEF CreateSend, Calling, WithClient, Fail, CreateVM
  <1>10. CASE CreateReply
    BY <1>10, AnswerTaken DEF CreateReply, Calling, Continue, Fail
  <1>11. CASE BootSend
    BY <1>11, RequestMade DEF BootSend, Calling, WithClient, Fail, BootVM
  <1>12. CASE BootReply
    BY <1>12, AnswerTaken DEF BootReply, Calling, Continue, Fail
  <1>13. CASE ConnectProvision
    BY <1>13 DEF ConnectProvision, Continue, Fail, Halt
  <1>14. CASE ShutdownSend
    BY <1>14, RequestMade DEF ShutdownSend, Calling, WithClient, Fail,
        ShutdownVM
  <1>15. CASE ShutdownReply
    BY <1>15, AnswerTaken DEF ShutdownReply, Calling
  <1>16. CASE PollCancelled
    BY <1>16 DEF PollCancelled, Halt
  <1>17. CASE PollSend
    BY <1>17, RequestMade DEF PollSend, Calling, VMInfo
  <1>18. CASE PollReply
    <2>1. iter' \in 0..(PingRetries + MaxPolls + MaxDisks)
      BY <1>18, AnswerTaken DEF PollReply
    <2>2. call' \in Calls /\ pc' \in {"poll", "continue"} /\ bag' = bag
      BY <1>18, AnswerTaken DEF PollReply, Continue
    <2> QED
      BY <1>18, <2>1, <2>2 DEF PollReply, Calling
  <1>19. CASE PollTimesOut
    BY <1>19, RequestMade DEF PollTimesOut, Calling, DeleteVM
  <1>20. CASE ForceReply
    BY <1>20, AnswerTaken DEF ForceReply, Calling, Continue
  <1>21. CASE CollectStarts
    BY <1>21 DEF CollectStarts, Continue, Fail
  <1>22. CASE CopyDisk
    BY <1>22 DEF CopyDisk
  <1>23. CASE CopyFails
    BY <1>23 DEF CopyFails, Fail
  <1>24. CASE CollectEnds
    BY <1>24 DEF CollectEnds
  <1>25. CASE CleanupNothing
    BY <1>25 DEF CleanupNothing
  <1>26. CASE CleanupShutdown
    BY <1>26, RequestMade DEF CleanupShutdown, Calling, DeleteVM
  <1>27. CASE CleanupDeleteReply
    BY <1>27, AnswerTaken DEF CleanupDeleteReply, Calling
  <1>28. CASE CleanupLaunch
    BY <1>28 DEF CleanupLaunch
  <1>29. CASE CleanupSignal
    BY <1>29 DEF CleanupSignal
  <1>30. CASE CleanupReaped
    BY <1>30 DEF CleanupReaped
  <1>31. CASE CleanupKills
    BY <1>31 DEF CleanupKills
  <1>32. CASE RemoveSocket
    <2>1. socket' \in BOOLEAN
      BY <1>32, Zenon DEF RemoveSocket
    <2> QED
      BY <1>32, <2>1 DEF RemoveSocket
  <1>33. CASE Return
    BY <1>33 DEF Return
  <1>34. CASE Serve /\ UNCHANGED <<cancelled, buildVars>>
    BY <1>34, ReplyArrives DEF Serve, Execute
  <1>35. CASE ConnectionFails /\ UNCHANGED <<cancelled, buildVars>>
    BY <1>35, ReplyArrives DEF ConnectionFails
  <1>36. CASE LateServe /\ UNCHANGED <<cancelled, buildVars>>
    BY <1>36 DEF LateServe, Execute
  <1>37. CASE Bind /\ UNCHANGED <<cancelled, buildVars>>
    BY <1>37 DEF Bind
  <1>38. CASE Crash /\ UNCHANGED <<cancelled, buildVars>>
    BY <1>38 DEF Crash, Die
  <1>39. CASE Hang /\ UNCHANGED <<cancelled, buildVars>>
    BY <1>39 DEF Hang
  <1>40. CASE GuestStops /\ UNCHANGED <<cancelled, buildVars>>
    BY <1>40 DEF GuestStops
  <1>41. CASE Terminated /\ UNCHANGED <<cancelled, buildVars>>
    BY <1>41 DEF Terminated, Die
  <1>42. CASE Killed /\ UNCHANGED <<cancelled, buildVars>>
    BY <1>42 DEF Killed, Die
  <1>43. CASE CtxAborts /\ UNCHANGED buildVars
    BY <1>43, ReplyArrives DEF CtxAborts
  <1>44. CASE CtxKill
    BY <1>44 DEF CtxKill
  <1>45. CASE Cancel
    BY <1>45 DEF Cancel
  <1>46. CASE UNCHANGED vars
    BY <1>46 DEF vars
  <1> QED
    BY <1>1, <1>2, <1>3, <1>4, <1>5, <1>6, <1>7, <1>8, <1>9, <1>10,
       <1>11, <1>12, <1>13, <1>14, <1>15, <1>16, <1>17, <1>18, <1>19, <1>20,
       <1>21, <1>22, <1>23, <1>24, <1>25, <1>26, <1>27, <1>28, <1>29, <1>30,
       <1>31, <1>32, <1>33, <1>34, <1>35, <1>36, <1>37, <1>38, <1>39, <1>40,
       <1>41, <1>42, <1>43, <1>44, <1>45, <1>46
    DEF Next, Builder, RunSteps, CleanupSteps, Environment, Hypervisor, Finished

\* Every step keeps pc, step, ran and the outstanding request in line.
LEMMA ControlStep == IInv /\ [Next]_vars => ControlInv'
  <1> SUFFICES ASSUME IInv, [Next]_vars PROVE ControlInv'
    OBVIOUS
  <1> USE BoundsAssumption, IdleHasNoReply
      DEF IInv, TypeOK, CHTypeOK, ControlInv, Entry, Requesting, OpOf, Ops,
          Contexts, Replies, Running, Cleaning, Local, chVars, buildVars, vars,
          Launch, Create, Boot, Connect, Provision, Shutdown, Collect, Steps
  <1>1. CASE NextStep
    BY <1>1 DEF NextStep
  <1>2. CASE StopRunning
    BY <1>2 DEF StopRunning
  <1>3. CASE LaunchFails
    BY <1>3 DEF LaunchFails, Fail
  <1>4. CASE LaunchStarts
    BY <1>4 DEF LaunchStarts
  <1>5. CASE PingCancelled
    BY <1>5 DEF PingCancelled, Halt
  <1>6. CASE PingSend
    BY <1>6, RequestMade DEF PingSend, Calling, Ping
  <1>7. CASE PingReply
    BY <1>7, AnswerTaken DEF PingReply, Calling
  <1>8. CASE PingGivesUp
    BY <1>8 DEF PingGivesUp, Fail
  <1>9. CASE CreateSend
    BY <1>9, RequestMade DEF CreateSend, Calling, WithClient, Fail, CreateVM
  <1>10. CASE CreateReply
    BY <1>10, AnswerTaken DEF CreateReply, Calling, Continue, Fail
  <1>11. CASE BootSend
    BY <1>11, RequestMade DEF BootSend, Calling, WithClient, Fail, BootVM
  <1>12. CASE BootReply
    BY <1>12, AnswerTaken DEF BootReply, Calling, Continue, Fail
  <1>13. CASE ConnectProvision
    BY <1>13 DEF ConnectProvision, Continue, Fail, Halt
  <1>14. CASE ShutdownSend
    BY <1>14, RequestMade DEF ShutdownSend, Calling, WithClient, Fail,
        ShutdownVM
  <1>15. CASE ShutdownReply
    BY <1>15, AnswerTaken DEF ShutdownReply, Calling
  <1>16. CASE PollCancelled
    BY <1>16 DEF PollCancelled, Halt
  <1>17. CASE PollSend
    BY <1>17, RequestMade DEF PollSend, Calling, VMInfo
  <1>18. CASE PollReply
    BY <1>18, AnswerTaken DEF PollReply, Calling, Continue
  <1>19. CASE PollTimesOut
    BY <1>19, RequestMade DEF PollTimesOut, Calling, DeleteVM
  <1>20. CASE ForceReply
    BY <1>20, AnswerTaken DEF ForceReply, Calling, Continue
  <1>21. CASE CollectStarts
    BY <1>21 DEF CollectStarts, Continue, Fail
  <1>22. CASE CopyDisk
    BY <1>22 DEF CopyDisk
  <1>23. CASE CopyFails
    BY <1>23 DEF CopyFails, Fail
  <1>24. CASE CollectEnds
    BY <1>24 DEF CollectEnds
  <1>25. CASE CleanupNothing
    BY <1>25 DEF CleanupNothing
  <1>26. CASE CleanupShutdown
    BY <1>26, RequestMade DEF CleanupShutdown, Calling, DeleteVM
  <1>27. CASE CleanupDeleteReply
    BY <1>27, AnswerTaken DEF CleanupDeleteReply, Calling
  <1>28. CASE CleanupLaunch
    BY <1>28 DEF CleanupLaunch
  <1>29. CASE CleanupSignal
    BY <1>29 DEF CleanupSignal
  <1>30. CASE CleanupReaped
    BY <1>30 DEF CleanupReaped
  <1>31. CASE CleanupKills
    BY <1>31 DEF CleanupKills
  <1>32. CASE RemoveSocket
    BY <1>32 DEF RemoveSocket
  <1>33. CASE Return
    BY <1>33 DEF Return
  <1>34. CASE Serve /\ UNCHANGED <<cancelled, buildVars>>
    BY <1>34, ReplyArrives DEF Serve
  <1>35. CASE ConnectionFails /\ UNCHANGED <<cancelled, buildVars>>
    BY <1>35, ReplyArrives DEF ConnectionFails
  <1>36. CASE /\ \/ LateServe \/ Bind \/ Crash \/ Hang
                  \/ GuestStops \/ Terminated \/ Killed
              /\ UNCHANGED <<cancelled, buildVars>>
    BY <1>36 DEF LateServe, Bind, Crash, Hang, GuestStops, Terminated, Killed
  <1>37. CASE CtxAborts /\ UNCHANGED buildVars
    BY <1>37, ReplyArrives DEF CtxAborts
  <1>38. CASE CtxKill
    BY <1>38 DEF CtxKill
  <1>39. CASE Cancel
    BY <1>39 DEF Cancel
  <1>40. CASE UNCHANGED vars
    BY <1>40 DEF vars
  <1> QED
    BY <1>1, <1>2, <1>3, <1>4, <1>5, <1>6, <1>7, <1>8, <1>9, <1>10,
       <1>11, <1>12, <1>13, <1>14, <1>15, <1>16, <1>17, <1>18, <1>19, <1>20,
       <1>21, <1>22, <1>23, <1>24, <1>25, <1>26, <1>27, <1>28, <1>29, <1>30,
       <1>31, <1>32, <1>33, <1>34, <1>35, <1>36, <1>37, <1>38, <1>39, <1>40
    DEF Next, Builder, RunSteps, CleanupSteps, Environment, Hypervisor, Finished

\* Every step keeps the process in line with the state bag and the cleanup.
LEMMA ProcessStep == IInv /\ [Next]_vars => ProcessInv'
  <1> SUFFICES ASSUME IInv, [Next]_vars PROVE ProcessInv'
    OBVIOUS
  <1> USE BoundsAssumption, IdleHasNoReply
      DEF IInv, TypeOK, CHTypeOK, ControlInv, ProcessInv, Entry, Requesting,
          OpOf, Alive, Procs, VMs, Ops, Contexts, Replies, Running, Cleaning,
          Local, chVars, buildVars, vars, Launch, Create, Boot, Connect,
          Provision, Shutdown, Collect, Steps
  <1>1. CASE NextStep
    BY <1>1 DEF NextStep
  <1>2. CASE StopRunning
    BY <1>2 DEF StopRunning
  <1>3. CASE LaunchFails
    BY <1>3 DEF LaunchFails, Fail
  <1>4. CASE LaunchStarts
    BY <1>4 DEF LaunchStarts
  <1>5. CASE PingCancelled
    BY <1>5 DEF PingCancelled, Halt
  <1>6. CASE PingSend
    BY <1>6, RequestMade DEF PingSend, Calling, Ping
  <1>7. CASE PingReply
    BY <1>7, AnswerTaken DEF PingReply, Calling
  <1>8. CASE PingGivesUp
    BY <1>8 DEF PingGivesUp, Fail
  <1>9. CASE CreateSend
    BY <1>9, RequestMade DEF CreateSend, Calling, WithClient, Fail, CreateVM
  <1>10. CASE CreateReply
    BY <1>10, AnswerTaken DEF CreateReply, Calling, Continue, Fail
  <1>11. CASE BootSend
    BY <1>11, RequestMade DEF BootSend, Calling, WithClient, Fail, BootVM
  <1>12. CASE BootReply
    BY <1>12, AnswerTaken DEF BootReply, Calling, Continue, Fail
  <1>13. CASE ConnectProvision
    BY <1>13 DEF ConnectProvision, Continue, Fail, Halt
  <1>14. CASE ShutdownSend
    BY <1>14, RequestMade DEF ShutdownSend, Calling, WithClient, Fail,
        ShutdownVM
  <1>15. CASE ShutdownReply
    BY <1>15, AnswerTaken DEF ShutdownReply, Calling
  <1>16. CASE PollCancelled
    BY <1>16 DEF PollCancelled, Halt
  <1>17. CASE PollSend
    BY <1>17, RequestMade DEF PollSend, Calling, VMInfo
  <1>18. CASE PollReply
    BY <1>18, AnswerTaken DEF PollReply, Calling, Continue
  <1>19. CASE PollTimesOut
    BY <1>19, RequestMade DEF PollTimesOut, Calling, DeleteVM
  <1>20. CASE ForceReply
    BY <1>20, AnswerTaken DEF ForceReply, Calling, Continue
  <1>21. CASE CollectStarts
    BY <1>21 DEF CollectStarts, Continue, Fail
  <1>22. CASE CopyDisk
    BY <1>22 DEF CopyDisk
  <1>23. CASE CopyFails
    BY <1>23 DEF CopyFails, Fail
  <1>24. CASE CollectEnds
    BY <1>24 DEF CollectEnds
  <1>25. CASE CleanupNothing
    BY <1>25 DEF CleanupNothing
  <1>26. CASE CleanupShutdown
    BY <1>26, RequestMade DEF CleanupShutdown, Calling, DeleteVM
  <1>27. CASE CleanupDeleteReply
    BY <1>27, AnswerTaken DEF CleanupDeleteReply, Calling
  <1>28. CASE CleanupLaunch
    BY <1>28 DEF CleanupLaunch
  <1>29. CASE CleanupSignal
    BY <1>29 DEF CleanupSignal
  <1>30. CASE CleanupReaped
    BY <1>30 DEF CleanupReaped
  <1>31. CASE CleanupKills
    BY <1>31 DEF CleanupKills
  <1>32. CASE RemoveSocket
    BY <1>32 DEF RemoveSocket
  <1>33. CASE Return
    BY <1>33 DEF Return
  <1>34. CASE Serve /\ UNCHANGED <<cancelled, buildVars>>
    BY <1>34, ReplyArrives DEF Serve, Execute, Accepts
  <1>35. CASE ConnectionFails /\ UNCHANGED <<cancelled, buildVars>>
    BY <1>35, ReplyArrives DEF ConnectionFails
  <1>36. CASE LateServe /\ UNCHANGED <<cancelled, buildVars>>
    BY <1>36 DEF LateServe, Execute, Accepts
  <1>37. CASE Bind /\ UNCHANGED <<cancelled, buildVars>>
    BY <1>37 DEF Bind
  <1>38. CASE Crash /\ UNCHANGED <<cancelled, buildVars>>
    BY <1>38 DEF Crash, Die
  <1>39. CASE Hang /\ UNCHANGED <<cancelled, buildVars>>
    BY <1>39 DEF Hang
  <1>40. CASE GuestStops /\ UNCHANGED <<cancelled, buildVars>>
    BY <1>40 DEF GuestStops, GuestActive
  <1>41. CASE Terminated /\ UNCHANGED <<cancelled, buildVars>>
    BY <1>41 DEF Terminated, Die
  <1>42. CASE Killed /\ UNCHANGED <<cancelled, buildVars>>
    BY <1>42 DEF Killed, Die
  <1>43. CASE CtxAborts /\ UNCHANGED buildVars
    BY <1>43, ReplyArrives DEF CtxAborts
  <1>44. CASE CtxKill
    BY <1>44 DEF CtxKill
  <1>45. CASE Cancel
    BY <1>45 DEF Cancel
  <1>46. CASE UNCHANGED vars
    BY <1>46 DEF vars
  <1> QED
    BY <1>1, <1>2, <1>3, <1>4, <1>5, <1>6, <1>7, <1>8, <1>9, <1>10,
       <1>11, <1>12, <1>13, <1>14, <1>15, <1>16, <1>17, <1>18, <1>19, <1>20,
       <1>21, <1>22, <1>23, <1>24, <1>25, <1>26, <1>27, <1>28, <1>29, <1>30,
       <1>31, <1>32, <1>33, <1>34, <1>35, <1>36, <1>37, <1>38, <1>39, <1>40,
       <1>41, <1>42, <1>43, <1>44, <1>45, <1>46
    DEF Next, Builder, RunSteps, CleanupSteps, Environment, Hypervisor, Finished

\* Every step keeps the outcome in line with the work done.
LEMMA OutcomeStep == IInv /\ [Next]_vars => OutcomeInv'
  <1> SUFFICES ASSUME IInv, [Next]_vars PROVE OutcomeInv'
    OBVIOUS
  <1> USE BoundsAssumption, IdleHasNoReply
      DEF IInv, TypeOK, CHTypeOK, ControlInv, OutcomeInv, Entry, Requesting,
          OpOf, Ops, Contexts, Replies, Running, Cleaning, Local, chVars,
          buildVars, vars, Launch, Create, Boot, Connect, Provision, Shutdown,
          Collect, Steps
  <1>1. CASE NextStep
    BY <1>1 DEF NextStep
  <1>2. CASE StopRunning
    BY <1>2 DEF StopRunning
  <1>3. CASE LaunchFails
    BY <1>3 DEF LaunchFails, Fail
  <1>4. CASE LaunchStarts
    BY <1>4 DEF LaunchStarts
  <1>5. CASE PingCancelled
    BY <1>5 DEF PingCancelled, Halt
  <1>6. CASE PingSend
    BY <1>6, RequestMade DEF PingSend, Calling, Ping
  <1>7. CASE PingReply
    BY <1>7, AnswerTaken DEF PingReply, Calling
  <1>8. CASE PingGivesUp
    BY <1>8 DEF PingGivesUp, Fail
  <1>9. CASE CreateSend
    BY <1>9, RequestMade DEF CreateSend, Calling, WithClient, Fail, CreateVM
  <1>10. CASE CreateReply
    BY <1>10, AnswerTaken DEF CreateReply, Calling, Continue, Fail
  <1>11. CASE BootSend
    BY <1>11, RequestMade DEF BootSend, Calling, WithClient, Fail, BootVM
  <1>12. CASE BootReply
    BY <1>12, AnswerTaken DEF BootReply, Calling, Continue, Fail
  <1>13. CASE ConnectProvision
    BY <1>13 DEF ConnectProvision, Continue, Fail, Halt
  <1>14. CASE ShutdownSend
    BY <1>14, RequestMade DEF ShutdownSend, Calling, WithClient, Fail,
        ShutdownVM
  <1>15. CASE ShutdownReply
    BY <1>15, AnswerTaken DEF ShutdownReply, Calling
  <1>16. CASE PollCancelled
    BY <1>16 DEF PollCancelled, Halt
  <1>17. CASE PollSend
    BY <1>17, RequestMade DEF PollSend, Calling, VMInfo
  <1>18. CASE PollReply
    BY <1>18, AnswerTaken DEF PollReply, Calling, Continue
  <1>19. CASE PollTimesOut
    BY <1>19, RequestMade DEF PollTimesOut, Calling, DeleteVM
  <1>20. CASE ForceReply
    BY <1>20, AnswerTaken DEF ForceReply, Calling, Continue
  <1>21. CASE CollectStarts
    BY <1>21 DEF CollectStarts, Continue, Fail
  <1>22. CASE CopyDisk
    BY <1>22 DEF CopyDisk
  <1>23. CASE CopyFails
    BY <1>23 DEF CopyFails, Fail
  <1>24. CASE CollectEnds
    BY <1>24 DEF CollectEnds
  <1>25. CASE CleanupNothing
    BY <1>25 DEF CleanupNothing
  <1>26. CASE CleanupShutdown
    BY <1>26, RequestMade DEF CleanupShutdown, Calling, DeleteVM
  <1>27. CASE CleanupDeleteReply
    BY <1>27, AnswerTaken DEF CleanupDeleteReply, Calling
  <1>28. CASE CleanupLaunch
    BY <1>28 DEF CleanupLaunch
  <1>29. CASE CleanupSignal
    BY <1>29 DEF CleanupSignal
  <1>30. CASE CleanupReaped
    BY <1>30 DEF CleanupReaped
  <1>31. CASE CleanupKills
    BY <1>31 DEF CleanupKills
  <1>32. CASE RemoveSocket
    BY <1>32 DEF RemoveSocket
  <1>33. CASE Return
    BY <1>33 DEF Return
  <1>34. CASE Environment
    BY <1>34 DEF Environment
  <1>35. CASE CtxAborts /\ UNCHANGED buildVars
    BY <1>35, ReplyArrives DEF CtxAborts
  <1>36. CASE CtxKill
    BY <1>36 DEF CtxKill
  <1>37. CASE Cancel
    BY <1>37 DEF Cancel
  <1>38. CASE UNCHANGED vars
    BY <1>38 DEF vars
  <1> QED
    BY <1>1, <1>2, <1>3, <1>4, <1>5, <1>6, <1>7, <1>8, <1>9, <1>10,
       <1>11, <1>12, <1>13, <1>14, <1>15, <1>16, <1>17, <1>18, <1>19, <1>20,
       <1>21, <1>22, <1>23, <1>24, <1>25, <1>26, <1>27, <1>28, <1>29, <1>30,
       <1>31, <1>32, <1>33, <1>34, <1>35, <1>36, <1>37, <1>38
    DEF Next, Builder, RunSteps, CleanupSteps, Environment, Hypervisor, Finished

\* Every step keeps the guest quiet where the build relies on it.
LEMMA GuestStep == IInv /\ [Next]_vars => GuestInv'
  <1> SUFFICES ASSUME IInv, [Next]_vars PROVE GuestInv'
    OBVIOUS
  <1> USE BoundsAssumption, IdleHasNoReply
      DEF IInv, TypeOK, CHTypeOK, ControlInv, ProcessInv, GuestInv, Entry,
          Requesting, OpOf, GuestActive, Procs, VMs, Updates, Ops, Contexts,
          Replies, Running, Cleaning, Local, chVars, buildVars, vars, Launch,
          Create, Boot, Connect, Provision, Shutdown, Collect, Steps
  <1>1. CASE NextStep
    BY <1>1 DEF NextStep
  <1>2. CASE StopRunning
    BY <1>2 DEF StopRunning
  <1>3. CASE LaunchFails
    BY <1>3 DEF LaunchFails, Fail
  <1>4. CASE LaunchStarts
    BY <1>4 DEF LaunchStarts
  <1>5. CASE PingCancelled
    BY <1>5 DEF PingCancelled, Halt
  <1>6. CASE PingSend
    BY <1>6, RequestMade DEF PingSend, Calling, Ping
  <1>7. CASE PingReply
    BY <1>7, AnswerTaken DEF PingReply, Calling
  <1>8. CASE PingGivesUp
    BY <1>8 DEF PingGivesUp, Fail
  <1>9. CASE CreateSend
    BY <1>9, RequestMade DEF CreateSend, Calling, WithClient, Fail, CreateVM
  <1>10. CASE CreateReply
    BY <1>10, AnswerTaken DEF CreateReply, Calling, Continue, Fail
  <1>11. CASE BootSend
    BY <1>11, RequestMade DEF BootSend, Calling, WithClient, Fail, BootVM
  <1>12. CASE BootReply
    BY <1>12, AnswerTaken DEF BootReply, Calling, Continue, Fail
  <1>13. CASE ConnectProvision
    BY <1>13 DEF ConnectProvision, Continue, Fail, Halt
  <1>14. CASE ShutdownSend
    BY <1>14, RequestMade DEF ShutdownSend, Calling, WithClient, Fail,
        ShutdownVM
  <1>15. CASE ShutdownReply
    BY <1>15, AnswerTaken DEF ShutdownReply, Calling
  <1>16. CASE PollCancelled
    BY <1>16 DEF PollCancelled, Halt
  <1>17. CASE PollSend
    BY <1>17, RequestMade DEF PollSend, Calling, VMInfo
  <1>18. CASE PollReply
    BY <1>18, AnswerTaken DEF PollReply, Calling, Continue
  <1>19. CASE PollTimesOut
    BY <1>19, RequestMade DEF PollTimesOut, Calling, DeleteVM
  <1>20. CASE ForceReply
    BY <1>20, AnswerTaken DEF ForceReply, Calling, Continue
  <1>21. CASE CollectStarts
    BY <1>21 DEF CollectStarts, Continue, Fail
  <1>22. CASE CopyDisk
    BY <1>22 DEF CopyDisk
  <1>23. CASE CopyFails
    BY <1>23 DEF CopyFails, Fail
  <1>24. CASE CollectEnds
    BY <1>24 DEF CollectEnds
  <1>25. CASE CleanupNothing
    BY <1>25 DEF CleanupNothing
  <1>26. CASE CleanupShutdown
    BY <1>26, RequestMade DEF CleanupShutdown, Calling, DeleteVM
  <1>27. CASE CleanupDeleteReply
    BY <1>27, AnswerTaken DEF CleanupDeleteReply, Calling
  <1>28. CASE CleanupLaunch
    BY <1>28 DEF CleanupLaunch
  <1>29. CASE CleanupSignal
    BY <1>29 DEF CleanupSignal
  <1>30. CASE CleanupReaped
    BY <1>30 DEF CleanupReaped
  <1>31. CASE CleanupKills
    BY <1>31 DEF CleanupKills
  <1>32. CASE RemoveSocket
    BY <1>32 DEF RemoveSocket
  <1>33. CASE Return
    BY <1>33 DEF Return
  <1>34. CASE Serve /\ UNCHANGED <<cancelled, buildVars>>
    BY <1>34, ReplyArrives DEF Serve, Execute, Accepts, Refusable
  <1>35. CASE ConnectionFails /\ UNCHANGED <<cancelled, buildVars>>
    BY <1>35, ReplyArrives DEF ConnectionFails, Procs
  <1>36. CASE LateServe /\ UNCHANGED <<cancelled, buildVars>>
    BY <1>36 DEF LateServe, Execute, Accepts
  <1>37. CASE Bind /\ UNCHANGED <<cancelled, buildVars>>
    BY <1>37 DEF Bind
  <1>38. CASE Crash /\ UNCHANGED <<cancelled, buildVars>>
    BY <1>38 DEF Crash, Die, Alive
  <1>39. CASE Hang /\ UNCHANGED <<cancelled, buildVars>>
    BY <1>39 DEF Hang
  <1>40. CASE GuestStops /\ UNCHANGED <<cancelled, buildVars>>
    BY <1>40 DEF GuestStops
  <1>41. CASE Terminated /\ UNCHANGED <<cancelled, buildVars>>
    BY <1>41 DEF Terminated, Die
  <1>42. CASE Killed /\ UNCHANGED <<cancelled, buildVars>>
    BY <1>42 DEF Killed, Die
  <1>43. CASE CtxAborts /\ UNCHANGED buildVars
    BY <1>43, ReplyArrives DEF CtxAborts
  <1>44. CASE CtxKill
    BY <1>44 DEF CtxKill
  <1>45. CASE Cancel
    BY <1>45 DEF Cancel
  <1>46. CASE UNCHANGED vars
    BY <1>46 DEF vars
  <1> QED
    BY <1>1, <1>2, <1>3, <1>4, <1>5, <1>6, <1>7, <1>8, <1>9, <1>10,
       <1>11, <1>12, <1>13, <1>14, <1>15, <1>16, <1>17, <1>18, <1>19, <1>20,
       <1>21, <1>22, <1>23, <1>24, <1>25, <1>26, <1>27, <1>28, <1>29, <1>30,
       <1>31, <1>32, <1>33, <1>34, <1>35, <1>36, <1>37, <1>38, <1>39, <1>40,
       <1>41, <1>42, <1>43, <1>44, <1>45, <1>46
    DEF Next, Builder, RunSteps, CleanupSteps, Environment, Hypervisor, Finished

-----------------------------------------------------------------------------

\* Builder.Run starts in a state of the invariant.
LEMMA InitInv == Init => IInv
  <1> SUFFICES ASSUME Init PROVE IInv
    OBVIOUS
  <1> USE BoundsAssumption, IdleHasNoReply
      DEF Init, CHInit, Running, Cleaning, Launch, Create, Boot, Connect,
          Provision, Shutdown, Collect, Steps, Entry
  <1>1. TypeOK
    <2>1. cancelled \in BOOLEAN /\ socket \in BOOLEAN
      BY Zenon
    <2> QED
      BY <2>1 DEF TypeOK, CHTypeOK, Procs, VMs, Updates
  <1>2. ControlInv
    BY DEF ControlInv, Requesting
  <1>3. ProcessInv
    BY DEF ProcessInv, Alive
  <1>4. OutcomeInv
    BY DEF OutcomeInv
  <1>5. GuestInv
    BY DEF GuestInv, GuestActive
  <1> QED
    BY <1>1, <1>2, <1>3, <1>4, <1>5 DEF IInv

\* The invariant of Builder.Run: where the build is fixes what is in the
\* state bag, which request is out, who runs the guest and what is still to
\* be undone, in every reachable state and for all bounds and faults.
THEOREM Invariance == Spec => []IInv
  <1>1. IInv /\ [Next]_vars => IInv'
    BY TypeStep, ControlStep, ProcessStep, OutcomeStep, GuestStep DEF IInv
  <1> QED
    BY InitInv, <1>1, PTL DEF Spec

\* The variables of Builder.Run keep their types, the loop counters of
\* StepLaunchCh, StepShutdownVM and StepCollectArtifact within their bounds.
THEOREM TypeCorrect == Spec => []TypeOK
  <1>1. IInv => TypeOK
    BY DEF IInv
  <1> QED
    BY Invariance, <1>1, PTL

\* No hypervisor process outlives Builder.Run unkilled, whatever failed.
THEOREM NoOrphanLeft == Spec => []NoOrphan
  <1>1. IInv => NoOrphan
    BY DEF IInv, ProcessInv, ControlInv, NoOrphan, Running
  <1> QED
    BY Invariance, <1>1, PTL

\* With truthful answers StepCollectArtifact reads the images of a guest
\* that has stopped.
THEOREM DisksReadQuiescent == Spec => []DisksQuiescent
  <1>1. IInv => DisksQuiescent
    BY DEF IInv, GuestInv, DisksQuiescent
  <1> QED
    BY Invariance, <1>1, PTL

\* With truthful answers StepLaunchCh.Cleanup signals a process whose VM
\* StepShutdownVM.Cleanup has removed.
THEOREM DeletedBeforeTerm == Spec => []TermAfterDelete
  <1>1. IInv => TermAfterDelete
    BY DEF IInv, GuestInv, ControlInv, TermAfterDelete, Cleaning, Shutdown,
           Launch
  <1> QED
    BY Invariance, <1>1, PTL

\* No socket file is left by a build that launched, but for the one of a
\* process that was killed and not waited for.
THEOREM SocketIsRemoved == Spec => []SocketRemoved
  <1>1. IInv => SocketRemoved
    BY DEF IInv, ProcessInv, ControlInv, SocketRemoved, Running
  <1> QED
    BY Invariance, <1>1, PTL

\* An artifact stands for seven steps run and every writable disk copied.
THEOREM ArtifactIsSound == Spec => []ArtifactSound
  <1>1. IInv => ArtifactSound
    BY DEF IInv, OutcomeInv, ArtifactSound, Result
  <1> QED
    BY Invariance, <1>1, PTL

\* No step halts without a reason, and only an interrupted build with
\* writable disks returns neither an artifact nor a step's error.
THEOREM FailuresAreReported == Spec => []NoSilentFailure
  <1>1. IInv => NoSilentFailure
    BY DEF IInv, OutcomeInv, NoSilentFailure, Result, Running
  <1> QED
    BY Invariance, <1>1, PTL

-----------------------------------------------------------------------------
(* Which steps move step and ran, and the refinement of BuildLifecycle.    *)

\* The Run of a step: pc stays inside the steps and no position moves.
Inside ==
    /\ pc \in Running /\ pc' \in Running
    /\ UNCHANGED <<step, ran, cancelled, signals>>
    /\ proc' = proc

\* Every step of the builder's goroutine is one of these.
LEMMA RunStepKinds ==
    IInv /\ RunSteps => NextStep \/ StopRunning \/ LaunchStarts \/ Inside
  <1> SUFFICES ASSUME IInv, RunSteps,
                      ~NextStep, ~StopRunning, ~LaunchStarts
               PROVE  Inside
    OBVIOUS
  <1> USE DEF Inside, Running, Local, Calling, chVars, Continue, Fail, Halt
  <1>1. CASE LaunchFails \/ PingCancelled \/ PingGivesUp
    BY <1>1 DEF LaunchFails, PingCancelled, PingGivesUp
  <1>2. CASE PingSend \/ PingReply
    BY <1>2 DEF PingSend, PingReply, buildVars
  <1>3. CASE CreateSend \/ BootSend \/ ShutdownSend
    BY <1>3 DEF CreateSend, BootSend, ShutdownSend, WithClient
  <1>4. CASE CreateReply \/ BootReply \/ ShutdownReply
    BY <1>4 DEF CreateReply, BootReply, ShutdownReply
  <1>5. CASE ConnectProvision
    BY <1>5 DEF ConnectProvision
  <1>6. CASE PollCancelled \/ PollSend \/ PollReply \/ PollTimesOut \/ ForceReply
    BY <1>6 DEF PollCancelled, PollSend, PollReply, PollTimesOut, ForceReply,
                buildVars
  <1>7. CASE CollectStarts \/ CopyDisk \/ CopyFails \/ CollectEnds
    BY <1>7 DEF CollectStarts, CopyDisk, CopyFails, CollectEnds
  <1> QED
    BY <1>1, <1>2, <1>3, <1>4, <1>5, <1>6, <1>7 DEF RunSteps

\* Running begins steps, acquires the hypervisor in step 1, and unwinds.
LEMMA RunRefines ==
    IInv /\ RunSteps => [Lifecycle!AbsNext]_(Lifecycle!absVars)
  <1> SUFFICES ASSUME IInv, RunSteps
               PROVE  Lifecycle!AbsNext \/ UNCHANGED Lifecycle!absVars
    OBVIOUS
  <1> USE DEF IInv, TypeOK, ControlInv, Phase, Held, Result, Running, Cleaning,
              Lifecycle!AbsNext, Lifecycle!absVars, Lifecycle!StepCount
  <1>1. CASE NextStep
    <2>1. Lifecycle!Begin
      BY <1>1 DEF NextStep, Entry, Local, chVars, Alive, Collect,
                  Lifecycle!Begin, Lifecycle!StepCount
    <2> QED
      BY <2>1
  <1>2. CASE StopRunning
    <2>1. Lifecycle!Unwind
      BY <1>2 DEF StopRunning, Local, chVars, Alive, Lifecycle!Unwind
    <2> QED
      BY <2>1
  <1>3. CASE LaunchStarts
    <2>1. Lifecycle!Acquire
      BY <1>3 DEF LaunchStarts, ProcessInv, Alive, Entry, Launch, Steps,
                  Lifecycle!Acquire
    <2> QED
      BY <2>1
  <1>4. CASE Inside
    BY <1>4 DEF Inside, Alive
  <1> QED
    BY <1>1, <1>2, <1>3, <1>4, RunStepKinds

\* Cleanup undoes one step at a time, and step 1 only when nothing is held.
LEMMA CleanupRefines ==
    IInv /\ CleanupSteps => [Lifecycle!AbsNext]_(Lifecycle!absVars)
  <1> SUFFICES ASSUME IInv, CleanupSteps
               PROVE  Lifecycle!AbsNext \/ UNCHANGED Lifecycle!absVars
    OBVIOUS
  <1> USE DEF IInv, TypeOK, ControlInv, Phase, Held, Result, Running, Cleaning,
              Alive, Lifecycle!AbsNext, Lifecycle!absVars, Local, Calling, chVars,
              Launch, Shutdown, Steps
  <1>1. CASE CleanupNothing \/ CleanupShutdown \/ CleanupDeleteReply
    <2>1. Lifecycle!Undo \/ UNCHANGED Lifecycle!absVars
      BY <1>1 DEF CleanupNothing, CleanupShutdown, CleanupDeleteReply,
                  Lifecycle!Undo
    <2> QED
      BY <2>1
  <1>2. CASE CleanupLaunch \/ CleanupReaped
    BY <1>2 DEF CleanupLaunch, CleanupReaped
  <1>3. CASE CleanupSignal \/ CleanupKills
    <2>1. Lifecycle!Lose \/ UNCHANGED Lifecycle!absVars
      BY <1>3 DEF CleanupSignal, CleanupKills, Lifecycle!Lose
    <2> QED
      BY <2>1
  <1>4. CASE RemoveSocket
    <2>1. Lifecycle!Undo
      BY <1>4 DEF RemoveSocket, ProcessInv, Lifecycle!Undo
    <2> QED
      BY <2>1
  <1>5. CASE Return
    <2>1. Lifecycle!Deliver
      BY <1>5 DEF Return, OutcomeInv, Collect, Lifecycle!Deliver,
                  Lifecycle!Outcomes, Lifecycle!StepCount
    <2> QED
      BY <2>1
  <1> QED
    BY <1>1, <1>2, <1>3, <1>4, <1>5 DEF CleanupSteps

\* The other actors can only take the hypervisor away or interrupt.
LEMMA OthersRefine ==
    ASSUME IInv,
           \/ Environment \/ (CtxAborts /\ UNCHANGED buildVars)
           \/ CtxKill \/ Cancel \/ Finished \/ UNCHANGED vars
    PROVE  [Lifecycle!AbsNext]_(Lifecycle!absVars)
  <1> USE DEF IInv, TypeOK, Phase, Held, Result, Alive, buildVars,
              Lifecycle!AbsNext, Lifecycle!absVars
  <1>1. CASE Environment
    <2>1. (Alive' => Alive) /\ signals' = signals
      BY <1>1 DEF Environment, Hypervisor, Serve, ConnectionFails, LateServe,
                  Bind, Crash, Hang, GuestStops, Terminated, Killed, Die
    <2>2. Lifecycle!Lose \/ UNCHANGED Lifecycle!absVars
      BY <1>1, <2>1 DEF Environment, Lifecycle!Lose
    <2> QED
      BY <2>2
  <1>2. CASE CtxKill
    <2>1. Lifecycle!Lose
      BY <1>2 DEF CtxKill, Lifecycle!Lose
    <2> QED
      BY <2>1
  <1>3. CASE Cancel
    <2>1. Lifecycle!Interrupt
      BY <1>3 DEF Cancel, chVars, Running, Cleaning, Lifecycle!Interrupt
    <2> QED
      BY <2>1
  <1>4. CASE CtxAborts /\ UNCHANGED buildVars
    BY <1>4 DEF CtxAborts
  <1>5. CASE Finished \/ UNCHANGED vars
    BY <1>5 DEF Finished, vars, chVars
  <1> QED
    BY <1>1, <1>2, <1>3, <1>4, <1>5

\* Builder.Run implements the lifecycle its comment promises: every run of
\* the seven steps, of the API and of the process is a run of BuildLifecycle.
THEOREM Implements == Spec => ImplementsLifecycle
  <1>1. Init => Lifecycle!AbsInit
    BY DEF Init, CHInit, Lifecycle!AbsInit, Phase, Held, Alive, Result, Running
  <1>2. IInv /\ [Next]_vars => [Lifecycle!AbsNext]_(Lifecycle!absVars)
    BY RunRefines, CleanupRefines, OthersRefine DEF Next, Builder
  <1> QED
    BY Invariance, <1>1, <1>2, PTL DEF Spec, ImplementsLifecycle,
       Lifecycle!AbsSpec
=============================================================================
