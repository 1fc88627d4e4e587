------------------------ MODULE LaunchIsolationProofs ------------------------
(***************************************************************************)
(* Proof that builds with socket paths of their own do not disturb each    *)
(* other, for any number of builds, paths, pings and any size of the pipe. *)
(***************************************************************************)
EXTENDS LaunchIsolation, LaunchHostProofs

\* What a build sees of the host changes only by what changes its own part.
LEMMA NothingSeen ==
    ASSUME NEW b \in Builds,
           pc'[b] = pc[b], path'[b] = path[b], tries'[b] = tries[b],
           met'[b] = met[b], proc'[b] = proc[b], killed'[b] = killed[b],
           pipe'[b] = pipe[b], reader'[b] = reader[b],
           \A p \in Paths : p = path[b] => file'[p] = file[p]
    PROVE  UNCHANGED Private(b)!vars
  <1>1. /\ Own(b, pc)' = Own(b, pc) /\ Own(b, path)' = Own(b, path)
        /\ Own(b, tries)' = Own(b, tries) /\ Own(b, met)' = Own(b, met)
        /\ Own(b, proc)' = Own(b, proc) /\ Own(b, killed)' = Own(b, killed)
        /\ Own(b, pipe)' = Own(b, pipe) /\ Own(b, reader)' = Own(b, reader)
    BY DEF Own
  <1>2. OwnFile(b)' = OwnFile(b)
    BY DEF OwnFile
  <1> QED
    BY <1>1, <1>2 DEF Private!vars, Private!buildVars, Private!procVars,
        Private!pipeVars
\* The steps of a build that has its path, and of its hypervisor.
Step(b) ==
    \/ RemoveTemp(b) \/ LaunchFails(b) \/ LaunchStarts(b)
    \/ PingOK(b) \/ PingErr(b) \/ PingGivesUp(b)
    \/ Work(b) \/ WorkEnds(b) \/ Interrupted(b) \/ PackerDies(b)
    \/ Signal(b) \/ Reaped(b) \/ Kills(b) \/ RemoveSocket(b)
    \/ Wait(b) \/ Read(b) \/ Write(b) \/ Bind(b) \/ Exit(b)

\* On the path of a build that is alone there listens nobody but its own
\* hypervisor, so that what answers it would answer on a private host too.
LEMMA OwnAnswer ==
    ASSUME NEW b \in Builds, TypeOK, PathInv, Alone(b), pc[b] # "new",
           Answered(b)
    PROVE  Private(b)!Answered(b)
  <1> USE DEF TypeOK, Own, OwnFile
  <1>1. PICK c \in Builds : /\ Listens(c, path[b])
                            /\ ~Stalled(c)
                            /\ met' = [met EXCEPT ![b] = @ \cup {c}]
    BY DEF Answered
  <1>2. c = b
    BY <1>1 DEF Listens, PathInv, Alone
  <1>3. Private(b)!Listens(b, Own(b, path)[b]) /\ ~Private(b)!Stalled(b)
    BY <1>1, <1>2 DEF Listens, Stalled, Alive, PathInv, Private!Listens,
          Private!Stalled, Private!Alive
  <1>4. Own(b, met)' = [Own(b, met) EXCEPT ![b] = @ \cup {b}]
    BY <1>1, <1>2
  <1> QED
    BY <1>3, <1>4 DEF Private!Answered

\* A step of a build that has its path to itself is one it could make on a
\* private host.
LEMMA OwnStep ==
    ASSUME NEW b \in Builds, TypeOK, PathInv, Alone(b), pc[b] # "new",
           Step(b)
    PROVE  Private(b)!Next
  <1> USE DEF TypeOK, Own, OwnFile, buildVars, procVars, pipeVars,
              Private!buildVars, Private!procVars, Private!pipeVars
  <1>1. CASE RemoveTemp(b)
    <2>1. Private(b)!RemoveTemp(b)
      BY <1>1 DEF RemoveTemp, Goto, Private!RemoveTemp, Private!Goto
    <2> QED
      BY <2>1 DEF Private!Next, Private!Prepare
  <1>2. CASE LaunchFails(b)
    <2>1. Private(b)!LaunchFails(b)
      BY <1>2 DEF LaunchFails, Goto, Private!LaunchFails, Private!Goto
    <2> QED
      BY <2>1 DEF Private!Next
  <1>3. CASE LaunchStarts(b)
    <2>1. Private(b)!LaunchStarts(b)
      BY <1>3 DEF LaunchStarts, Goto, Private!LaunchStarts, Private!Goto
    <2> QED
      BY <2>1 DEF Private!Next
  <1>4. CASE PingOK(b)
    <2>1. Private(b)!Answered(b)
      BY <1>4, OwnAnswer DEF PingOK
    <2>2. Private(b)!PingOK(b)
      BY <1>4, <2>1 DEF PingOK, Goto, Private!PingOK, Private!Goto
    <2> QED
      BY <2>2 DEF Private!Next, Private!Run
  <1>5. CASE PingErr(b)
    <2>1. ~Private(b)!Listens(b, Own(b, path)[b])
      BY <1>5 DEF PingErr, Listens, Private!Listens, PathInv
    <2>2. Private(b)!PingErr(b)
      BY <1>5, <2>1 DEF PingErr, Private!PingErr
    <2> QED
      BY <2>2 DEF Private!Next, Private!Run
  <1>6. CASE PingGivesUp(b)
    <2>1. Private(b)!PingGivesUp(b)
      BY <1>6 DEF PingGivesUp, Goto, Private!PingGivesUp, Private!Goto
    <2> QED
      BY <2>1 DEF Private!Next, Private!Run
  <1>7. CASE Work(b)
    <2>1. Private(b)!Answered(b)
      BY <1>7, OwnAnswer DEF Work
    <2>2. Private(b)!Work(b)
      BY <1>7, <2>1 DEF Work, Private!Work
    <2> QED
      BY <2>2 DEF Private!Next
  <1>8. CASE WorkEnds(b)
    <2>1. Private(b)!WorkEnds(b)
      BY <1>8 DEF WorkEnds, Goto, Private!WorkEnds, Private!Goto
    <2> QED
      BY <2>1 DEF Private!Next
  <1>9. CASE Interrupted(b)
    <2>1. Private(b)!Interrupted(b)
      BY <1>9 DEF Interrupted, Goto, Private!Interrupted, Private!Goto
    <2> QED
      BY <2>1 DEF Private!Next
  <1>10. CASE PackerDies(b)
    <2>1. Private(b)!PackerDies(b)
      BY <1>10 DEF PackerDies, Goto, Private!PackerDies, Private!Goto
    <2> QED
      BY <2>1 DEF Private!Next
  <1>11. CASE Signal(b)
    <2>1. CASE killed' = killed
      <3>1. Private(b)!Signal(b)
        BY <1>11, <2>1 DEF Signal, Goto, Private!Signal, Private!Goto
      <3> QED
        BY <3>1 DEF Private!Next, Private!Cleanup
    <2>2. CASE killed' = [killed EXCEPT ![b] = TRUE]
      <3>1. Own(b, killed)' = [Own(b, killed) EXCEPT ![b] = TRUE]
        BY <2>2
      <3>2. Private(b)!Signal(b)
        BY <1>11, <3>1 DEF Signal, Goto, Private!Signal, Private!Goto
      <3> QED
        BY <3>2 DEF Private!Next, Private!Cleanup
    <2> QED
      BY <1>11, <2>1, <2>2 DEF Signal
  <1>12. CASE Reaped(b)
    <2>1. Private(b)!Reaped(b)
      BY <1>12 DEF Reaped, Goto, Private!Reaped, Private!Goto
    <2> QED
      BY <2>1 DEF Private!Next, Private!Cleanup
  <1>13. CASE Kills(b)
    <2>1. Private(b)!Kills(b)
      BY <1>13 DEF Kills, Goto, Private!Kills, Private!Goto
    <2> QED
      BY <2>1 DEF Private!Next, Private!Cleanup
  <1>14. CASE RemoveSocket(b)
    <2>1. Private(b)!RemoveSocket(b)
      BY <1>14 DEF RemoveSocket, Goto, Private!RemoveSocket, Private!Goto
    <2> QED
      BY <2>1 DEF Private!Next, Private!Cleanup
  <1>15. CASE Wait(b)
    <2>1. Private(b)!Wait(b)
      BY <1>15 DEF Wait, Private!Wait
    <2> QED
      BY <2>1 DEF Private!Next
  <1>16. CASE Read(b)
    <2>1. Private(b)!Read(b)
      BY <1>16 DEF Read, Private!Read
    <2> QED
      BY <2>1 DEF Private!Next
  <1>17. CASE Write(b)
    <2>1. Private(b)!Write(b)
      BY <1>17 DEF Write, Alive, Private!Write, Private!Alive
    <2> QED
      BY <2>1 DEF Private!Next
  <1>18. CASE Bind(b)
    <2>1. OwnFile(b)' = [OwnFile(b) EXCEPT ![path[b]] = b]
      BY <1>18 DEF Bind
    <2>2. Private(b)!Bind(b)
      BY <1>18, <2>1 DEF Bind, Stalled, Alive, PathInv,
            Private!Bind, Private!Stalled, Private!Alive
    <2> QED
      BY <2>2 DEF Private!Next
  <1>19. CASE Exit(b)
    <2>1. \/ OwnFile(b)' = OwnFile(b)
          \/ /\ pc[b] \in {"reap", "remove", "done"}
             /\ OwnFile(b)' = [OwnFile(b) EXCEPT ![path[b]] = "absent"]
      BY <1>19 DEF Exit
    <2>2. Private(b)!Exit(b)
      BY <1>19, <2>1 DEF Exit, Alive, Private!Exit, Private!Alive
    <2> QED
      BY <2>2 DEF Private!Next
  <1> QED
    BY <1>1, <1>2, <1>3, <1>4, <1>5, <1>6, <1>7, <1>8, <1>9, <1>10,
       <1>11, <1>12, <1>13, <1>14, <1>15, <1>16, <1>17, <1>18, <1>19
    DEF Step

\* A step of another build, be it a choice of a path or any other, leaves
\* alone what is at a path that is not its own.
LEMMA OthersStep ==
    ASSUME NEW b \in Builds, NEW c \in Builds \ {b}, TypeOK, PathInv,
           pc[b] # "new", Alone(b)',
           Step(c) \/ GivenPath(c) \/ CreateTemp(c)
    PROVE  UNCHANGED Private(b)!vars
  <1> USE DEF TypeOK, buildVars, procVars, pipeVars
  <1>1. path[b] \in Paths
    BY DEF PathInv
  <1>2. CASE GivenPath(c) \/ CreateTemp(c)
    <2>1. path'[b] = path[b] /\ path'[c] # path[b]
      BY <1>2 DEF GivenPath, CreateTemp, Alone
    <2>2. file'[path[b]] = file[path[b]]
      BY <1>1, <1>2, <2>1 DEF GivenPath, CreateTemp
    <2> QED
      BY <1>2, <2>1, <2>2, NothingSeen DEF GivenPath, CreateTemp, Goto
  <1>3. CASE Step(c)
    <2>1. path' = path /\ path[c] # path[b]
      BY <1>3 DEF Step, RemoveTemp, LaunchFails, LaunchStarts, PingOK, PingErr,
            PingGivesUp, Work, WorkEnds, Interrupted, PackerDies, Signal,
            Reaped, Kills, RemoveSocket, Wait, Read, Write, Bind, Exit, Alone
    <2>2. file'[path[b]] = file[path[b]]
      BY <1>1, <1>3, <2>1 DEF Step, RemoveTemp, LaunchFails, LaunchStarts,
            PingOK, PingErr, PingGivesUp, Work, WorkEnds, Interrupted,
            PackerDies, Signal, Reaped, Kills, RemoveSocket, Wait, Read, Write,
            Bind, Exit
    <2>3. pc'[b] = pc[b] /\ tries'[b] = tries[b] /\ met'[b] = met[b]
      BY <1>3 DEF Step, RemoveTemp, LaunchFails, LaunchStarts, PingOK, PingErr,
            PingGivesUp, Work, WorkEnds, Interrupted, PackerDies, Signal,
            Reaped, Kills, RemoveSocket, Wait, Read, Write, Bind, Exit, Goto,
            Answered
    <2>4. proc'[b] = proc[b] /\ killed'[b] = killed[b]
      BY <1>3 DEF Step, RemoveTemp, LaunchFails, LaunchStarts, PingOK, PingErr,
            PingGivesUp, Work, WorkEnds, Interrupted, PackerDies, Signal,
            Reaped, Kills, RemoveSocket, Wait, Read, Write, Bind, Exit
    <2>5. pipe'[b] = pipe[b] /\ reader'[b] = reader[b]
      BY <1>3 DEF Step, RemoveTemp, LaunchFails, LaunchStarts, PingOK, PingErr,
            PingGivesUp, Work, WorkEnds, Interrupted, PackerDies, Signal,
            Reaped, Kills, RemoveSocket, Wait, Read, Write, Bind, Exit
    <2> QED
      BY <2>1, <2>2, <2>3, <2>4, <2>5, NothingSeen
  <1> QED
    BY <1>2, <1>3

\* Builds with socket paths of their own are isolated: whatever the others
\* do and however they end, each behaves as on a host of its own.
THEOREM BuildsAreIsolated == Spec => Isolated
  <1>1. LaunchInv /\ [Next]_vars => [\A b \in Builds : Undisturbed(b)]_vars
    <2> SUFFICES ASSUME LaunchInv, Next, NEW b \in Builds,
                        pc[b] # "new", Alone(b)'
                 PROVE  UNCHANGED Private(b)!vars \/ Private(b)!Next
      BY DEF Undisturbed
    <2>1. TypeOK /\ PathInv
      BY DEF LaunchInv
    <2>2. CASE Step(b)
      <3>1. path' = path
        BY <2>2 DEF Step, RemoveTemp, LaunchFails, LaunchStarts, PingOK,
            PingErr,
            PingGivesUp, Work, WorkEnds, Interrupted, PackerDies, Signal,
            Reaped, Kills, RemoveSocket, Wait, Read, Write, Bind, Exit,
            buildVars
      <3>2. Alone(b)
        BY <3>1 DEF Alone
      <3> QED
        BY <2>1, <2>2, <3>2, OwnStep
    <2>3. ASSUME NEW c \in Builds \ {b}, Step(c) \/ GivenPath(c) \/ CreateTemp(c)
          PROVE  UNCHANGED Private(b)!vars
      BY <2>1, <2>3, OthersStep
    <2>4. CASE UNCHANGED vars
      BY <2>4, NothingSeen DEF vars, buildVars, procVars, pipeVars
    <2>5. ~GivenPath(b) /\ ~CreateTemp(b)
      BY DEF GivenPath, CreateTemp
    <2>6. \/ UNCHANGED vars
          \/ \E c \in Builds : Step(c) \/ GivenPath(c) \/ CreateTemp(c)
      BY DEF Next, Prepare, Run, Cleanup, Finished, Step
    <2> QED
      BY <2>2, <2>3, <2>4, <2>5, <2>6
  <1> QED
    BY LaunchInvariance, <1>1, PTL DEF Spec, Isolated
=============================================================================
