--------------------------- MODULE LaunchHostProofs ---------------------------
(***************************************************************************)
(* Proofs about LaunchHost: builds with paths of their own never meet, for *)
(* any number of builds, paths, pings and any size of the stderr pipe.     *)
(***************************************************************************)
EXTENDS LaunchHost, TLAPS

\* Every step preserves the types.
LEMMA TypeStep == TypeOK /\ [Next]_vars => TypeOK'
  <1> SUFFICES ASSUME TypeOK, [Next]_vars PROVE TypeOK'
    OBVIOUS
  <1> USE LaunchAssumption DEF TypeOK, Phases, buildVars, procVars, pipeVars
  <1>1. ASSUME NEW b \in Builds, GivenPath(b) PROVE TypeOK'
    BY <1>1 DEF GivenPath, Goto
  <1>2. ASSUME NEW b \in Builds, CreateTemp(b) PROVE TypeOK'
    BY <1>2 DEF CreateTemp, Goto
  <1>3. ASSUME NEW b \in Builds, RemoveTemp(b) PROVE TypeOK'
    BY <1>3 DEF RemoveTemp, Goto
  <1>4. ASSUME NEW b \in Builds, LaunchFails(b) PROVE TypeOK'
    BY <1>4 DEF LaunchFails, Goto
  <1>5. ASSUME NEW b \in Builds, LaunchStarts(b) PROVE TypeOK'
    BY <1>5 DEF LaunchStarts, Goto
  <1>6. ASSUME NEW b \in Builds, PingOK(b) PROVE TypeOK'
    BY <1>6 DEF PingOK, Answered, Goto
  <1>7. ASSUME NEW b \in Builds, PingErr(b) PROVE TypeOK'
    BY <1>7 DEF PingErr
  <1>8. ASSUME NEW b \in Builds, PingGivesUp(b) PROVE TypeOK'
    BY <1>8 DEF PingGivesUp, Goto
  <1>9. ASSUME NEW b \in Builds, Work(b) PROVE TypeOK'
    BY <1>9 DEF Work, Answered
  <1>10. ASSUME NEW b \in Builds, WorkEnds(b) PROVE TypeOK'
    BY <1>10 DEF WorkEnds, Goto
  <1>11. ASSUME NEW b \in Builds, Interrupted(b) PROVE TypeOK'
    BY <1>11 DEF Interrupted, Goto
  <1>12. ASSUME NEW b \in Builds, PackerDies(b) PROVE TypeOK'
    BY <1>12 DEF PackerDies, Goto
  <1>13. ASSUME NEW b \in Builds, Signal(b) PROVE TypeOK'
    BY <1>13 DEF Signal, Goto
  <1>14. ASSUME NEW b \in Builds, Reaped(b) PROVE TypeOK'
    BY <1>14 DEF Reaped, Goto
  <1>15. ASSUME NEW b \in Builds, Kills(b) PROVE TypeOK'
    BY <1>15 DEF Kills, Goto
  <1>16. ASSUME NEW b \in Builds, RemoveSocket(b) PROVE TypeOK'
    BY <1>16 DEF RemoveSocket, Goto
  <1>17. ASSUME NEW b \in Builds, Wait(b) PROVE TypeOK'
    BY <1>17 DEF Wait
  <1>18. ASSUME NEW b \in Builds, Read(b) PROVE TypeOK'
    BY <1>18 DEF Read
  <1>19. ASSUME NEW b \in Builds, Write(b) PROVE TypeOK'
    BY <1>19 DEF Write
  <1>20. ASSUME NEW b \in Builds, Bind(b) PROVE TypeOK'
    BY <1>20 DEF Bind
  <1>21. ASSUME NEW b \in Builds, Exit(b) PROVE TypeOK'
    BY <1>21 DEF Exit
  <1>22. CASE UNCHANGED vars
    BY <1>22 DEF vars
  <1> QED
    BY <1>1, <1>2, <1>3, <1>4, <1>5, <1>6, <1>7, <1>8, <1>9, <1>10, <1>11,
        <1>12, <1>13, <1>14, <1>15, <1>16, <1>17, <1>18, <1>19, <1>20, <1>21,
        <1>22
    DEF Next, Prepare, Run, Cleanup, Finished

\* Every step preserves what is known of paths, sockets and processes.
LEMMA PathStep == TypeOK /\ PathInv /\ [Next]_vars => PathInv'
  <1> SUFFICES ASSUME TypeOK /\ PathInv, [Next]_vars PROVE PathInv'
    OBVIOUS
  <1> USE LaunchAssumption DEF TypeOK, Phases, PathInv, Alive, Listens,
      buildVars, procVars, pipeVars
  <1>1. ASSUME NEW b \in Builds, GivenPath(b) PROVE PathInv'
    BY <1>1 DEF GivenPath, Goto
  <1>2. ASSUME NEW b \in Builds, CreateTemp(b) PROVE PathInv'
    BY <1>2 DEF CreateTemp, Goto
  <1>3. ASSUME NEW b \in Builds, RemoveTemp(b) PROVE PathInv'
    BY <1>3 DEF RemoveTemp, Goto
  <1>4. ASSUME NEW b \in Builds, LaunchFails(b) PROVE PathInv'
    BY <1>4 DEF LaunchFails, Goto
  <1>5. ASSUME NEW b \in Builds, LaunchStarts(b) PROVE PathInv'
    BY <1>5 DEF LaunchStarts, Goto
  <1>6. ASSUME NEW b \in Builds, PingOK(b) PROVE PathInv'
    BY <1>6 DEF PingOK, Answered, Goto
  <1>7. ASSUME NEW b \in Builds, PingErr(b) PROVE PathInv'
    BY <1>7 DEF PingErr
  <1>8. ASSUME NEW b \in Builds, PingGivesUp(b) PROVE PathInv'
    BY <1>8 DEF PingGivesUp, Goto
  <1>9. ASSUME NEW b \in Builds, Work(b) PROVE PathInv'
    BY <1>9 DEF Work, Answered
  <1>10. ASSUME NEW b \in Builds, WorkEnds(b) PROVE PathInv'
    BY <1>10 DEF WorkEnds, Goto
  <1>11. ASSUME NEW b \in Builds, Interrupted(b) PROVE PathInv'
    BY <1>11 DEF Interrupted, Goto
  <1>12. ASSUME NEW b \in Builds, PackerDies(b) PROVE PathInv'
    BY <1>12 DEF PackerDies, Goto
  <1>13. ASSUME NEW b \in Builds, Signal(b) PROVE PathInv'
    BY <1>13 DEF Signal, Goto
  <1>14. ASSUME NEW b \in Builds, Reaped(b) PROVE PathInv'
    BY <1>14 DEF Reaped, Goto
  <1>15. ASSUME NEW b \in Builds, Kills(b) PROVE PathInv'
    BY <1>15 DEF Kills, Goto
  <1>16. ASSUME NEW b \in Builds, RemoveSocket(b) PROVE PathInv'
    BY <1>16 DEF RemoveSocket, Goto
  <1>17. ASSUME NEW b \in Builds, Wait(b) PROVE PathInv'
    BY <1>17 DEF Wait
  <1>18. ASSUME NEW b \in Builds, Read(b) PROVE PathInv'
    BY <1>18 DEF Read
  <1>19. ASSUME NEW b \in Builds, Write(b) PROVE PathInv'
    BY <1>19 DEF Write
  <1>20. ASSUME NEW b \in Builds, Bind(b) PROVE PathInv'
    BY <1>20 DEF Bind
  <1>21. ASSUME NEW b \in Builds, Exit(b) PROVE PathInv'
    BY <1>21 DEF Exit
  <1>22. CASE UNCHANGED vars
    BY <1>22 DEF vars
  <1> QED
    BY <1>1, <1>2, <1>3, <1>4, <1>5, <1>6, <1>7, <1>8, <1>9, <1>10, <1>11,
        <1>12, <1>13, <1>14, <1>15, <1>16, <1>17, <1>18, <1>19, <1>20, <1>21,
        <1>22
    DEF Next, Prepare, Run, Cleanup, Finished

\* No step takes the socket of a build that is alone on its path away.
LEMMA ReachStep == TypeOK /\ PathInv /\ Reachable /\ [Next]_vars => Reachable'
  <1> SUFFICES ASSUME TypeOK /\ PathInv /\ Reachable, [Next]_vars
               PROVE Reachable'
    OBVIOUS
  <1> USE LaunchAssumption DEF TypeOK, Phases, PathInv, Reachable, Alone, Alive,
      buildVars, procVars, pipeVars
  <1>1. ASSUME NEW b \in Builds, GivenPath(b) PROVE Reachable'
    BY <1>1 DEF GivenPath, Goto
  <1>2. ASSUME NEW b \in Builds, CreateTemp(b) PROVE Reachable'
    BY <1>2 DEF CreateTemp, Goto
  <1>3. ASSUME NEW b \in Builds, RemoveTemp(b) PROVE Reachable'
    BY <1>3 DEF RemoveTemp, Goto
  <1>4. ASSUME NEW b \in Builds, LaunchFails(b) PROVE Reachable'
    BY <1>4 DEF LaunchFails, Goto
  <1>5. ASSUME NEW b \in Builds, LaunchStarts(b) PROVE Reachable'
    BY <1>5 DEF LaunchStarts, Goto
  <1>6. ASSUME NEW b \in Builds, PingOK(b) PROVE Reachable'
    BY <1>6 DEF PingOK, Answered, Goto
  <1>7. ASSUME NEW b \in Builds, PingErr(b) PROVE Reachable'
    BY <1>7 DEF PingErr
  <1>8. ASSUME NEW b \in Builds, PingGivesUp(b) PROVE Reachable'
    BY <1>8 DEF PingGivesUp, Goto
  <1>9. ASSUME NEW b \in Builds, Work(b) PROVE Reachable'
    BY <1>9 DEF Work, Answered
  <1>10. ASSUME NEW b \in Builds, WorkEnds(b) PROVE Reachable'
    BY <1>10 DEF WorkEnds, Goto
  <1>11. ASSUME NEW b \in Builds, Interrupted(b) PROVE Reachable'
    BY <1>11 DEF Interrupted, Goto
  <1>12. ASSUME NEW b \in Builds, PackerDies(b) PROVE Reachable'
    BY <1>12 DEF PackerDies, Goto
  <1>13. ASSUME NEW b \in Builds, Signal(b) PROVE Reachable'
    BY <1>13 DEF Signal, Goto
  <1>14. ASSUME NEW b \in Builds, Reaped(b) PROVE Reachable'
    BY <1>14 DEF Reaped, Goto
  <1>15. ASSUME NEW b \in Builds, Kills(b) PROVE Reachable'
    BY <1>15 DEF Kills, Goto
  <1>16. ASSUME NEW b \in Builds, RemoveSocket(b) PROVE Reachable'
    BY <1>16 DEF RemoveSocket, Goto
  <1>17. ASSUME NEW b \in Builds, Wait(b) PROVE Reachable'
    BY <1>17 DEF Wait
  <1>18. ASSUME NEW b \in Builds, Read(b) PROVE Reachable'
    BY <1>18 DEF Read
  <1>19. ASSUME NEW b \in Builds, Write(b) PROVE Reachable'
    BY <1>19 DEF Write
  <1>20. ASSUME NEW b \in Builds, Bind(b) PROVE Reachable'
    BY <1>20 DEF Bind
  <1>21. ASSUME NEW b \in Builds, Exit(b) PROVE Reachable'
    BY <1>21 DEF Exit
  <1>22. CASE UNCHANGED vars
    BY <1>22 DEF vars
  <1> QED
    BY <1>1, <1>2, <1>3, <1>4, <1>5, <1>6, <1>7, <1>8, <1>9, <1>10, <1>11,
        <1>12, <1>13, <1>14, <1>15, <1>16, <1>17, <1>18, <1>19, <1>20, <1>21,
        <1>22
    DEF Next, Prepare, Run, Cleanup, Finished

\* Every step explains the file it leaves.
LEMMA LeftoverStep ==
  TypeOK /\ PathInv /\ LeftoverExplained /\ [Next]_vars => LeftoverExplained'
  <1> SUFFICES ASSUME TypeOK /\ PathInv /\ LeftoverExplained, [Next]_vars
               PROVE LeftoverExplained'
    OBVIOUS
  <1> USE LaunchAssumption DEF TypeOK, Phases, PathInv, LeftoverExplained,
      Leftover, Alive, buildVars, procVars, pipeVars
  <1>1. ASSUME NEW b \in Builds, GivenPath(b) PROVE LeftoverExplained'
    BY <1>1 DEF GivenPath, Goto
  <1>2. ASSUME NEW b \in Builds, CreateTemp(b) PROVE LeftoverExplained'
    BY <1>2 DEF CreateTemp, Goto
  <1>3. ASSUME NEW b \in Builds, RemoveTemp(b) PROVE LeftoverExplained'
    BY <1>3 DEF RemoveTemp, Goto
  <1>4. ASSUME NEW b \in Builds, LaunchFails(b) PROVE LeftoverExplained'
    BY <1>4 DEF LaunchFails, Goto
  <1>5. ASSUME NEW b \in Builds, LaunchStarts(b) PROVE LeftoverExplained'
    BY <1>5 DEF LaunchStarts, Goto
  <1>6. ASSUME NEW b \in Builds, PingOK(b) PROVE LeftoverExplained'
    BY <1>6 DEF PingOK, Answered, Goto
  <1>7. ASSUME NEW b \in Builds, PingErr(b) PROVE LeftoverExplained'
    BY <1>7 DEF PingErr
  <1>8. ASSUME NEW b \in Builds, PingGivesUp(b) PROVE LeftoverExplained'
    BY <1>8 DEF PingGivesUp, Goto
  <1>9. ASSUME NEW b \in Builds, Work(b) PROVE LeftoverExplained'
    BY <1>9 DEF Work, Answered
  <1>10. ASSUME NEW b \in Builds, WorkEnds(b) PROVE LeftoverExplained'
    BY <1>10 DEF WorkEnds, Goto
  <1>11. ASSUME NEW b \in Builds, Interrupted(b) PROVE LeftoverExplained'
    BY <1>11 DEF Interrupted, Goto
  <1>12. ASSUME NEW b \in Builds, PackerDies(b) PROVE LeftoverExplained'
    BY <1>12 DEF PackerDies, Goto
  <1>13. ASSUME NEW b \in Builds, Signal(b) PROVE LeftoverExplained'
    BY <1>13 DEF Signal, Goto
  <1>14. ASSUME NEW b \in Builds, Reaped(b) PROVE LeftoverExplained'
    BY <1>14 DEF Reaped, Goto
  <1>15. ASSUME NEW b \in Builds, Kills(b) PROVE LeftoverExplained'
    BY <1>15 DEF Kills, Goto
  <1>16. ASSUME NEW b \in Builds, RemoveSocket(b) PROVE LeftoverExplained'
    BY <1>16 DEF RemoveSocket, Goto
  <1>17. ASSUME NEW b \in Builds, Wait(b) PROVE LeftoverExplained'
    BY <1>17 DEF Wait
  <1>18. ASSUME NEW b \in Builds, Read(b) PROVE LeftoverExplained'
    BY <1>18 DEF Read
  <1>19. ASSUME NEW b \in Builds, Write(b) PROVE LeftoverExplained'
    BY <1>19 DEF Write
  <1>20. ASSUME NEW b \in Builds, Bind(b) PROVE LeftoverExplained'
    BY <1>20 DEF Bind
  <1>21. ASSUME NEW b \in Builds, Exit(b) PROVE LeftoverExplained'
    BY <1>21 DEF Exit
  <1>22. CASE UNCHANGED vars
    BY <1>22 DEF vars
  <1> QED
    BY <1>1, <1>2, <1>3, <1>4, <1>5, <1>6, <1>7, <1>8, <1>9, <1>10, <1>11,
        <1>12, <1>13, <1>14, <1>15, <1>16, <1>17, <1>18, <1>19, <1>20, <1>21,
        <1>22
    DEF Next, Prepare, Run, Cleanup, Finished

-----------------------------------------------------------------------------

\* In its first states every build is unprepared and no path is a socket.
LEMMA LaunchInit == Init => LaunchInv
  <1> SUFFICES ASSUME Init PROVE LaunchInv
    OBVIOUS
  <1> USE LaunchAssumption DEF Init
  <1>1. TypeOK
    BY DEF TypeOK, Phases
  <1>2. PathInv
    BY DEF PathInv, Alive
  <1>3. Reachable /\ LeftoverExplained
    BY DEF Reachable, LeftoverExplained
  <1> QED
    BY <1>1, <1>2, <1>3 DEF LaunchInv

\* The inductive invariant of StepLaunchCh on a shared host.
THEOREM LaunchInvariance == Spec => []LaunchInv
  <1>1. LaunchInv /\ [Next]_vars => LaunchInv'
    BY TypeStep, PathStep, ReachStep, LeftoverStep DEF LaunchInv
  <1> QED
    BY LaunchInit, <1>1, PTL DEF Spec

\* Type correctness of LaunchHost.
THEOREM LaunchTypes == Spec => []TypeOK
  <1>1. LaunchInv => TypeOK
    BY DEF LaunchInv
  <1> QED
    BY LaunchInvariance, <1>1, PTL

\* A build whose path no other build has only meets its own hypervisor.
THEOREM MeetsOwnHypervisor == Spec => []OwnHypervisor
  <1>1. LaunchInv => OwnHypervisor
    BY DEF LaunchInv, TypeOK, PathInv, OwnHypervisor, Alone
  <1> QED
    BY LaunchInvariance, <1>1, PTL

\* Its API socket stays where it is until its own cleanup.
THEOREM StaysReachable == Spec => []Reachable
  <1>1. LaunchInv => Reachable
    BY DEF LaunchInv
  <1> QED
    BY LaunchInvariance, <1>1, PTL

\* A file that stays at the path of a finished build is explained by another
\* build, by the death of Packer, or by a kill that was not waited for.
THEOREM LeftoversExplained == Spec => []LeftoverExplained
  <1>1. LaunchInv => LeftoverExplained
    BY DEF LaunchInv
  <1> QED
    BY LaunchInvariance, <1>1, PTL

\* A hypervisor that waits to write to stderr has somebody who reads it, or
\* who will end it, once its build has had an answer.
THEOREM StallsAreEnded == Spec => []StallEnds
  <1>1. LaunchInv => StallEnds
    BY LaunchAssumption DEF LaunchInv, TypeOK, Phases, PathInv, StallEnds,
          Stalled, Alive
  <1> QED
    BY LaunchInvariance, <1>1, PTL
=============================================================================
