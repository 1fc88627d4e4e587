------------------------------ MODULE LaunchHost ------------------------------
(***************************************************************************)
(* StepLaunchCh (step_launch_ch.go) of several builds on one host, with    *)
(* the choice of ch_socket_path in Config.Prepare (config.go).             *)
(*                                                                         *)
(* A socket path is a name in a directory all builds share: a ping reaches *)
(* whoever listens there.  A hypervisor's stderr is a pipe that its build  *)
(* begins to read when the API has answered.  Packer can die at any point, *)
(* and leaves the hypervisor and its socket file to the builds that follow. *)
(* VmBuild follows one build to its end; here the steps between the first  *)
(* successful ping and the cleanup are a phase in which requests are sent. *)
(***************************************************************************)
EXTENDS Naturals, FiniteSets

CONSTANTS
    Builds,       \* the builds of a host, running together or one after another
    Paths,        \* socket paths
    NoPath,       \* a build that has not been prepared has none
    PingRetries,  \* chPingRetries
    PipeSize      \* bound: chunks of output the stderr pipe holds

ASSUME LaunchAssumption ==
    /\ NoPath \notin Paths
    /\ {"absent", "stale"} \cap Builds = {}
    /\ PingRetries \in Nat \ {0}
    /\ PipeSize \in Nat \ {0}

VARIABLES
    pc,      \* where each build is
    path,    \* its ch_socket_path
    tries,   \* its pings that failed
    met,     \* the hypervisors (named after their builds) that answered it
    proc,    \* its hypervisor
    killed,  \* whether SIGKILL was posted to it
    pipe,    \* chunks in its stderr pipe
    reader,  \* the goroutine that logs them
    file     \* what is at each path: nothing, a file, or a build's socket

buildVars == <<pc, path, tries, met>>
procVars  == <<proc, killed>>
pipeVars  == <<pipe, reader>>
vars == <<buildVars, procVars, pipeVars, file>>

-----------------------------------------------------------------------------

Phases == {"new", "temp", "prepared", "pinging", "working", "term", "reap",
           "remove", "done", "crashed"}

Alive(b) == proc[b] \in {"starting", "serving"}

\* The process wants to write to stderr and the pipe has no room.
Stalled(b) == Alive(b) /\ pipe[b] = PipeSize

\* Mutant: the dialer of the client ignores the socket path.
ListensAnywhere(c, p) == proc[c] = "serving"

\* c is the process that accepts connections at p.
Listens(c, p) == file[p] = c /\ proc[c] = "serving"

Goto(b, p) == pc' = [pc EXCEPT ![b] = p]

Init ==
    /\ pc = [b \in Builds |-> "new"]
    /\ path = [b \in Builds |-> NoPath]
    /\ tries = [b \in Builds |-> 0]
    /\ met = [b \in Builds |-> {}]
    /\ proc = [b \in Builds |-> "none"]
    /\ killed = [b \in Builds |-> FALSE]
    /\ pipe = [b \in Builds |-> 0]
    /\ reader = [b \in Builds |-> "none"]
    /\ file \in [Paths -> {"absent", "stale"}]

-----------------------------------------------------------------------------
(* Config.Prepare.                                                         *)

GivenPath(b) ==
    /\ pc[b] = "new"
    /\ \E p \in Paths : path' = [path EXCEPT ![b] = p]
    /\ Goto(b, "prepared")
    /\ UNCHANGED <<tries, met, procVars, pipeVars, file>>

\* os.CreateTemp makes a file under a name that was free.
CreateTemp(b) ==
    /\ pc[b] = "new"
    /\ \E p \in Paths :
          /\ file[p] = "absent"
          /\ path' = [path EXCEPT ![b] = p]
          /\ file' = [file EXCEPT ![p] = "stale"]
    /\ Goto(b, "temp")
    /\ UNCHANGED <<tries, met, procVars, pipeVars>>

\* And os.Remove frees the name again.
RemoveTemp(b) ==
    /\ pc[b] = "temp"
    /\ file' = [file EXCEPT ![path[b]] = "absent"]
    /\ Goto(b, "prepared")
    /\ UNCHANGED <<path, tries, met, procVars, pipeVars>>

-----------------------------------------------------------------------------
(* StepLaunchCh.Run.                                                       *)

\* Without a process there is nothing for Cleanup to do but os.Remove.
LaunchFails(b) ==
    /\ pc[b] = "prepared"
    /\ Goto(b, "remove")
    /\ UNCHANGED <<path, tries, met, procVars, pipeVars, file>>

LaunchStarts(b) ==
    /\ pc[b] = "prepared"
    /\ proc' = [proc EXCEPT ![b] = "starting"]
    /\ Goto(b, "pinging")
    /\ UNCHANGED <<path, tries, met, killed, pipeVars, file>>

\* The client knows a path and not a process: whoever listens there answers.
Answered(b) ==
    \E c \in Builds :
        /\ Listens(c, path[b])
        /\ ~Stalled(c)
        /\ met' = [met EXCEPT ![b] = @ \cup {c}]

\* Mutant: the logging goroutine is forgotten.
PingOKUnread(b) ==
    /\ pc[b] = "pinging"
    /\ tries[b] < PingRetries
    /\ Answered(b)
    /\ Goto(b, "working")
    /\ UNCHANGED <<path, tries, procVars, pipeVars, file>>

PingOK(b) ==
    /\ pc[b] = "pinging"
    /\ tries[b] < PingRetries
    /\ Answered(b)
    /\ reader' = [reader EXCEPT ![b] = "reading"]
    /\ Goto(b, "working")
    /\ UNCHANGED <<path, tries, procVars, pipe, file>>

\* Mutant: the failed pings are not counted.
PingErrUncounted(b) ==
    /\ pc[b] = "pinging"
    /\ tries[b] < PingRetries
    /\ \A c \in Builds : ~Listens(c, path[b])
    /\ UNCHANGED vars

\* Mutant: the loop makes one ping more.
PingErrOnceMore(b) ==
    /\ pc[b] = "pinging"
    /\ tries[b] <= PingRetries
    /\ \A c \in Builds : ~Listens(c, path[b])
    /\ tries' = [tries EXCEPT ![b] = @ + 1]
    /\ UNCHANGED <<pc, path, met, procVars, pipeVars, file>>

\* Nobody listens.  A ping that a stalled process accepted has no answer.
PingErr(b) ==
    /\ pc[b] = "pinging"
    /\ tries[b] < PingRetries
    /\ \A c \in Builds : ~Listens(c, path[b])
    /\ tries' = [tries EXCEPT ![b] = @ + 1]
    /\ UNCHANGED <<pc, path, met, procVars, pipeVars, file>>

PingGivesUp(b) ==
    /\ pc[b] = "pinging"
    /\ tries[b] = PingRetries
    /\ Goto(b, "term")
    /\ UNCHANGED <<path, tries, met, procVars, pipeVars, file>>

\* The later steps, whose requests go to the same path.
Work(b) ==
    /\ pc[b] = "working"
    /\ Answered(b)
    /\ UNCHANGED <<pc, path, tries, procVars, pipeVars, file>>

\* The last step is over, or one of them failed.
WorkEnds(b) ==
    /\ pc[b] = "working"
    /\ Goto(b, "term")
    /\ UNCHANGED <<path, tries, met, procVars, pipeVars, file>>

\* The build's context is done: the step halts, exec.CommandContext kills.
Interrupted(b) ==
    /\ pc[b] \in {"pinging", "working"}
    /\ killed' = [killed EXCEPT ![b] = TRUE]
    /\ Goto(b, "term")
    /\ UNCHANGED <<path, tries, met, proc, pipeVars, file>>

-----------------------------------------------------------------------------
(* StepLaunchCh.Cleanup.                                                   *)

\* SIGTERM, or SIGKILL where it cannot be sent; cmd.Wait is called.
Signal(b) ==
    /\ pc[b] = "term"
    /\ killed' \in {killed, [killed EXCEPT ![b] = TRUE]}
    /\ Goto(b, "reap")
    /\ UNCHANGED <<path, tries, met, proc, pipeVars, file>>

\* cmd.Wait returns when the process has exited and closes the pipe, read to
\* its end or not.  It does so even if nobody waits for it any more.
Wait(b) ==
    /\ pc[b] \in {"reap", "remove", "done"}
    /\ proc[b] = "dead"
    /\ reader[b] # "closed"
    /\ pipe' = [pipe EXCEPT ![b] = 0]
    /\ reader' = [reader EXCEPT ![b] = "closed"]
    /\ UNCHANGED <<buildVars, procVars, file>>

Reaped(b) ==
    /\ pc[b] = "reap"
    /\ reader[b] = "closed"
    /\ Goto(b, "remove")
    /\ UNCHANGED <<path, tries, met, procVars, pipeVars, file>>

\* Mutant: the wait goes on for as long as the process likes.
NeverKills(b) == FALSE

\* killWaitSeconds are over.
Kills(b) ==
    /\ pc[b] = "reap"
    /\ killed' = [killed EXCEPT ![b] = TRUE]
    /\ Goto(b, "remove")
    /\ UNCHANGED <<path, tries, met, proc, pipeVars, file>>

\* Mutant: only a socket that this build's process made is removed.
RemoveOwnSocket(b) ==
    /\ pc[b] = "remove"
    /\ file' = IF file[path[b]] = b THEN [file EXCEPT ![path[b]] = "absent"] ELSE file
    /\ Goto(b, "done")
    /\ UNCHANGED <<path, tries, met, procVars, pipeVars>>

\* Mutant: every ch-socket-* is removed.
RemoveAllSockets(b) ==
    /\ pc[b] = "remove"
    /\ file' = [p \in Paths |-> "absent"]
    /\ Goto(b, "done")
    /\ UNCHANGED <<path, tries, met, procVars, pipeVars>>

\* os.Remove, whosever file it is.
RemoveSocket(b) ==
    /\ pc[b] = "remove"
    /\ file' = [file EXCEPT ![path[b]] = "absent"]
    /\ Goto(b, "done")
    /\ UNCHANGED <<path, tries, met, procVars, pipeVars>>

-----------------------------------------------------------------------------
(* The other actors.                                                       *)

\* Packer is killed: the pipe loses its reader, and nobody cleans up.
PackerDies(b) ==
    /\ pc[b] \notin {"new", "done", "crashed"}
    /\ pipe' = [pipe EXCEPT ![b] = 0]
    /\ reader' = [reader EXCEPT ![b] = "closed"]
    /\ Goto(b, "crashed")
    /\ UNCHANGED <<path, tries, met, procVars, file>>

\* The logging goroutine.
Read(b) ==
    /\ reader[b] = "reading"
    /\ pipe[b] > 0
    /\ pipe' = [pipe EXCEPT ![b] = @ - 1]
    /\ UNCHANGED <<buildVars, procVars, reader, file>>

Write(b) ==
    /\ Alive(b)
    /\ pc[b] # "crashed"
    /\ pipe[b] < PipeSize
    /\ pipe' = [pipe EXCEPT ![b] = @ + 1]
    /\ UNCHANGED <<buildVars, procVars, reader, file>>

\* The API is up.  An address that is taken leaves only Exit.
Bind(b) ==
    /\ proc[b] = "starting"
    /\ ~Stalled(b)
    /\ file[path[b]] = "absent"
    /\ proc' = [proc EXCEPT ![b] = "serving"]
    /\ file' = [file EXCEPT ![path[b]] = b]
    /\ UNCHANGED <<buildVars, killed, pipeVars>>

\* A crash, or a signal: by SIGTERM the process may unlink its path.
Exit(b) ==
    /\ Alive(b)
    /\ proc' = [proc EXCEPT ![b] = "dead"]
    /\ \/ UNCHANGED file
       \/ /\ pc[b] \in {"reap", "remove", "done"}
          /\ file' = [file EXCEPT ![path[b]] = "absent"]
    /\ UNCHANGED <<buildVars, killed, pipeVars>>

Killed(b) == killed[b] /\ Exit(b)

Finished == (\A b \in Builds : pc[b] \in {"done", "crashed"}) /\ UNCHANGED vars

-----------------------------------------------------------------------------

Prepare(b) == GivenPath(b) \/ CreateTemp(b) \/ RemoveTemp(b)

Run(b) == PingOK(b) \/ PingErr(b) \/ PingGivesUp(b)

Cleanup(b) == Signal(b) \/ Reaped(b) \/ Kills(b) \/ RemoveSocket(b)

Next ==
    \/ \E b \in Builds :
          \/ Prepare(b)
          \/ LaunchFails(b) \/ LaunchStarts(b) \/ Run(b)
          \/ Work(b) \/ WorkEnds(b)
          \/ Interrupted(b) \/ PackerDies(b)
          \/ Cleanup(b) \/ Wait(b) \/ Read(b)
          \/ Write(b) \/ Bind(b) \/ Exit(b)
    \/ Finished

Spec == Init /\ [][Next]_vars

\* A step that has begun goes on, its goroutines run, and SIGKILL is
\* delivered; a process that can write to stderr again and again answers in
\* the end (SF).  Packer may never begin a build or end its work, and nothing
\* else is assumed of a hypervisor that is not killed.
Fairness ==
    \A b \in Builds :
        /\ SF_vars(Run(b)) /\ WF_vars(Cleanup(b))
        /\ WF_vars(Wait(b)) /\ WF_vars(Read(b))
        /\ WF_vars(Killed(b))

FairSpec == Spec /\ Fairness

-----------------------------------------------------------------------------

TypeOK ==
    /\ pc \in [Builds -> Phases]
    /\ path \in [Builds -> Paths \cup {NoPath}]
    /\ tries \in [Builds -> 0..PingRetries]
    /\ met \in [Builds -> SUBSET Builds]
    /\ proc \in [Builds -> {"none", "starting", "serving", "dead"}]
    /\ killed \in [Builds -> BOOLEAN]
    /\ pipe \in [Builds -> 0..PipeSize]
    /\ reader \in [Builds -> {"none", "reading", "closed"}]
    /\ file \in [Paths -> Builds \cup {"absent", "stale"}]

\* No other build was given, or drew, the path of b.
Alone(b) == \A c \in Builds \ {b} : path[c] # path[b]

\* As long as no two builds have one path, a build only ever talks to the
\* hypervisor it launched, whatever the others do and however they end.
OwnHypervisor == \A b \in Builds : Alone(b) => met[b] \subseteq {b}

\* And its API stays reachable: neither the cleanup nor the temporary file of
\* another build takes the socket away before the build's own cleanup does.
Reachable ==
    \A b \in Builds :
        Alone(b) /\ proc[b] = "serving" /\ pc[b] \in {"pinging", "working", "term"}
            => file[path[b]] = b

\* A file that nobody listens on is found at the path of a finished build
\* only because another build there is under way, or died with Packer, or
\* because a process was killed without waiting for its exit: Cleanup clears
\* the path of what earlier builds left, so that a later one can bind it.
Leftover(p) == file[p] # "absent" /\ \A c \in Builds : ~(file[p] = c /\ Alive(c))

LeftoverExplained ==
    \A b \in Builds :
        pc[b] = "done" /\ Leftover(path[b])
            => \E c \in Builds : path[c] = path[b] /\ (pc[c] # "done" \/ killed[c])

\* A hypervisor that cannot write to stderr is never left to itself: as long
\* as its build has not had its answer the ping loop, and after it the logging
\* goroutine, the cleanup or a SIGKILL stands between it and a stall for ever.
StallEnds ==
    \A b \in Builds :
        Stalled(b) => \/ pc[b] \in {"pinging", "term", "reap"}
                      \/ reader[b] = "reading"
                      \/ killed[b]

\* What the invariants above rest on: a path is chosen once, a socket lies at
\* its process's path, the stderr of a working build is read, and the end of
\* a process is waited for or forced.
PathInv ==
    /\ \A b \in Builds :
          /\ pc[b] = "new" <=> path[b] = NoPath
          /\ pc[b] \in {"new", "temp", "prepared"}
                => proc[b] = "none" /\ reader[b] = "none" /\ met[b] = {}
          /\ \A c \in met[b] : path[c] = path[b]
          /\ reader[b] = "closed" => pc[b] = "crashed" \/ ~Alive(b)
          /\ pc[b] = "working" => reader[b] = "reading"
          /\ pc[b] = "crashed" => pipe[b] = 0
          /\ pc[b] \in {"remove", "done"} => ~Alive(b) \/ killed[b]
    /\ \A p \in Paths, c \in Builds :
          file[p] = c => path[c] = p /\ proc[c] # "none"

LaunchInv == TypeOK /\ PathInv /\ Reachable /\ LeftoverExplained

\* StepLaunchCh.Run ends, unless it pings a hypervisor that waits for its own
\* build, also pinging, to read its stderr.
LaunchReturns ==
    \A b \in Builds :
        \/ []<>(pc[b] # "pinging")
        \/ <>[](\E c \in Builds :
                    path[c] = path[b] /\ pc[c] = "pinging" /\ Stalled(c))

\* Once the API has answered its build, a hypervisor does not wait for ever
\* to write to stderr: it is read, or the process is killed.
StallsOnlyUnready ==
    \A b \in Builds : []<>(~Stalled(b)) \/ <>[](pc[b] = "pinging")

\* Cleanup ends, also of a hypervisor that is stalled and ignores SIGTERM.
CleanupEnds ==
    \A b \in Builds :
        pc[b] \in {"term", "reap", "remove"} ~> pc[b] \in {"done", "crashed"}
=============================================================================
