--------------------------- MODULE CloudHypervisor ---------------------------
(***************************************************************************)
(* The cloud-hypervisor process the builder launches, with the one virtual *)
(* machine it can hold and the HTTP API it serves on a Unix socket.        *)
(*                                                                         *)
(* The program is not part of the repository: every action below is        *)
(* external, read off the way builder/cloud-hypervisor uses it (the calls  *)
(* of chclient, the SIGTERM / Wait / SIGKILL of StepLaunchCh.Cleanup, the  *)
(* exec.CommandContext of StepLaunchCh.Run).  It is a machine that does    *)
(* anything the builder has to be ready for: it can refuse a call, crash   *)
(* at any moment, exit late, and, with the faults enabled, lie or hang.    *)
(***************************************************************************)
CONSTANT Faults
    \* "api":    a request may be answered with an HTTP error (a 500, say)
    \*           whatever the state of the VM
    \* "hang":   the process may stop answering and ignore SIGTERM
    \* "remove": os.Remove of the socket file may fail

ASSUME FaultsAssumption == Faults \subseteq {"api", "hang", "remove"}

VARIABLES
    proc,     \* the process
    signals,  \* the signals posted to it
    socket,   \* whether the API socket file exists
    vm,       \* the virtual machine in it
    call,     \* the builder's outstanding request and its reply
    late      \* abandoned requests the process may still execute

chVars == <<proc, signals, socket, vm, call, late>>

-----------------------------------------------------------------------------

Procs   == {"none", "starting", "serving", "stuck", "dead"}
VMs     == {"none", "created", "running", "stopping", "off"}
Ops     == {"ping", "create", "boot", "shutdown", "info", "delete"}
Updates == {"create", "boot", "shutdown", "delete"}
Replies == {"wait", "ok", "err"}

\* What can cancel a request: the build's context, or nothing at all.
Contexts == {"build", "background"}

\* No request is outstanding.
Idle == [op |-> "none", ctx |-> "none", reply |-> "none"]

Calls == [op : Ops, ctx : Contexts, reply : Replies] \cup {Idle}

Alive == proc \in {"starting", "serving", "stuck"}

\* The guest executes and may write to its disk images.
GuestActive == vm \in {"running", "stopping"}

CHTypeOK ==
    /\ proc \in Procs
    /\ signals \subseteq {"TERM", "KILL"}
    /\ socket \in BOOLEAN
    /\ vm \in VMs
    /\ call \in Calls
    /\ late \subseteq Updates

\* A socket file may be left from an earlier build: the path is the user's.
CHInit ==
    /\ proc = "none"
    /\ signals = {}
    /\ socket \in BOOLEAN
    /\ vm = "none"
    /\ call = Idle
    /\ late = {}

-----------------------------------------------------------------------------
(* The API.                                                                *)

\* The VM states in which a request can succeed, and what it then does.
Accepts(op) ==
    /\ op = "create" => vm = "none"
    /\ op = "boot" => vm \in {"created", "off"}
    /\ op = "shutdown" => vm \in {"running", "stopping"}
    /\ op = "info" => vm # "none"

Execute(op) ==
    \/ op = "create" /\ vm' = "created"
    \/ op = "boot" /\ vm' = "running"
    \/ op = "shutdown" /\ vm' = "stopping"
    \/ op = "delete" /\ vm' = "none"
    \/ op \notin Updates /\ UNCHANGED vm

\* A bad configuration, a missing image or a guest that ignores the request
\* makes these fail; the other requests fail only in the wrong state.
Refusable == {"create", "boot", "shutdown"}

Serve ==
    /\ proc = "serving"
    /\ call.reply = "wait"
    /\ \/ /\ Accepts(call.op)
          /\ Execute(call.op)
          /\ call' = [call EXCEPT !.reply = "ok"]
       \/ /\ ~Accepts(call.op) \/ call.op \in Refusable \/ "api" \in Faults
          /\ call' = [call EXCEPT !.reply = "err"]
          /\ UNCHANGED vm
    /\ UNCHANGED <<proc, signals, socket, late>>

\* Nobody listens: connection refused, reset, or no socket file at all.
ConnectionFails ==
    /\ proc \notin {"serving", "stuck"}
    /\ call.reply = "wait"
    /\ call' = [call EXCEPT !.reply = "err"]
    /\ UNCHANGED <<proc, signals, socket, vm, late>>

\* A request whose caller has gone away is still executed.
LateServe ==
    /\ proc = "serving"
    /\ \E op \in late :
          /\ late' = late \ {op}
          /\ IF Accepts(op) THEN Execute(op) ELSE UNCHANGED vm
    /\ UNCHANGED <<proc, signals, socket, call>>

-----------------------------------------------------------------------------
(* The process and the guest.                                              *)

\* The API is up; an address that is taken makes the process exit (Crash).
Bind ==
    /\ proc = "starting"
    /\ ~socket
    /\ proc' = "serving"
    /\ socket' = TRUE
    /\ UNCHANGED <<signals, vm, call, late>>

Die ==
    /\ proc' = "dead"
    /\ vm' = "none"
    /\ late' = {}

Crash ==
    /\ Alive
    /\ Die
    /\ UNCHANGED <<signals, socket, call>>

Hang ==
    /\ "hang" \in Faults
    /\ proc = "serving"
    /\ proc' = "stuck"
    /\ UNCHANGED <<signals, socket, vm, call, late>>

\* The guest powers off, by itself or because it was asked to.
GuestStops ==
    /\ GuestActive
    /\ vm' \in {"off", "none"}
    /\ UNCHANGED <<proc, signals, socket, call, late>>

\* SIGTERM lets the process clean up after itself: it may unlink its socket.
Terminated ==
    /\ "TERM" \in signals
    /\ proc \in {"starting", "serving"}
    /\ Die
    /\ socket' \in {socket, FALSE}
    /\ UNCHANGED <<signals, call>>

Killed ==
    /\ "KILL" \in signals
    /\ Alive
    /\ Die
    /\ UNCHANGED <<signals, socket, call>>

Hypervisor ==
    \/ Serve
    \/ ConnectionFails
    \/ LateServe
    \/ Bind
    \/ Crash
    \/ Hang
    \/ GuestStops
    \/ Terminated
    \/ Killed
=============================================================================
