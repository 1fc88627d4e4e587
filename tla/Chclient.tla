------------------------------ MODULE Chclient ------------------------------
(***************************************************************************)
(* The API client, chclient/client.go: one blocking request at a time,     *)
(* which ends with the answer, with a connection error, or with the        *)
(* cancellation of its context.  http.Client is built without a Timeout,   *)
(* so nothing else ends it.                                                *)
(***************************************************************************)
EXTENDS CloudHypervisor

VARIABLE cancelled  \* the build's context is done (Packer was interrupted)

\* http.NewRequestWithContext and http.Client.Do: the request goes out with
\* the context it was given.
Request(op, ctx) ==
    /\ call = Idle
    /\ call' = [op |-> op, ctx |-> ctx, reply |-> "wait"]

\* The method returns: nil for a status below 400, an error for the rest.
Answered(op, reply) ==
    /\ call.op = op
    /\ call.reply = reply
    /\ call' = Idle

\* Mutant: the http.Client is built with a Timeout.
CtxTimesOut ==
    /\ call.ctx = "build"
    /\ call.reply \in {"wait", "ok"}
    /\ call' = [call EXCEPT !.reply = "err"]
    /\ late' = IF call.reply = "wait" /\ call.op \in Updates /\ proc = "serving"
               THEN late \cup {call.op}
               ELSE late
    /\ UNCHANGED <<proc, signals, socket, vm, cancelled>>

\* Do or ReadAll gives up because the context is done.  What was sent may
\* already have been executed, or may yet be.
CtxAborts ==
    /\ cancelled
    /\ call.ctx = "build"
    /\ call.reply \in {"wait", "ok"}
    /\ call' = [call EXCEPT !.reply = "err"]
    /\ late' = IF call.reply = "wait" /\ call.op \in Updates /\ proc = "serving"
               THEN late \cup {call.op}
               ELSE late
    /\ UNCHANGED <<proc, signals, socket, vm, cancelled>>

-----------------------------------------------------------------------------

Ping(ctx)       == Request("ping", ctx)
CreateVM(ctx)   == Request("create", ctx)
BootVM(ctx)     == Request("boot", ctx)
ShutdownVM(ctx) == Request("shutdown", ctx)
DeleteVM(ctx)   == Request("delete", ctx)
VMInfo(ctx)     == Request("info", ctx)
=============================================================================
