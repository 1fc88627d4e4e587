----------------------------- MODULE MCLaunchHost -----------------------------
(***************************************************************************)
(* Model checking LaunchHost, with two statements of step_launch_ch.go     *)
(* that the code does not live up to, each checked by a run of its own.    *)
(***************************************************************************)
EXTENDS LaunchIsolation

\* step_launch_ch.go:26 "launches cloud-hypervisor as a subprocess, waits for
\* the API to become ready via ping": the API is that of the subprocess.
PingsOwnSubprocess == \A b \in Builds : met[b] \subseteq {b}

\* step_launch_ch.go:20 "50 * 100ms = 5s total": the pings come to an end.
PingsBounded == \A b \in Builds : pc[b] = "pinging" ~> pc[b] # "pinging"
=============================================================================
