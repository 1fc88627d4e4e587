---------------------------- MODULE LaunchIsolation ----------------------------
(***************************************************************************)
(* What the builds of one host are to each other as long as no two of them *)
(* have one socket path: nothing.  The reference is LaunchHost itself, for *)
(* a host that runs a single build.                                        *)
(***************************************************************************)
EXTENDS LaunchHost

\* The part of f that is about b.
Own(b, f) == [x \in {b} |-> f[x]]

\* The files of a host on which there is nothing but what is at b's path.
OwnFile(b) == [p \in Paths |-> IF p = path[b] THEN file[p] ELSE "absent"]

\* The host of b alone.
Private(b) == INSTANCE LaunchHost WITH
    Builds <- {b},
    pc <- Own(b, pc), path <- Own(b, path),
    tries <- Own(b, tries), met <- Own(b, met),
    proc <- Own(b, proc), killed <- Own(b, killed),
    pipe <- Own(b, pipe), reader <- Own(b, reader),
    file <- OwnFile(b)

\* Once it has its path, and as long as no other build has that path too, a
\* build goes through nothing it would not go through on a host of its own:
\* whatever launches, pings, crashes, cleans up or dies next to it.
Undisturbed(b) ==
    pc[b] # "new" /\ Alone(b)' =>
        UNCHANGED Private(b)!vars \/ Private(b)!Next

Isolated == [][\A b \in Builds : Undisturbed(b)]_vars
=============================================================================
