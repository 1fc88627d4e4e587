--------------------------- MODULE MCPrepareConfig ---------------------------
(***************************************************************************)
(* Model checking PrepareConfig: groups of settings varied around a good   *)
(* configuration, and lists of raw values that write the communicator.     *)
(* The module adds a statement of the documentation that the code does not *)
(* live up to.                                                             *)
(***************************************************************************)
EXTENDS PrepareConfig

Good ==
    [ch_binary_path |-> DefaultBinary, ch_socket_path |-> "given",
     comm_valid |-> TRUE, communicator |-> "ssh",
     vcpus |-> 2, memory |-> 2, cpu_boot |-> {},
     kernel |-> "file", firmware |-> "", initramfs |-> "", cmdline |-> "",
     disk_images |-> <<[path |-> "file", readonly |-> FALSE, image_type |-> NoMode]>>,
     network_interfaces |-> <<[host |-> "ip1", cidr |-> TRUE, spaced |-> FALSE]>>,
     serial |-> NullMode, console |-> NullMode]

\* vcpus and cpu_boot around each other, memory around its minimum and up to
\* values whose size in bytes wraps around.
Sizes ==
    {[Good EXCEPT !.vcpus = v, !.memory = m, !.cpu_boot = b] :
        v \in -1..3, m \in {-2, 0, 1, 2, 3, 7, 8, 16, 31},
        b \in {{}} \cup {{n} : n \in -1..4}}

Payloads ==
    {[Good EXCEPT !.kernel = k, !.firmware = f, !.initramfs = i, !.cmdline = c,
                  !.ch_binary_path = b] :
        k \in PathKinds, f \in PathKinds, i \in PathKinds, c \in {"", "given"},
        b \in {DefaultBinary, "file", "dir", "missing"}}

SomeModes == {NoMode} \cup
    {[word |-> w, form |-> f] : w \in {"file", "null", "odd"}, f \in Forms}

SomeDisks ==
    {[path |-> p, readonly |-> r, image_type |-> t] :
            p \in {"file", "missing"}, r \in BOOLEAN,
            t \in {NoMode, [word |-> "raw", form |-> "upper"],
                   [word |-> "odd", form |-> "lower"]}}

Devices ==
    {[Good EXCEPT !.disk_images = d] :
        d \in {<<>>} \cup {<<x>> : x \in SomeDisks} \cup {<<x, y>> : x, y \in SomeDisks}}
    \cup {[Good EXCEPT !.serial = s, !.console = c] :
            s \in SomeModes, c \in SomeModes}

SomeAddresses ==
    {[NoAddress EXCEPT !.spaced = s] : s \in BOOLEAN}
    \cup {[host |-> h, cidr |-> c, spaced |-> s] :
            h \in {"ip1", "ip2"}, c \in BOOLEAN, s \in BOOLEAN}

Connections ==
    {[Good EXCEPT !.communicator = m, !.comm_valid = v, !.ch_socket_path = s,
                  !.network_interfaces = n] :
        m \in {"", "none", "ssh", "winrm"}, v \in BOOLEAN, s \in {"", "given"},
        n \in {<<>>} \cup {<<a>> : a \in SomeAddresses}
                    \cup {<<a, b>> : a, b \in SomeAddresses}}

MCConfigs == Sizes \cup Payloads \cup Devices \cup Connections

\* Up to two raw values, each with or without a communicator, next to keys
\* that are known, passed on or misspelt.
SomeRaws ==
    {[kind |-> k, settings |-> [x \in {"packer_extra", "kernal"} |-> "x"]] :
        k \in {"map", "cty"}}
    \cup {[kind |-> k, settings |-> [x \in {"communicator", "kernal"} |-> t]] :
        k \in {"map", "cty"}, t \in {"null", "none", "ssh", "winrm"}}

MCRawLists ==
    {<<r>> : r \in SomeRaws} \cup {<<r, q>> : r, q \in SomeRaws}

\* What Packer passes for an HCL template: its own settings and a cty.Value.
HCLRawLists ==
    {<<[kind |-> "map", settings |-> [x \in {"packer_extra"} |-> "x"]],
       [kind |-> "cty", settings |-> [x \in {"communicator"} |-> t]]>> :
        t \in {"null", "none", "ssh", "winrm"}}

=============================================================================
