---------------------------- MODULE PrepareConfig ----------------------------
(***************************************************************************)
(* Config.Prepare (config.go), Builder.buildVMConfig (builder.go) and      *)
(* CommHost (ssh.go): from the raw values of the template to the VMConfig  *)
(* that StepCreateVM sends and the host that StepConnect dials.            *)
(*                                                                         *)
(* A configuration is validated when Packer prepares the template and      *)
(* translated when the build runs, by code that shares no check: what one  *)
(* accepts the other has to turn into a machine the API can boot.          *)
(***************************************************************************)
EXTENDS Integers, Sequences

CONSTANTS
    Configs,    \* the decoded configurations considered
    RawLists,   \* the lists of raw values Prepare is called with
    MinMemory,  \* minMemoryMiB
    MiB,        \* bytes in a MiB
    Word        \* 2^64: int64 arithmetic is modulo this

ASSUME PrepareAssumption ==
    /\ MinMemory \in Nat \ {0}
    /\ MiB \in Nat \ {0}
    /\ Word \in Nat \ {0, 1}

VARIABLES
    phase,     \* "raw", "rejected", "accepted", "running" or "connecting"
    raws,      \* the arguments of Prepare
    cfg,       \* Builder.config, as decoded
    socketPath,  \* Builder.config.ChSocketPath once Prepare has run
    errs,      \* what Prepare found wrong
    warned,    \* whether Prepare warns that no disk is writable
    vmConfig,  \* what buildVMConfig made of the configuration
    host       \* what CommHost answered

prepareVars == <<phase, raws, cfg, socketPath, errs, warned, vmConfig, host>>

-----------------------------------------------------------------------------
(* The data.  A path is "" or says what os.Stat finds at it; a console     *)
(* mode or image type is a word and the way it is written; an address is   *)
(* its host part, whether a CIDR suffix follows, and whether there are      *)
(* blanks around it, which may be all there is.                            *)

PathKinds == {"", "file", "dir", "missing"}

DefaultBinary == "cloud-hypervisor"

Forms == {"lower", "upper", "capital", "pascal"}

NoMode   == [word |-> "", form |-> "lower"]
NullMode == [word |-> "null", form |-> "pascal"]

ConsoleModes == {"off", "pty", "tty", "file", "socket", "null"}
ImageTypes   == {"raw", "qcow2", "fixedvhd", "vhdx"}

NoAddress == [host |-> "", cidr |-> FALSE, spaced |-> FALSE]

Words     == {"", "odd"} \cup ConsoleModes \cup ImageTypes
Modes     == [word : Words, form : Forms]
Addresses == [host : STRING \ {""}, cidr : BOOLEAN, spaced : BOOLEAN]
             \cup {[host |-> "", cidr |-> FALSE, spaced |-> s] : s \in BOOLEAN}
Disks     == [path : PathKinds, readonly : BOOLEAN, image_type : Modes]

Types == {"none", "ssh", "winrm"}

\* type Config, decoded: cpu_boot is a pointer, the set of what it points to.
ConfigType ==
    [ch_binary_path : PathKinds \cup {DefaultBinary},
     ch_socket_path : {"", "given"},
     comm_valid : BOOLEAN,
     communicator : {""} \cup Types,
     vcpus : Int, memory : Int, cpu_boot : SUBSET Int,
     kernel : PathKinds, firmware : PathKinds, initramfs : PathKinds,
     cmdline : {"", "given"},
     disk_images : Seq(Disks),
     network_interfaces : Seq(Addresses),
     serial : Modes, console : Modes]

\* type VMConfig of the client, whose memory size is an int64.
VMConfigType ==
    [boot_vcpus : Int, max_vcpus : Int,
     memory : {n \in Int : -Word <= 2 * n /\ 2 * n < Word},
     payload : [kernel : PathKinds, firmware : PathKinds, initramfs : PathKinds,
                cmdline : {"", "given"}],
     disks : Seq(Disks),
     net : Seq(Addresses),
     serial : [mode : Modes], console : [mode : Modes]]

ASSUME ConfigsAssumption ==
    /\ Configs \subseteq ConfigType
    /\ \A c \in Configs : \A m, n \in c.cpu_boot : m = n

-----------------------------------------------------------------------------
(* The raw values: maps from keys to what is written there, which is what  *)
(* a JSON template and Packer's own settings become, or the cty.Value of   *)
(* an HCL template, which only config.Decode looks into.  "null" stands    *)
(* for a value that is no string, like an attribute that HCL leaves out.   *)

IsRaw(r) ==
    /\ r = [kind |-> r.kind, settings |-> r.settings]
    /\ r.kind \in {"map", "cty"}
    /\ r.settings \in [DOMAIN r.settings -> STRING]
    /\ "communicator" \in DOMAIN r.settings
          => r.settings["communicator"] \in Types \cup {"null"}

ASSUME RawsAssumption ==
    \A rs \in RawLists :
        /\ rs \in Seq({rs[i] : i \in DOMAIN rs})
        /\ \A i \in DOMAIN rs : IsRaw(rs[i])

\* The mapstructure tags of a struct, one key for each kind of setting, and
\* the structs that are squashed into it.
Tags == [Config |-> {"kernel"}, PackerConfig |-> {"packer_debug"},
         CommConfig |-> {"communicator"}, SSH |-> {"ssh_username"},
         SSHTemporaryKeyPair |-> {"temporary_key_pair_type"}]

Squashed == [Config |-> {"PackerConfig", "CommConfig"}, PackerConfig |-> {},
             CommConfig |-> {"SSH"}, SSH |-> {"SSHTemporaryKeyPair"},
             SSHTemporaryKeyPair |-> {}]

\* Mutant: the embedded structs are not searched.
OwnKeys == Tags["Config"]

\* The structs collectKeys comes to: Config and, however deep they are nested,
\* those squashed into one it comes to.
Collected ==
    LET Closed(S) == \A t \in S : Squashed[t] \subseteq S
    IN  {t \in DOMAIN Tags :
            \A S \in SUBSET DOMAIN Tags : "Config" \in S /\ Closed(S) => t \in S}

KnownKeys == UNION {Tags[t] : t \in Collected}

\* Keys with the prefix packer_ are let through with or without a field.
PassedKeys == {"packer_debug", "packer_extra", "type"}

FilterRaws(rs) ==
    [i \in DOMAIN rs |->
        IF rs[i].kind # "map" THEN rs[i]
        ELSE LET kept == DOMAIN rs[i].settings \cap (KnownKeys \cup PassedKeys)
             IN  [rs[i] EXCEPT !.settings = [k \in kept |-> @[k]]]]

\* The raw values that say something of the communicator.
Setters(rs) == {i \in DOMAIN rs : "communicator" \in DOMAIN rs[i].settings}

\* config.Decode: the last one that gives a type wins.
Decoded(rs) ==
    LET given == {i \in Setters(rs) : rs[i].settings["communicator"] \in Types}
    IN  IF given = {} THEN ""
        ELSE rs[CHOOSE i \in given : \A j \in given : j <= i].settings["communicator"]

\* Mutant: the search does not stop at maps without the key.
FirstRawOnly(rs) ==
    IF 1 \in DOMAIN rs /\ "communicator" \in DOMAIN rs[1].settings
    THEN rs[1].settings["communicator"]
    ELSE ""

\* explicitComm: the first map that has the key decides.
Explicit(rs) ==
    LET maps == {i \in Setters(rs) : rs[i].kind = "map"}
    IN  IF maps = {} THEN ""
        ELSE LET s == rs[CHOOSE i \in maps : \A j \in maps : i <= j]
                          .settings["communicator"]
             IN  IF s \in Types THEN s ELSE ""

-----------------------------------------------------------------------------
(* Config.Prepare.                                                         *)

AllReadonly(c) ==
    /\ c.disk_images # <<>>
    /\ \A k \in DOMAIN c.disk_images : c.disk_images[k].readonly

\* os.Stat succeeds and the path is no directory.
RegularFile(path) == path = "file"

HasKernel(c)   == c.kernel # ""
HasFirmware(c) == c.firmware # ""

\* Mutant: cpu_boot is compared with the wrong side of vcpus.
CPUBootUnbounded(c) == \A n \in c.cpu_boot : n >= 1

CPUBootValid(c) == \A n \in c.cpu_boot : n >= 1 /\ n <= c.vcpus

\* Mutant: both payloads are let through.
PayloadPresent(c) == HasKernel(c) \/ HasFirmware(c)

\* Either a kernel or a firmware, and not both.
PayloadValid(c) == HasKernel(c) # HasFirmware(c)

\* The user asked for SSH or WinRM, so there must be a network.
NetworkValid(c, explicit) ==
    explicit \notin {"", "none"} => c.network_interfaces # <<>>

\* Every check is made, and every one that fails is reported.
Errors(c, explicit) ==
    {e \in {"ch_binary_path", "payload", "kernel", "initramfs", "firmware",
            "vcpus", "memory", "cpu_boot", "disk_images", "network"} :
        \/ e = "ch_binary_path" /\ c.ch_binary_path # DefaultBinary
                                /\ ~RegularFile(c.ch_binary_path)
        \/ e = "payload" /\ ~PayloadValid(c)
        \/ e = "kernel" /\ HasKernel(c) /\ ~RegularFile(c.kernel)
        \/ e = "initramfs" /\ c.initramfs # "" /\ ~RegularFile(c.initramfs)
        \/ e = "firmware" /\ HasFirmware(c) /\ ~RegularFile(c.firmware)
        \/ e = "vcpus" /\ c.vcpus < 1
        \/ e = "memory" /\ c.memory < MinMemory
        \/ e = "cpu_boot" /\ ~CPUBootValid(c)
        \/ e = "disk_images" /\ \E k \in DOMAIN c.disk_images :
                                    ~RegularFile(c.disk_images[k].path)
        \/ e = "network" /\ ~NetworkValid(c, explicit)}

-----------------------------------------------------------------------------
(* Builder.buildVMConfig.                                                  *)

\* strings.ToUpper of the first letter.
PascalCase(m) == IF m.form = "lower" THEN [m EXCEPT !.form = "capital"] ELSE m

\* normalizeConsoleMode and normalizeImageType: a known word, however it is
\* written, becomes the variant of the API.
Normalize(m, known) ==
    IF m.word \in known THEN [m EXCEPT !.form = "pascal"]
    ELSE IF m.word = "" THEN NoMode
    ELSE PascalCase(m)

\* Mutant: the product is taken in half the width before it is widened.
Int64Late(n) ==
    LET half == Word \div 4
        r == n % half
    IN  IF 2 * r >= half THEN r - half ELSE r

\* int64(cfg.Memory) * miB, in two's complement.
Int64(n) == LET r == n % Word IN IF 2 * r >= Word THEN r - Word ELSE r

Payload(c) ==
    IF HasKernel(c)
    THEN [kernel |-> c.kernel, firmware |-> "", initramfs |-> c.initramfs,
          cmdline |-> c.cmdline]
    ELSE [kernel |-> "", firmware |-> c.firmware, initramfs |-> "",
          cmdline |-> ""]

\* cpu_boot, when it is set and positive, and vcpus otherwise.
BootVcpus(c) ==
    IF \E n \in c.cpu_boot : n > 0 THEN CHOOSE n \in c.cpu_boot : TRUE ELSE c.vcpus

BuildVMConfig(c) ==
    [boot_vcpus |-> BootVcpus(c),
     max_vcpus  |-> c.vcpus,
     memory     |-> Int64(c.memory * MiB),
     payload    |-> Payload(c),
     disks      |-> [k \in DOMAIN c.disk_images |->
                        [c.disk_images[k] EXCEPT
                            !.image_type = Normalize(@, ImageTypes)]],
     net        |-> c.network_interfaces,
     serial     |-> [mode |-> IF c.serial = NoMode THEN NullMode
                              ELSE Normalize(c.serial, ConsoleModes)],
     console    |-> [mode |-> IF c.console = NoMode THEN NullMode
                              ELSE Normalize(c.console, ConsoleModes)]]

-----------------------------------------------------------------------------
(* CommHost.                                                               *)

StripCIDR(ip) == [ip EXCEPT !.cidr = FALSE]
TrimSpace(ip) == [host |-> ip.host, cidr |-> ip.cidr, spaced |-> FALSE]

\* Mutant: an address of blanks counts as one.
BlankHost(c) ==
    LET Addressed == {k \in DOMAIN c.network_interfaces :
                         c.network_interfaces[k] # NoAddress}
    IN  IF Addressed = {} THEN NoAddress
        ELSE StripCIDR(TrimSpace(c.network_interfaces[
                 CHOOSE k \in Addressed : \A j \in Addressed : k <= j]))

\* The address of the first interface that has one, once blanks are cut off,
\* without its suffix.
CommHost(c) ==
    LET Addressed == {k \in DOMAIN c.network_interfaces :
                         TrimSpace(c.network_interfaces[k]) # NoAddress}
    IN  IF Addressed = {} THEN NoAddress
        ELSE StripCIDR(TrimSpace(c.network_interfaces[
                 CHOOSE k \in Addressed : \A j \in Addressed : k <= j]))

Init ==
    /\ phase = "raw"
    /\ raws \in RawLists
    /\ cfg \in Configs
    /\ cfg.communicator = Decoded(FilterRaws(raws))
    /\ socketPath = ""
    /\ errs = {}
    /\ warned = FALSE
    /\ vmConfig = <<>>
    /\ host = NoAddress

\* An early return: decoding, the communicator's own settings (an SSH user
\* name is missing, say), or no temporary file for the socket path.
PrepareStops ==
    /\ phase = "raw"
    /\ \/ errs' = {"decode"}
       \/ ~cfg.comm_valid /\ errs' = {"communicator"}
       \/ cfg.comm_valid /\ cfg.ch_socket_path = "" /\ errs' = {"ch_socket_path"}
    /\ phase' = "rejected"
    /\ UNCHANGED <<raws, cfg, socketPath, warned, vmConfig, host>>

SocketPath(c) == IF c.ch_socket_path = "" THEN "temporary" ELSE c.ch_socket_path

\* Mutant: a disk that is missing is as good as a warning.
PrepareLenient ==
    /\ phase = "raw"
    /\ cfg.comm_valid
    /\ socketPath' = SocketPath(cfg)
    /\ errs' = Errors(cfg, Explicit(FilterRaws(raws)))
    /\ warned' = AllReadonly(cfg)
    /\ phase' = IF errs' \subseteq {"disk_images"} THEN "accepted" ELSE "rejected"
    /\ UNCHANGED <<raws, cfg, vmConfig, host>>

Prepare ==
    /\ phase = "raw"
    /\ cfg.comm_valid
    /\ socketPath' = SocketPath(cfg)
    /\ errs' = Errors(cfg, Explicit(FilterRaws(raws)))
    /\ warned' = AllReadonly(cfg)
    /\ phase' = IF errs' = {} THEN "accepted" ELSE "rejected"
    /\ UNCHANGED <<raws, cfg, vmConfig, host>>

\* Builder.Run begins.
StartRun ==
    /\ phase = "accepted"
    /\ vmConfig' = BuildVMConfig(cfg)
    /\ phase' = "running"
    /\ UNCHANGED <<raws, cfg, socketPath, errs, warned, host>>

\* communicator.Config.Prepare makes "ssh" of a type that was left out.
Communicator(c) == IF c.communicator = "" THEN "ssh" ELSE c.communicator

\* communicator.StepConnect asks for the host, unless there is nothing to do.
Connect ==
    /\ phase = "running"
    /\ Communicator(cfg) # "none"
    /\ host' = CommHost(cfg)
    /\ phase' = "connecting"
    /\ UNCHANGED <<raws, cfg, socketPath, errs, warned, vmConfig>>

Ended ==
    /\ \/ phase \in {"rejected", "connecting"}
       \/ phase = "running" /\ Communicator(cfg) = "none"
    /\ UNCHANGED prepareVars

Next == PrepareStops \/ Prepare \/ StartRun \/ Connect \/ Ended

Spec == Init /\ [][Next]_prepareVars

-----------------------------------------------------------------------------

Translated == phase \in {"running", "connecting"}

TypeOK ==
    /\ phase \in {"raw", "rejected", "accepted", "running", "connecting"}
    /\ raws \in RawLists
    /\ cfg \in ConfigType
    /\ \A m, n \in cfg.cpu_boot : m = n
    /\ warned \in BOOLEAN
    /\ Translated => vmConfig \in VMConfigType
    /\ (phase = "rejected") <=> (errs # {})

\* The CPU topology and the payload the API is sent make sense whenever
\* Prepare let the configuration through: boot CPUs within the maximum, one
\* payload, of the right kind, every file of it regular when it was checked.
AcceptedIsBootable ==
    Translated =>
        /\ 1 <= vmConfig.boot_vcpus /\ vmConfig.boot_vcpus <= vmConfig.max_vcpus
        /\ RegularFile(vmConfig.payload.kernel) # RegularFile(vmConfig.payload.firmware)
        /\ vmConfig.payload.initramfs = "" \/ RegularFile(vmConfig.payload.initramfs)
        /\ vmConfig.payload.cmdline # "" => RegularFile(vmConfig.payload.kernel)
        /\ \A k \in DOMAIN vmConfig.disks : RegularFile(vmConfig.disks[k].path)

\* The memory size in bytes is exact and positive, as long as it fits int64.
MemoryExact ==
    Translated /\ 2 * cfg.memory * MiB < Word =>
        vmConfig.memory = cfg.memory * MiB /\ vmConfig.memory > 0

\* What is dialled is the address of the first interface that has one,
\* without its suffix and without blanks, and nothing if none has.
HostOfInterface ==
    phase = "connecting" =>
        /\ ~host.cidr /\ ~host.spaced
        /\ IF host.host = "" THEN \A k \in DOMAIN vmConfig.net : vmConfig.net[k].host = ""
           ELSE \E k \in DOMAIN vmConfig.net :
                    /\ vmConfig.net[k].host = host.host
                    /\ \A j \in 1..(k - 1) : vmConfig.net[j].host = ""

\* The raw values that set the communicator all set it to t.
Agreed(t) ==
    /\ Setters(raws) # {}
    /\ \A i \in Setters(raws) : raws[i].settings["communicator"] = t

\* As long as the raw values agree, the build connects with the communicator
\* the user wrote, in JSON or in HCL, whatever keys were filtered out around
\* it.  Where one that sets it is a map, as for a JSON template, Prepare has
\* looked at the same communicator, and SSH and WinRM have a network.  Both
\* conditions are needed: the network is checked for the first map and the
\* build uses the last value, and a cty.Value is not looked into at all.
CommunicatorHonoured ==
    \A t \in Types :
        Translated /\ Agreed(t) =>
            /\ Communicator(cfg) = t
            /\ t # "none" /\ (\E i \in Setters(raws) : raws[i].kind = "map")
                  => vmConfig.net # <<>>
=============================================================================
