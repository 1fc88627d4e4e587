------------------------- MODULE PrepareConfigProofs -------------------------
(***************************************************************************)
(* Proofs about PrepareConfig: for every configuration there is, whatever  *)
(* its numbers and however many disks and interfaces it lists, what        *)
(* Config.Prepare accepts buildVMConfig turns into a VM that can boot.     *)
(***************************************************************************)
EXTENDS PrepareConfig, WellFoundedInduction, TLAPS

\* The types of the settings, one by one.
LEMMA Fields ==
    ASSUME NEW c \in ConfigType
    PROVE  /\ c.vcpus \in Int /\ c.memory \in Int /\ c.cpu_boot \in SUBSET Int
           /\ c.disk_images \in Seq(Disks)
           /\ \A k \in DOMAIN c.disk_images : c.disk_images[k] \in Disks
  <1>1. c.vcpus \in Int
    BY Zenon DEF ConfigType
  <1>2. c.memory \in Int
    BY Zenon DEF ConfigType
  <1>3. c.cpu_boot \in SUBSET Int
    BY Zenon DEF ConfigType
  <1>4. c.disk_images \in Seq(Disks)
    BY Zenon DEF ConfigType
  <1>5. \A k \in DOMAIN c.disk_images : c.disk_images[k] \in Disks
    BY <1>4
  <1> QED
    BY <1>1, <1>2, <1>3, <1>4, <1>5

\* The checks an accepted configuration has passed.
LEMMA NoErrors ==
    ASSUME NEW c \in ConfigType, NEW x, Errors(c, x) = {}
    PROVE  /\ PayloadValid(c) /\ CPUBootValid(c) /\ NetworkValid(c, x)
           /\ HasKernel(c) => RegularFile(c.kernel)
           /\ HasFirmware(c) => RegularFile(c.firmware)
           /\ c.initramfs = "" \/ RegularFile(c.initramfs)
           /\ c.vcpus >= 1
           /\ c.memory >= MinMemory
           /\ \A k \in DOMAIN c.disk_images : RegularFile(c.disk_images[k].path)
  <1>1. /\ "payload" \notin Errors(c, x) /\ "cpu_boot" \notin Errors(c, x)
        /\ "network" \notin Errors(c, x) /\ "kernel" \notin Errors(c, x)
        /\ "firmware" \notin Errors(c, x) /\ "initramfs" \notin Errors(c, x)
        /\ "vcpus" \notin Errors(c, x) /\ "memory" \notin Errors(c, x)
        /\ "disk_images" \notin Errors(c, x)
    OBVIOUS
  <1>2. c.vcpus \in Int /\ c.memory \in Int /\ MinMemory \in Int
    BY PrepareAssumption, Fields
  <1>3. PayloadValid(c) /\ CPUBootValid(c) /\ NetworkValid(c, x)
    BY <1>1 DEF Errors
  <1>4. /\ HasKernel(c) => RegularFile(c.kernel)
        /\ HasFirmware(c) => RegularFile(c.firmware)
        /\ c.initramfs = "" \/ RegularFile(c.initramfs)
    BY <1>1 DEF Errors
  <1>5. ~(c.vcpus < 1) /\ ~(c.memory < MinMemory)
    BY <1>1 DEF Errors
  <1>6. \A k \in DOMAIN c.disk_images : RegularFile(c.disk_images[k].path)
    BY <1>1 DEF Errors
  <1>7. c.vcpus >= 1 /\ c.memory >= MinMemory
    BY <1>2, <1>5
  <1> QED
    BY <1>3, <1>4, <1>6, <1>7, Zenon

\* buildVMConfig keeps the disks: their order, paths and flags.
LEMMA DisksKept ==
    ASSUME NEW c \in ConfigType
    PROVE  /\ DOMAIN BuildVMConfig(c).disks = DOMAIN c.disk_images
           /\ \A k \in DOMAIN c.disk_images :
                 /\ BuildVMConfig(c).disks[k].path = c.disk_images[k].path
                 /\ BuildVMConfig(c).disks[k].readonly = c.disk_images[k].readonly
  BY Fields DEF BuildVMConfig, Disks

\* The boot CPUs lie within the CPUs.
LEMMA BootWithinMax ==
    ASSUME NEW c \in ConfigType, CPUBootValid(c), c.vcpus >= 1
    PROVE  1 <= BootVcpus(c) /\ BootVcpus(c) <= c.vcpus
  <1>1. c.vcpus \in Int /\ c.cpu_boot \in SUBSET Int
    BY Fields
  <1>2. CASE \E n \in c.cpu_boot : n > 0
    <2>1. BootVcpus(c) = CHOOSE n \in c.cpu_boot : TRUE
      BY <1>2 DEF BootVcpus
    <2>2. (CHOOSE n \in c.cpu_boot : TRUE) \in c.cpu_boot
      BY <1>2
    <2> QED
      BY <1>1, <2>1, <2>2 DEF CPUBootValid
  <1>3. CASE ~ \E n \in c.cpu_boot : n > 0
    BY <1>1, <1>3 DEF BootVcpus
  <1> QED
    BY <1>2, <1>3

\* A product of integers, taken in two's complement, fits the word.
LEMMA FitsInt64 ==
    ASSUME NEW n \in Int
    PROVE  Int64(n) \in {k \in Int : -Word <= 2 * k /\ 2 * k < Word}
  <1>1. Word \in Nat /\ Word > 0
    BY PrepareAssumption
  <1>2. n % Word \in 0..(Word - 1)
    BY <1>1
  <1> DEFINE r == n % Word
  <1>3. r \in Int /\ 0 <= r /\ r < Word
    BY <1>1, <1>2
  <1>4. Int64(n) = IF 2 * r >= Word THEN r - Word ELSE r
    BY DEF Int64
  <1> HIDE DEF r
  <1> QED
    BY <1>1, <1>3, <1>4

\* Normalizing a mode or an image type changes how it is written.
LEMMA ModesKept ==
    ASSUME NEW m \in Modes, NEW known
    PROVE  Normalize(m, known) \in Modes
  BY DEF Normalize, PascalCase, Modes, Forms, NoMode

\* What buildVMConfig makes of a configuration is a VMConfig of the client.
LEMMA VMConfigTyped ==
    ASSUME NEW c \in ConfigType
    PROVE  BuildVMConfig(c) \in VMConfigType
  <1>1. /\ c.vcpus \in Int /\ c.memory \in Int /\ c.cpu_boot \in SUBSET Int
        /\ c.kernel \in PathKinds /\ c.firmware \in PathKinds
        /\ c.initramfs \in PathKinds /\ c.cmdline \in {"", "given"}
        /\ c.disk_images \in Seq(Disks) /\ c.network_interfaces \in Seq(Addresses)
        /\ c.serial \in Modes /\ c.console \in Modes
    BY DEF ConfigType
  <1>2. BuildVMConfig(c).boot_vcpus \in Int
    <2>1. CASE \E n \in c.cpu_boot : n > 0
      <3>1. (CHOOSE n \in c.cpu_boot : TRUE) \in c.cpu_boot
        BY <2>1
      <3> QED
        BY <1>1, <2>1, <3>1 DEF BuildVMConfig, BootVcpus
    <2>2. CASE ~ \E n \in c.cpu_boot : n > 0
      BY <1>1, <2>2 DEF BuildVMConfig, BootVcpus
    <2> QED
      BY <2>1, <2>2
  <1>3. c.memory * MiB \in Int
    BY Fields, PrepareAssumption
  <1>4. Int64(c.memory * MiB) \in {k \in Int : -Word <= 2 * k /\ 2 * k < Word}
    BY <1>3, FitsInt64
  <1>5. Payload(c) \in [kernel : PathKinds, firmware : PathKinds,
                        initramfs : PathKinds, cmdline : {"", "given"}]
    BY <1>1 DEF Payload, PathKinds
  <1>6. BuildVMConfig(c).disks \in Seq(Disks)
    <2>1. ASSUME NEW k \in DOMAIN c.disk_images
          PROVE  [c.disk_images[k] EXCEPT !.image_type = Normalize(@, ImageTypes)]
                    \in Disks
      <3>1. c.disk_images[k] \in Disks
        BY Fields
      <3>2. Normalize(c.disk_images[k].image_type, ImageTypes) \in Modes
        BY <3>1, ModesKept DEF Disks
      <3> QED
        BY <3>1, <3>2 DEF Disks
    <2>2. DOMAIN c.disk_images = 1..Len(c.disk_images) /\ Len(c.disk_images) \in Nat
      BY Fields
    <2>3. BuildVMConfig(c).disks =
             [k \in 1..Len(c.disk_images) |->
                 [c.disk_images[k] EXCEPT !.image_type = Normalize(@, ImageTypes)]]
      BY <2>2 DEF BuildVMConfig
    <2> QED
      BY <2>1, <2>2, <2>3
  <1>7. /\ BuildVMConfig(c).serial \in [mode : Modes]
        /\ BuildVMConfig(c).console \in [mode : Modes]
    <2>1. NullMode \in Modes
      BY DEF NullMode, Modes, Forms, Words, ConsoleModes
    <2> QED
      BY <1>1, <2>1, ModesKept DEF BuildVMConfig
  <1> QED
    BY <1>1, <1>2, <1>4, <1>5, <1>6, <1>7 DEF BuildVMConfig, VMConfigType

-----------------------------------------------------------------------------

\* What Prepare and buildVMConfig have established, the invariant behind the
\* properties: a translated configuration is one without an error.
PrepareInv ==
    /\ TypeOK
    /\ cfg.communicator = Decoded(FilterRaws(raws))
    /\ phase \in {"accepted", "running", "connecting"} =>
          Errors(cfg, Explicit(FilterRaws(raws))) = {} /\ warned = AllReadonly(cfg)
    /\ Translated => vmConfig = BuildVMConfig(cfg)
    /\ phase = "connecting" => host = CommHost(cfg) /\ Communicator(cfg) # "none"
    /\ phase # "raw" /\ socketPath = "" => phase = "rejected"

\* The invariant of Prepare and Run, for every configuration.
THEOREM PrepareInvariance == Spec => []PrepareInv
  <1>1. Init => PrepareInv
    BY ConfigsAssumption
    DEF Init, PrepareInv, TypeOK, Translated, NoAddress, Addresses
  <1>2. PrepareInv /\ [Next]_prepareVars => PrepareInv'
    <2> SUFFICES ASSUME PrepareInv, [Next]_prepareVars PROVE PrepareInv'
      OBVIOUS
    <2> USE DEF PrepareInv, TypeOK, Translated
    <2>1. CASE PrepareStops
      BY <2>1 DEF PrepareStops
    <2>2. CASE Prepare
      <3>1. warned' \in BOOLEAN
        BY <2>2, Zenon DEF Prepare, AllReadonly
      <3>2. socketPath' # ""
        BY <2>2 DEF Prepare, SocketPath
      <3> QED
        BY <2>2, <3>1, <3>2 DEF Prepare
    <2>3. CASE StartRun
      BY <2>3, VMConfigTyped DEF StartRun
    <2>4. CASE Connect
      BY <2>4 DEF Connect
    <2>5. CASE Ended \/ UNCHANGED prepareVars
      BY <2>5 DEF Ended, prepareVars
    <2> QED
      BY <2>1, <2>2, <2>3, <2>4, <2>5 DEF Next
  <1> QED
    BY <1>1, <1>2, PTL DEF Spec

\* Type correctness of PrepareConfig.
THEOREM PrepareTypes == Spec => []TypeOK
  <1>1. PrepareInv => TypeOK
    BY DEF PrepareInv
  <1> QED
    BY PrepareInvariance, <1>1, PTL

\* Whatever Prepare accepts, the API is sent a machine with a sensible CPU
\* topology, one payload and regular files only.
THEOREM AcceptedBoots == Spec => []AcceptedIsBootable
  <1>1. PrepareInv => AcceptedIsBootable
    <2> SUFFICES ASSUME PrepareInv, Translated
                 PROVE  AcceptedIsBootable
      BY DEF AcceptedIsBootable
    <2>1. cfg \in ConfigType /\ Errors(cfg, Explicit(FilterRaws(raws))) = {} /\ vmConfig = BuildVMConfig(cfg)
      BY DEF PrepareInv, TypeOK, Translated
    <2>2. /\ vmConfig.boot_vcpus = BootVcpus(cfg)
          /\ vmConfig.max_vcpus = cfg.vcpus
          /\ vmConfig.payload = Payload(cfg)
      BY <2>1 DEF BuildVMConfig
    <2>3. 1 <= BootVcpus(cfg) /\ BootVcpus(cfg) <= cfg.vcpus
      BY <2>1, NoErrors, BootWithinMax
    <2>4. /\ RegularFile(Payload(cfg).kernel) # RegularFile(Payload(cfg).firmware)
          /\ Payload(cfg).initramfs = "" \/ RegularFile(Payload(cfg).initramfs)
          /\ Payload(cfg).cmdline # "" => RegularFile(Payload(cfg).kernel)
      BY <2>1, NoErrors
      DEF Payload, PayloadValid, HasKernel, HasFirmware, RegularFile
    <2>5. \A k \in DOMAIN vmConfig.disks : RegularFile(vmConfig.disks[k].path)
      BY <2>1, NoErrors, DisksKept DEF RegularFile
    <2> QED
      BY <2>2, <2>3, <2>4, <2>5 DEF AcceptedIsBootable
  <1> QED
    BY PrepareInvariance, <1>1, PTL

\* A number below half the word is its own remainder.
LEMMA SmallRemainder ==
    ASSUME NEW n \in Nat, NEW w \in Nat \ {0}, n < w
    PROVE  n % w = n
  BY Z3

\* A product of positive numbers is positive.
LEMMA PositiveProduct ==
    ASSUME NEW m \in Int, m >= 1, NEW n \in Int, n >= 1
    PROVE  m * n \in Nat /\ m * n >= 1
  BY Z3

\* As long as the size in bytes fits int64, the VM gets the memory the user
\* asked for, exactly.
THEOREM MemoryIsExact == Spec => []MemoryExact
  <1>1. PrepareInv => MemoryExact
    <2> SUFFICES ASSUME PrepareInv, Translated, 2 * cfg.memory * MiB < Word
                 PROVE  vmConfig.memory = cfg.memory * MiB /\ vmConfig.memory > 0
      BY DEF MemoryExact
    <2>1. cfg \in ConfigType /\ Errors(cfg, Explicit(FilterRaws(raws))) = {} /\ vmConfig = BuildVMConfig(cfg)
      BY DEF PrepareInv, TypeOK, Translated
    <2> DEFINE size == cfg.memory * MiB
    <2>2. cfg.memory \in Int /\ cfg.memory >= MinMemory
      BY <2>1, Fields, NoErrors
    <2>3. /\ MinMemory \in Nat \ {0} /\ MiB \in Nat \ {0}
          /\ Word \in Nat \ {0, 1}
      BY PrepareAssumption
    <2>4. cfg.memory >= 1 /\ MiB >= 1 /\ MiB \in Int
      BY <2>2, <2>3
    <2>5. size \in Nat /\ size >= 1
      BY <2>2, <2>4, PositiveProduct
    <2>6. 2 * cfg.memory * MiB = 2 * size
      BY <2>2, <2>3
    <2> HIDE DEF size
    <2>7. size < Word /\ ~(2 * size >= Word)
      BY <2>3, <2>5, <2>6
    <2>8. Int64(size) = size
      BY <2>3, <2>5, <2>7, SmallRemainder DEF Int64
    <2>9. vmConfig.memory = Int64(size)
      BY <2>1 DEF BuildVMConfig, size
    <2> QED
      BY <2>5, <2>8, <2>9 DEF size
  <1> QED
    BY PrepareInvariance, <1>1, PTL

\* A set of positions has a first one.
LEMMA FirstPosition ==
    ASSUME NEW T, T \subseteq Nat, T # {}
    PROVE  \E k \in T : \A j \in T : k <= j
  <1>1. \E k \in T : \A j \in T : <<j, k>> \notin OpToRel(<, Nat)
    BY NatLessThanWellFounded, WFMin, Zenon
  <1>2. ASSUME NEW j \in Nat, NEW k \in Nat, j < k
        PROVE  <<j, k>> \in OpToRel(<, Nat)
    <2>1. <<j, k>> \in Nat \X Nat /\ <<j, k>>[1] < <<j, k>>[2]
      BY <1>2
    <2> QED
      BY <2>1, Zenon DEF OpToRel
  <1>3. PICK k \in T : \A j \in T : <<j, k>> \notin OpToRel(<, Nat)
    BY <1>1, Zenon
  <1>4. \A j \in T : ~(j < k)
    BY <1>2, <1>3, Zenon
  <1>5. k \in T
    BY <1>3, Zenon
  <1>6. \A j \in T : k <= j
    BY <1>4, <1>5
  <1> QED
    BY <1>5, <1>6

\* CommHost finds the first interface that has an address, if there is one.
LEMMA HostFound ==
    ASSUME NEW c, c.network_interfaces \in Seq(Addresses)
    PROVE  \/ /\ CommHost(c) = NoAddress
              /\ \A k \in DOMAIN c.network_interfaces :
                    TrimSpace(c.network_interfaces[k]) = NoAddress
           \/ \E k \in DOMAIN c.network_interfaces :
                 /\ TrimSpace(c.network_interfaces[k]) # NoAddress
                 /\ CommHost(c) = StripCIDR(TrimSpace(c.network_interfaces[k]))
                 /\ \A j \in 1..(k - 1) :
                       TrimSpace(c.network_interfaces[j]) = NoAddress
  <1> DEFINE net == c.network_interfaces
             addressed == {k \in DOMAIN net : TrimSpace(net[k]) # NoAddress}
             first == CHOOSE k \in addressed : \A j \in addressed : k <= j
  <1>1. CASE addressed = {}
    BY <1>1 DEF CommHost
  <1>2. CASE addressed # {}
    <2>1. DOMAIN net \subseteq Nat /\ DOMAIN net = 1..Len(net) /\ Len(net) \in Nat
      OBVIOUS
    <2>2. first \in addressed /\ \A j \in addressed : first <= j
      BY <1>2, <2>1, FirstPosition
    <2>3. CommHost(c) = StripCIDR(TrimSpace(net[first]))
      BY <1>2 DEF CommHost
    <2> HIDE DEF first
    <2>4. \A j \in 1..(first - 1) : TrimSpace(net[j]) = NoAddress
      BY <2>1, <2>2
    <2> QED
      BY <2>2, <2>3, <2>4
  <1> QED
    BY <1>1, <1>2

\* An address is blank, or it has a host, which trimming and stripping keep.
LEMMA HostKept ==
    ASSUME NEW a \in Addresses
    PROVE  /\ TrimSpace(a) = NoAddress => a.host = ""
           /\ TrimSpace(a) # NoAddress =>
                 LET h == StripCIDR(TrimSpace(a))
                 IN  h.host = a.host /\ h.host # "" /\ ~h.cidr /\ ~h.spaced
  <1>1. CASE a \in [host : STRING \ {""}, cidr : BOOLEAN, spaced : BOOLEAN]
    BY <1>1 DEF TrimSpace, StripCIDR, NoAddress
  <1>2. CASE \E s \in BOOLEAN : a = [host |-> "", cidr |-> FALSE, spaced |-> s]
    <2>1. PICK s \in BOOLEAN : a = [host |-> "", cidr |-> FALSE, spaced |-> s]
      BY <1>2
    <2>2. a.host = "" /\ a.cidr = FALSE
      BY <2>1
    <2>3. TrimSpace(a) = NoAddress
      BY <2>2, Zenon DEF TrimSpace, NoAddress
    <2> QED
      BY <2>2, <2>3
  <1> QED
    BY <1>1, <1>2 DEF Addresses

\* What StepConnect dials is the address of the first interface that has one.
THEOREM HostIsOfInterface == Spec => []HostOfInterface
  <1>1. PrepareInv => HostOfInterface
    <2> SUFFICES ASSUME PrepareInv, phase = "connecting"
                 PROVE  HostOfInterface
      BY DEF HostOfInterface
    <2>1. /\ cfg \in ConfigType
          /\ vmConfig = BuildVMConfig(cfg) /\ host = CommHost(cfg)
      BY DEF PrepareInv, TypeOK, Translated
    <2>2. cfg.network_interfaces \in Seq(Addresses)
      BY <2>1, Zenon DEF ConfigType
    <2>3. vmConfig.net = cfg.network_interfaces
      BY <2>1 DEF BuildVMConfig
    <2>4. \A k \in DOMAIN vmConfig.net : vmConfig.net[k] \in Addresses
      BY <2>2, <2>3
    <2>5. CASE host = NoAddress /\ \A k \in DOMAIN vmConfig.net :
                                      TrimSpace(vmConfig.net[k]) = NoAddress
      BY <2>4, <2>5, HostKept DEF HostOfInterface, NoAddress
    <2>6. CASE \E k \in DOMAIN vmConfig.net :
                 /\ TrimSpace(vmConfig.net[k]) # NoAddress
                 /\ host = StripCIDR(TrimSpace(vmConfig.net[k]))
                 /\ \A j \in 1..(k - 1) : TrimSpace(vmConfig.net[j]) = NoAddress
      <3>1. PICK k \in DOMAIN vmConfig.net :
                 /\ TrimSpace(vmConfig.net[k]) # NoAddress
                 /\ host = StripCIDR(TrimSpace(vmConfig.net[k]))
                 /\ \A j \in 1..(k - 1) : TrimSpace(vmConfig.net[j]) = NoAddress
        BY <2>6
      <3>2. /\ host.host = vmConfig.net[k].host /\ host.host # ""
            /\ ~host.cidr /\ ~host.spaced
        BY <2>4, <3>1, HostKept
      <3>3. \A j \in 1..(k - 1) : vmConfig.net[j].host = ""
        <4>1. \A j \in 1..(k - 1) : j \in DOMAIN vmConfig.net
          BY <2>2, <2>3
        <4> QED
          BY <2>4, <3>1, <4>1, HostKept
      <3> QED
        BY <3>2, <3>3 DEF HostOfInterface
    <2> QED
      BY <2>1, <2>2, <2>3, <2>5, <2>6, HostFound
  <1> QED
    BY PrepareInvariance, <1>1, PTL

-----------------------------------------------------------------------------

\* And a set of positions of a list has a last one.
LEMMA LastPosition ==
    ASSUME NEW n \in Nat, NEW T, T \subseteq 1..n, T # {}
    PROVE  \E k \in T : \A j \in T : j <= k
  <1> DEFINE U == {n - k : k \in T}
  <1>1. U \subseteq Nat /\ U # {}
    <2>1. \A k \in T : k \in Nat /\ k <= n
      OBVIOUS
    <2>2. \A k \in T : n - k \in Nat
      BY <2>1
    <2> QED
      BY <2>2
  <1>2. PICK u \in U : \A v \in U : u <= v
    BY <1>1, FirstPosition
  <1>3. PICK k \in T : u = n - k
    BY <1>2
  <1>4. ASSUME NEW j \in T PROVE j <= k
    <2>1. n - k <= n - j
      BY <1>2, <1>3
    <2> QED
      BY <2>1
  <1> QED
    BY <1>4

\* The filter keeps what the raw values say of the communicator: its key is
\* found in a struct that is squashed into Config.
LEMMA CommunicatorKept ==
    ASSUME NEW rs \in RawLists
    PROVE  /\ DOMAIN FilterRaws(rs) = DOMAIN rs
           /\ Setters(FilterRaws(rs)) = Setters(rs)
           /\ \A i \in DOMAIN rs : FilterRaws(rs)[i].kind = rs[i].kind
           /\ \A i \in Setters(rs) :
                 FilterRaws(rs)[i].settings["communicator"]
                    = rs[i].settings["communicator"]
  <1>1. "communicator" \in KnownKeys
    <2>1. "CommConfig" \in Squashed["Config"] /\ "CommConfig" \in DOMAIN Tags
      BY DEF Squashed, Tags
    <2>2. "CommConfig" \in Collected
      BY <2>1, Zenon DEF Collected
    <2>3. "communicator" \in Tags["CommConfig"]
      BY DEF Tags
    <2> QED
      BY <2>2, <2>3, Zenon DEF KnownKeys
  <1>2. DOMAIN FilterRaws(rs) = DOMAIN rs
    BY DEF FilterRaws
  <1>3. ASSUME NEW i \in DOMAIN rs
        PROVE  /\ FilterRaws(rs)[i].kind = rs[i].kind
               /\ "communicator" \in DOMAIN FilterRaws(rs)[i].settings
                     <=> "communicator" \in DOMAIN rs[i].settings
               /\ "communicator" \in DOMAIN rs[i].settings =>
                     FilterRaws(rs)[i].settings["communicator"]
                        = rs[i].settings["communicator"]
    <2>1. rs[i] = [kind |-> rs[i].kind, settings |-> rs[i].settings]
      BY RawsAssumption DEF IsRaw
    <2>2. CASE rs[i].kind # "map"
      BY <2>2 DEF FilterRaws
    <2>3. CASE rs[i].kind = "map"
      <3> DEFINE kept == DOMAIN rs[i].settings \cap (KnownKeys \cup PassedKeys)
                 f == [k \in kept |-> rs[i].settings[k]]
      <3>1. FilterRaws(rs)[i] = [rs[i] EXCEPT !.settings = f]
        BY <2>3 DEF FilterRaws
      <3> HIDE DEF f
      <3>2. FilterRaws(rs)[i].kind = rs[i].kind /\ FilterRaws(rs)[i].settings = f
        BY <2>1, <3>1
      <3>3. DOMAIN f = kept /\ \A k \in kept : f[k] = rs[i].settings[k]
        BY DEF f
      <3>4. "communicator" \in kept <=> "communicator" \in DOMAIN rs[i].settings
        BY <1>1
      <3> QED
        BY <3>2, <3>3, <3>4
    <2> QED
      BY <2>2, <2>3
  <1> QED
    BY <1>2, <1>3 DEF Setters

\* What some raw values agree on is what config.Decode arrives at, and what
\* Prepare finds if one of them is a map.
LEMMA AgreementDecides ==
    ASSUME NEW rs \in RawLists, NEW t \in Types, Setters(rs) # {},
           \A i \in Setters(rs) : rs[i].settings["communicator"] = t
    PROVE  /\ Decoded(FilterRaws(rs)) = t
           /\ (\E i \in Setters(rs) : rs[i].kind = "map")
                 => Explicit(FilterRaws(rs)) = t
  <1> DEFINE F == FilterRaws(rs)
             given == {i \in Setters(F) : F[i].settings["communicator"] \in Types}
             maps == {i \in Setters(F) : F[i].kind = "map"}
             last == CHOOSE i \in given : \A j \in given : j <= i
             first == CHOOSE i \in maps : \A j \in maps : i <= j
  <1>1. PICK n \in Nat : DOMAIN rs = 1..n
    <2>1. rs \in Seq({rs[i] : i \in DOMAIN rs})
      BY RawsAssumption
    <2>2. DOMAIN rs = 1..Len(rs) /\ Len(rs) \in Nat
      BY <2>1
    <2> QED
      BY <2>2
  <1>2. /\ Setters(F) = Setters(rs) /\ Setters(rs) \subseteq 1..n
        /\ \A i \in Setters(rs) : F[i].settings["communicator"] = t
        /\ \A i \in Setters(rs) : F[i].kind = rs[i].kind
    BY CommunicatorKept, <1>1 DEF Setters
  <1>3. given = Setters(rs) /\ given # {}
    BY <1>2
  <1>4. given \subseteq 1..n /\ maps \subseteq Nat
    BY <1>2
  <1>5. Decoded(F) = t
    <2>1. last \in given
      BY <1>3, <1>4, LastPosition
    <2>2. Decoded(F) = F[last].settings["communicator"]
      BY <1>3 DEF Decoded
    <2> QED
      BY <1>2, <1>3, <2>1, <2>2
  <1>6. ASSUME NEW m \in Setters(rs), rs[m].kind = "map"
        PROVE  Explicit(F) = t
    <2>1. m \in maps /\ maps # {}
      BY <1>2, <1>6
    <2>2. first \in maps
      BY <2>1, <1>4, FirstPosition
    <2>3. F[first].settings["communicator"] = t
      BY <1>2, <2>2
    <2> HIDE DEF F
    <2>4. Explicit(F) = F[first].settings["communicator"]
      BY <2>1, <2>3 DEF Explicit
    <2> QED
      BY <2>3, <2>4
  <1> QED
    BY <1>5, <1>6

\* The build connects with the communicator that the raw values agree on, and
\* where one of those that set it is a map, SSH and WinRM have a network.
THEOREM CommunicatorIsHonoured == Spec => []CommunicatorHonoured
  <1>1. PrepareInv => CommunicatorHonoured
    <2> SUFFICES ASSUME PrepareInv, Translated, NEW t \in Types, Agreed(t)
                 PROVE  /\ Communicator(cfg) = t
                        /\ t # "none" /\ (\E i \in Setters(raws) :
                                               raws[i].kind = "map")
                              => vmConfig.net # <<>>
      BY DEF CommunicatorHonoured
    <2>1. /\ raws \in RawLists /\ cfg \in ConfigType
          /\ cfg.communicator = Decoded(FilterRaws(raws))
          /\ Errors(cfg, Explicit(FilterRaws(raws))) = {}
          /\ vmConfig = BuildVMConfig(cfg)
      BY DEF PrepareInv, TypeOK, Translated
    <2>2. /\ cfg.communicator = t
          /\ (\E i \in Setters(raws) : raws[i].kind = "map")
                => Explicit(FilterRaws(raws)) = t
      BY <2>1, AgreementDecides DEF Agreed
    <2>3. t # ""
      BY DEF Types
    <2>4. NetworkValid(cfg, Explicit(FilterRaws(raws)))
      BY <2>1, NoErrors
    <2>5. vmConfig.net = cfg.network_interfaces
      BY <2>1 DEF BuildVMConfig
    <2> QED
      BY <2>2, <2>3, <2>4, <2>5 DEF NetworkValid, Communicator
  <1> QED
    BY PrepareInvariance, <1>1, PTL
=============================================================================
