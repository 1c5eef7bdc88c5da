----------------------------- MODULE SessionPod -----------------------------
(***************************************************************************)
(* The pod of a desktop session, computed from its template:               *)
(* Template.ToPodSpec and the files template_util*.go, and what kvdi-proxy *)
(* makes of the arguments it is given there. Volumes, mounts and           *)
(* containers are computed in different files, and each of them decides    *)
(* for itself which sockets need a volume of their own.                    *)
(*                                                                         *)
(* A template t is a record: display (an address, or NoAddress), pulse  *)
(* (a path, or NoPath), qemu ("none", "csi", or "image" without the CSI        *)
(* driver), dind, dindMounts, mounts and volumes (the template's own),     *)
(* init, files (file transfer). An address is a scheme and a path. A path  *)
(* is a sequence of cells, so that a prefix of the string is a prefix of   *)
(* the sequence: "/" is a cell, and a name is one or more.                 *)
(***************************************************************************)
EXTENDS Integers, SequencesExt, FiniteSetsExt

VARIABLE template   \* the template of the session, and what else its pod depends on

(* The empty string, which stands for a field that is not set. *)
NoAddress == [scheme |-> "", path |-> <<>>]
NoPath == <<>>
NoUser == -1

Tmp == <<"/", "tmp">>
Run == <<"/", "run">>
RunLock == <<"/", "run", "/", "lock">>
Home == <<"/", "home">>
UserHome == <<"/", "home", "/", "user">>
HomeMnt == <<"/", "mnt", "/", "home">>
DefaultPulse == <<"/", "run", "/", "user", "/", "9000", "/", "pulse", "/", "native">>
DefaultDisplay == [scheme |-> "unix", path |-> <<"/", "var", "/", "run", "/", "kvdi", "/", "display.sock">>]

Mount(name, path) == [name |-> name, path |-> path]

(* path.Dir, of an absolute path without . and .. in it, of two names or more. *)
Dir(p) == SubSeq(p, 1, SelectLastInSeq(p, LAMBDA c : c = "/") - 1)

(* strings.TrimSuffix(path, "/") *)
TrimSlash(p) == IF p # <<>> /\ Last(p) = "/" THEN Front(p) ELSE p

-----------------------------------------------------------------------------
(* template_util_proxy.go, template_util_qemu.go, template_util_dind.go    *)

DisplaySocket(t) == IF t.display = NoAddress THEN DefaultDisplay ELSE t.display
IsUNIXDisplaySocket(t) == DisplaySocket(t).scheme = "unix"
PulseServer(t) == IF t.pulse = NoPath THEN DefaultPulse ELSE t.pulse
IsQEMUTemplate(t) == t.qemu # "none"
QEMUUseCSI(t) == t.qemu = "csi"

(* The init system the template names, systemd if it names none. *)
Systemd(t) == t.init # "supervisord"

NeedsEmptyTmpVolume(t) == ~ \E m \in t.mounts : TrimSlash(m.path) = Tmp

(* Broken: the proxy gets the volume of the manager in any case. *)
TmpVolumeAlways(t) == "tmp"

TmpVolume(t) ==
    IF NeedsEmptyTmpVolume(t) THEN "tmp"
    ELSE (CHOOSE m \in t.mounts : TrimSlash(m.path) = Tmp).name

(* The condition that volumes, desktop and proxy repeat each for itself. *)
NeedsDisplayVolume(t) ==
    IsUNIXDisplaySocket(t) /\ ~ IsPrefix(Tmp, Dir(DisplaySocket(t).path))

NeedsDedicatedPulseVolume(t) ==
    /\ ~ (IsUNIXDisplaySocket(t) /\ Dir(DisplaySocket(t).path) = Dir(PulseServer(t)))
    /\ ~ \E m \in t.mounts : IsPrefix(m.path, PulseServer(t))
    /\ ~ \E p \in {Tmp, Run, Home} : IsPrefix(p, PulseServer(t))

DisplayMounts(t) ==
    IF NeedsDisplayVolume(t) THEN {Mount("vnc-sock", Dir(DisplaySocket(t).path))} ELSE {}
PulseMounts(t) ==
    IF NeedsDedicatedPulseVolume(t) THEN {Mount("pulse-sock", Dir(PulseServer(t)))} ELSE {}

-----------------------------------------------------------------------------
(* template_util_volumes.go: GetVolumes, the names and what is in them.    *)
(* claim: the session has a claim for the home of its user.                *)

Volumes(t, claim) ==
    {<<"run", "empty">>, <<"run-lock", "empty">>, <<"shm", "host">>, <<"tls", "secret">>,
     <<"home", IF claim THEN "claim" ELSE "empty">>}
    \cup (IF NeedsEmptyTmpVolume(t) THEN {<<"tmp", "empty">>} ELSE {})
    \cup (IF NeedsDisplayVolume(t) THEN {<<"vnc-sock", "empty">>} ELSE {})
    \cup (IF NeedsDedicatedPulseVolume(t) THEN {<<"pulse-sock", "empty">>} ELSE {})
    \cup (IF Systemd(t) \/ IsQEMUTemplate(t) THEN {<<"cgroups", "host">>} ELSE {})
    \cup (IF IsQEMUTemplate(t) THEN {<<"qemu-kvm", "host">>} ELSE {})
    \cup (IF QEMUUseCSI(t) THEN {<<"qemu-disk-image", "image">>} ELSE {})
    \cup (IF t.dind THEN {<<"docker-data", "empty">>, <<"docker-bin", "empty">>} ELSE {})
    \cup {<<v, "own">> : v \in t.volumes}

DockerData == <<"/", "var", "/", "lib", "/", "docker">>
DockerBin == <<"/", "usr", "/", "local", "/", "docker", "/", "bin">>

(* GetDesktopVolumeMounts, for a desktop as for a virtual machine. *)
DesktopMounts(t) ==
    {Mount("run", Run), Mount("run-lock", RunLock), Mount("shm", <<"/", "dev", "/", "shm">>),
     Mount("home", UserHome)}
    \cup (IF NeedsEmptyTmpVolume(t) THEN {Mount("tmp", Tmp)} ELSE {})
    \cup DisplayMounts(t) \cup PulseMounts(t)
    \cup (IF Systemd(t) \/ IsQEMUTemplate(t) THEN {Mount("cgroups", <<"/", "sys", "/", "fs", "/", "cgroup">>)} ELSE {})
    \cup (IF IsQEMUTemplate(t) THEN {Mount("qemu-kvm", <<"/", "dev", "/", "kvm">>)} ELSE t.mounts)
    \cup (IF QEMUUseCSI(t) THEN {Mount("qemu-disk-image", <<"/", "disk">>)} ELSE {})
    \cup (IF t.dind THEN {Mount("docker-bin", DockerBin)} ELSE {})

-----------------------------------------------------------------------------
(* The containers. user: the user a container asks to run as, if any.      *)
(* display: the address of the display it is told, as a scheme and a path. *)

ProxyContainer(t) ==
    [name |-> "kvdi-proxy", user |-> NoUser, privileged |-> FALSE, display |-> DisplaySocket(t),
     mounts |-> {Mount(TmpVolume(t), Tmp), Mount("run", Run), Mount("run-lock", RunLock),
                 Mount("tls", <<"/", "etc", "/", "kvdi", "/", "tls", "/", "server">>)}
                \cup DisplayMounts(t) \cup PulseMounts(t)
                \cup (IF t.files THEN {Mount("home", HomeMnt)} ELSE {})]

(* A virtual machine is told the URI of the display. *)
QEMUContainer(t) ==
    [name |-> "qemu-kvm", user |-> 9000, privileged |-> TRUE, display |-> DisplaySocket(t),
     mounts |-> DesktopMounts(t)]

(* A desktop is told the path, and only if it is one. *)
DesktopContainer(t) ==
    [name |-> "desktop",
     user |-> IF Systemd(t) THEN 0 ELSE 9000, privileged |-> Systemd(t),
     display |-> IF IsUNIXDisplaySocket(t) THEN [DisplaySocket(t) EXCEPT !.scheme = ""] ELSE NoAddress,
     mounts |-> DesktopMounts(t)]

DindContainer(t) ==
    [name |-> "dind", user |-> NoUser, privileged |-> TRUE, display |-> NoAddress,
     mounts |-> t.dindMounts \cup {Mount("run", Run), Mount("docker-data", DockerData)}]

Main(t) == IF IsQEMUTemplate(t) THEN QEMUContainer(t) ELSE DesktopContainer(t)

Containers(t) == {ProxyContainer(t), Main(t)} \cup (IF t.dind THEN {DindContainer(t)} ELSE {})

(* An image that is copied into /run, or else the binaries of docker. *)
InitContainers(t) ==
    IF IsQEMUTemplate(t) /\ ~ QEMUUseCSI(t) THEN {[name |-> "qemu-kvm-init", mounts |-> {Mount("run", Run)}]}
    ELSE IF t.dind THEN {[name |-> "dind-init", mounts |-> {Mount("docker-bin", DockerBin)}]}
    ELSE {}

(* RunAsNonRoot of the pod. *)
NonRoot(t) == ~ (t.dind \/ Systemd(t))

Pod(t, claim) ==
    [volumes |-> Volumes(t, claim), init |-> InitContainers(t), containers |-> Containers(t), nonRoot |-> NonRoot(t)]

(* What kvdi-proxy dials, or NoAddress: it exits. *)
Dialled(uri) == IF uri.scheme \in {"tcp", "unix"} THEN uri ELSE NoAddress

-----------------------------------------------------------------------------
(* Kubernetes makes a pod whose volumes have names of their own and whose  *)
(* containers mount some of these, each at a path of its own, as it is     *)
(* written. In the container the mount that reaches deepest has the path.  *)

MountsExist(pod) ==
    \A c \in pod.containers \cup pod.init : \A m \in c.mounts : \E v \in pod.volumes : v[1] = m.name

NamesUnique(pod) == \A v, w \in pod.volumes : v[1] = w[1] => v = w

PathsUnique(pod) ==
    \A c \in pod.containers \cup pod.init : \A m, n \in c.mounts : m.path = n.path => m = n

CanBeMade(pod) == MountsExist(pod) /\ NamesUnique(pod) /\ PathsUnique(pod)

Under(p, q) == IsPrefix(TrimSlash(q), p) /\ (Len(p) = Len(TrimSlash(q)) \/ p[Len(TrimSlash(q)) + 1] = "/")
Reaching(c, p) == {m \in c.mounts : Under(p, m.path)}
Deepest(c, p) == LET ms == Reaching(c, p) IN {m \in ms : \A n \in ms : Len(TrimSlash(n.path)) <= Len(TrimSlash(m.path))}
Place(m) == <<m.name, TrimSlash(m.path)>>

(* A file of one container is the file of that path in the other. *)
SameFile(c, d, p) ==
    /\ Reaching(c, p) # {}
    /\ {Place(m) : m \in Deepest(c, p)} = {Place(m) : m \in Deepest(d, p)}

-----------------------------------------------------------------------------
(* A path that a mount of the template's own holds in the desktop only: any *)
(* but one at /tmp, which the proxy mounts too, and even that one in a     *)
(* virtual machine, which does not get the mounts of the template.         *)
OwnMountHolds(t, p) ==
    \E m \in t.mounts : IsPrefix(m.path, p) /\ (IsQEMUTemplate(t) \/ TrimSlash(m.path) # Tmp)

(* The string begins with the directory's, the path does not lie there. *)
LooksLike(p, dir) == IsPrefix(dir, p) /\ ~ Under(p, dir)

(* What kvdi mounts for itself, at the same place for every template.      *)
FixedPaths ==
    {Run, RunLock, <<"/", "dev", "/", "shm">>, UserHome, HomeMnt,
     <<"/", "etc", "/", "kvdi", "/", "tls", "/", "server">>, <<"/", "sys", "/", "fs", "/", "cgroup">>,
     <<"/", "dev", "/", "kvm">>, <<"/", "disk">>, DockerBin}

FixedVolumes ==
    {"run", "run-lock", "shm", "tls", "home", "tmp", "vnc-sock", "pulse-sock", "cgroups", "qemu-kvm",
     "qemu-disk-image", "docker-data", "docker-bin"}

(* The volume of a socket is mounted at the socket's directory, without a  *)
(* look at what is mounted there: it clashes with a mount of kvdi's, as in *)
(* unix:///run/display.sock, or with one of the template's own.            *)
SocketClashes(t) ==
    \E m \in DisplayMounts(t) \cup PulseMounts(t) :
        m.path \in FixedPaths \/ (~ IsQEMUTemplate(t) /\ \E n \in t.mounts : n.path = m.path)

(* So do the volumes and mounts that a template brings with it. *)
OwnClash(t) ==
    \/ t.volumes \cap FixedVolumes # {}
    \/ \E m \in t.mounts : m.path \in FixedPaths \/ \E n \in t.mounts : n.path = m.path /\ n # m
    \/ \E m \in t.dindMounts : \/ m.path \in {Run, DockerData}
                               \/ \E n \in t.dindMounts : n.path = m.path /\ n # m

(* The sockets that are not found are those under another mount of the     *)
(* template's own, in a directory whose name begins with tmp, and a sound  *)
(* socket in one whose name begins with run or in the home directory,      *)
(* which the proxy mounts elsewhere if at all.                             *)
DisplayFound(t) ==
    LET d == Dialled(ProxyContainer(t).display) IN
      d # NoAddress /\ d.scheme = "unix" /\ ~ OwnMountHolds(t, d.path) /\ ~ LooksLike(d.path, Tmp)
        => SameFile(ProxyContainer(t), Main(t), d.path) /\ Main(t).display.path = d.path

PulseFound(t) ==
    LET p == PulseServer(t) IN
      ~ OwnMountHolds(t, p) /\ ~ LooksLike(p, Tmp) /\ ~ LooksLike(p, Run) /\ ~ IsPrefix(Home, p) =>
        SameFile(ProxyContainer(t), Main(t), p)

RootAllowed(pod) == pod.nonRoot => ~ \E c \in pod.containers : c.user = 0

(* Unless something clashes, the pod can be made and the proxy finds the   *)
(* sockets of the desktop; and no container asks for the root that the pod *)
(* forbids: the functions that make volumes, mounts, environment and       *)
(* arguments agree.                                                        *)
PodWorks ==
    LET t == template.spec
        pod == Pod(t, template.claim)
    IN  /\ ~ SocketClashes(t) /\ ~ OwnClash(t) => CanBeMade(pod) /\ DisplayFound(t) /\ PulseFound(t)
        /\ RootAllowed(pod)
=============================================================================
