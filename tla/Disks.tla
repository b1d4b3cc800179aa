-------------------------------- MODULE Disks --------------------------------
(***************************************************************************)
(* Which filesystems are counted as disks (monitor/disk/linux.rs): the     *)
(* lines of /proc/mounts in turn, filtered, measured and kept once per     *)
(* device, in a vector of fixed size.                                      *)
(***************************************************************************)
EXTENDS Integers, Sequences, SequencesExt, FiniteSets, FiniteSetsExt, Functions

CONSTANTS
    Mounts,         \* the lines of /proc/mounts: [dev, fs, path, total, used]
    MaxMounts,      \* the longest /proc/mounts
    MaxDisks,       \* the capacity of the vector
    SomeFilters     \* the lists of mount points to include or to exclude

\* A path and a device are the pieces of their text, cut where a prefix may
\* end: /database is <<"/", "data", "base">>, pool/a is <<"pool", "/a">>.
\* A file system has no more room left than it has room (statfs).
ASSUME DisksAssumption ==
    /\ MaxDisks \in Nat \ {0}
    /\ \A m \in Mounts : /\ m.dev \in Seq(STRING) \ {<<>>}
                         /\ m.total \in Nat /\ m.used \in 0 .. m.total

VARIABLES
    lines,      \* the lines read
    filters,    \* [include, exclude], sets of path prefixes
    disks,      \* out: [mount, total, used]
    devices     \* the device of each disk: [zfs, key]

dkVars == <<lines, filters, disks, devices>>

DkInit ==
    /\ lines = <<>> /\ disks = <<>> /\ devices = <<>>
    /\ filters \in [include : SomeFilters, exclude : SomeFilters]

-----------------------------------------------------------------------------
\* The types that begin as one of EXCLUDED_FS does; fuseblk does not count.
VirtualFs == {"tmpfs", "proc", "overlay", "squashfs", "nfs", "nfs4", "fuse", "fuse.sshfs"}

ExcludedPaths == {<<"/", p>> : p \in {"tmp", "dev", "run", "proc", "sys"}}

\* The root always counts, and the card of a phone; otherwise nothing under a
\* path of the system, no loop device, no virtual or network filesystem.
IsPhysicalMount(m) ==
    \/ m.path = <<"/">>
    \/ /\ ~\E p \in ExcludedPaths : IsPrefix(p, m.path)
       /\ \/ m.dev = <<"/dev/", "fuse">> /\ m.fs = "fuse" /\ m.path = <<"/", "sdcard">>
          \/ ~IsPrefix(<<"/dev/", "loop">>, m.dev) /\ m.fs \notin VirtualFs

MatchesPatterns(m, patterns) == \E p \in patterns : IsPrefix(p, m.path)

\* A list to include hides the list to exclude.
Selected(m) ==
    IF filters.include # {} THEN MatchesPatterns(m, filters.include)
    ELSE ~MatchesPatterns(m, filters.exclude)

\* Mutant: a dataset is taken for a disk of its own.
DeviceAsNamed(m) == [zfs |-> m.fs = "zfs", key |-> m.dev]

\* Datasets of one ZFS pool share its capacity.
DeviceOf(m) ==
    [zfs |-> m.fs = "zfs",
     key |-> IF m.fs = "zfs" THEN SubSeq(m.dev, 1, 1) ELSE m.dev]

\* A full vector refuses the disk, and then its device is not noted.
Record(m) ==
    LET disk == [mount |-> m.path, total |-> m.total, used |-> m.used]
        known == {i \in DOMAIN devices : devices[i] = DeviceOf(m)}
    IN  \/ /\ known # {}
           /\ LET i == Min(known) IN
              disks' = IF disks[i].total >= m.total THEN disks ELSE [disks EXCEPT ![i] = disk]
           /\ UNCHANGED devices
        \/ /\ known = {} /\ Len(disks) < MaxDisks
           /\ disks' = Append(disks, disk)
           /\ devices' = Append(devices, DeviceOf(m))
        \/ /\ known = {} /\ Len(disks) = MaxDisks
           /\ UNCHANGED <<disks, devices>>

\* statfs of a mount point may fail (measured is FALSE).
ReadLine(m, measured) ==
    /\ Len(lines) < MaxMounts
    /\ lines' = Append(lines, [m |-> m, measured |-> measured])
    /\ IF IsPhysicalMount(m) /\ Selected(m) /\ measured THEN Record(m)
       ELSE UNCHANGED <<disks, devices>>
    /\ UNCHANGED filters

DkNext == \E m \in Mounts, measured \in BOOLEAN : ReadLine(m, measured)

DkSpec == DkInit /\ [][DkNext]_dkVars

\* aggregate: the sum over the disks.
Aggregate(field) == SumFunction([i \in DOMAIN disks |-> disks[i][field]])

DkTypeOK == Len(disks) <= MaxDisks /\ Len(devices) = Len(disks)

-----------------------------------------------------------------------------
\* The lines that count, and what they say the machine has.
Counted == {i \in DOMAIN lines : lines[i].measured /\ IsPhysicalMount(lines[i].m) /\ Selected(lines[i].m)}

SameDisk(a, b) ==
    /\ a.fs = "zfs" <=> b.fs = "zfs"
    /\ IF a.fs = "zfs" THEN a.dev[1] = b.dev[1] ELSE a.dev = b.dev

\* The first line of every disk, and those of the disks there is room for.
First == {i \in Counted : \A j \in Counted : SameDisk(lines[j].m, lines[i].m) => i <= j}
Kept == {i \in First : Cardinality({j \in First : j <= i}) <= MaxDisks}

Size(i) == Max({lines[j].m.total : j \in {j \in Counted : SameDisk(lines[j].m, lines[i].m)}})

\* Every disk is counted once and at its full size, however many mount points,
\* datasets or quotas show it; only a disk that comes when the vector is full
\* is missing (collect_mounts, aggregate).
DisksOnce ==
    /\ Len(disks) = Cardinality(Kept)
    /\ Aggregate("total") = SumFunction([i \in Kept |-> Size(i)])
    /\ Aggregate("used") <= Aggregate("total")

=============================================================================
