--------------------------------- MODULE Vfs ---------------------------------
(* The way from a path to a disk: block devices and their partitions (block_dev.c, mbr.c),
   the mounts of FAT32 volumes (fat32_vfs.c), the mount table and path resolution
   (vfs_core.c) and the system calls that use them (uabi_helpers.c, exec.c).

   A node of a FAT32 volume has no pointer to it: its mask is the number of a mount, and
   fat32_vfs_mount finds the root it has to number by resolving the path it mounted.  Nodes
   that finddir makes are transient, and every caller of vfs_resolve_path has to free the
   one it got.

   What the volumes store is abstracted to their trees (Fat32 has the details).  A path is
   a sequence of components with a flag, as it was written: "/mnt/" is not "/mnt". *)
EXTENDS Integers, Sequences, SequencesExt, FiniteSets, FiniteSetsExt, TLC

CONSTANTS
    BootDisk,            \* the disks that are registered at boot, a sequence
    UsbDisk,             \* the sequences of USB disks that may be plugged in then
    Table(_),            \* what sector 0 of a disk says: its kind and the partitions
    Tree(_),             \* the initial tree of a volume: its paths and their kinds
    Volume,              \* the sectors, <<disk, sector>>, that hold a FAT32 boot sector
    InitrdFile,
    MountPoint, OpenPath, Path,   \* the paths that mount, open and the other calls are made with
    MAX_BLOCK_DEVICES, FAT32_MAX_MOUNTS, MAX_MOUNTS, MAX_COMPONENTS,
    Fd,                  \* FIRST_USER_FD..MAX_FD - 1
    MaxChanges,          \* bound on the changes to the trees
    MaxLost,             \* bound on the nodes that are lost
    NULL

ASSUME VfsAssumption ==
    /\ {MAX_BLOCK_DEVICES, FAT32_MAX_MOUNTS, MAX_MOUNTS, MAX_COMPONENTS, MaxChanges, MaxLost} \subseteq Nat
    /\ IsFiniteSet(Fd) /\ Fd \subseteq Nat

VARIABLES
    usb,                 \* the USB disks that are still to be probed
    devices,             \* the block devices: disks and partitions
    fat32_mounts,        \* device and first sector of each mount ever made
    masks,               \* by root node, the mount it is numbered with; 1 is the initrd's root
    mount_table, fs_root,
    cwd, files,          \* of the task: open files by descriptor, or NULL
    tree,                \* the trees of the volumes
    live,                \* transient nodes allocated and not freed
    lost,                \* those that no one will free
    mounted,             \* for each path in use as a mount point, the volume asked for
    mistagged,           \* a mount has numbered another node than its root
    changes

mounts == <<fat32_mounts, masks, mount_table, fs_root, mounted, mistagged>>
vars == <<usb, devices, mounts, cwd, files, tree, live, lost, changes>>
-----------------------------------------------------------------------------
\* Block devices.  The disk and the sector that a sector of a device is.
kabi_block_read(devs, dev, lba) ==
    <<devs[dev].disk, IF devs[dev].is_partition THEN lba + devs[dev].start_lba ELSE lba>>

\* The partitions in sector 0, or the whole disk if that is a boot sector.
mbr_scan(disk) ==
    CASE Table(disk).kind = "mbr"   -> Table(disk).parts
      [] Table(disk).kind = "bpb"   -> <<[index |-> 0, fat |-> TRUE, start_lba |-> 0]>>
      [] Table(disk).kind = "blank" -> <<>>

mbr_find_fat32(disk) == SelectSeq(mbr_scan(disk), LAMBDA p : p.fat)

block_dev_scan_partitions(disk) ==
    [i \in DOMAIN mbr_scan(disk) |->
        [disk |-> disk, is_partition |-> TRUE, index |-> mbr_scan(disk)[i].index,
         start_lba |-> mbr_scan(disk)[i].start_lba]]

\* A disk, then a device for each of its partitions as long as there is room.
block_dev_register(devs, disk) ==
    LET all == devs \o <<[disk |-> disk, is_partition |-> FALSE, index |-> 0, start_lba |-> 0]>>
                    \o block_dev_scan_partitions(disk)
    IN  SubSeq(all, 1, Min({Len(all), MAX_BLOCK_DEVICES}))

kabi_bridge_init == FoldLeft(block_dev_register, <<>>, BootDisk)
-----------------------------------------------------------------------------
\* Paths.
Root == [abs |-> TRUE, parts |-> <<>>]
Absolute(names) == [abs |-> TRUE, parts |-> names]

\* One component of a path, after those of c: components beyond the limit are dropped.
Component(c, token) ==
    IF token = ".." THEN (IF c = <<>> THEN c ELSE Front(c))
    ELSE IF token \in {".", ""} \/ Len(c) >= MAX_COMPONENTS THEN c
    ELSE Append(c, token)

\* Components and Walk carry the one value they are at in a set, so that TLC computes it once;
\* The(S) is the member of such a set.
The(S) == CHOOSE x \in S : TRUE

RECURSIVE Components(_, _)
Components(cs, tokens) ==
    IF tokens = <<>> THEN cs ELSE Components({Component(c, Head(tokens)) : c \in cs}, Tail(tokens))

\* The names that are left of a path.  An empty path is the root.
vfs_canonicalize_path(p) ==
    The(UNION {Components({<<>>}, tokens) :
                  tokens \in {IF p.abs \/ p.parts = <<>> THEN p.parts ELSE cwd \o p.parts}})

vfs_get_parent_path(names) == IF names = <<>> THEN Root ELSE Absolute(Front(names))

\* Nodes.  A root node is shared, so its mask is looked up when it is used; the others are
\* owned by whoever found them.  A root that is not numbered yet has mask 0.
RootNode(id) ==
    [fs |-> IF id = 1 THEN "initrd" ELSE "fat", root |-> id, mask |-> 0,
     path |-> <<>>, kind |-> "dir", transient |-> FALSE]

Mask(node) ==
    IF node.root = NULL THEN node.mask
    ELSE IF node.root \in DOMAIN masks THEN masks[node.root] ELSE 0

ctx_of(node) == LET idx == Mask(node) IN fat32_mounts[IF idx >= Len(fat32_mounts) THEN 1 ELSE idx + 1]

\* The volume that the operations on a node work on.
Served(node) ==
    IF node.fs = "fat"
    THEN LET ctx == ctx_of(node) IN kabi_block_read(devices, ctx.dev, ctx.part_lba_start)
    ELSE NULL

Child(node, path, kind) ==
    [fs |-> node.fs, root |-> NULL, mask |-> Mask(node),
     path |-> path, kind |-> kind, transient |-> node.fs = "fat"]


fat32_vfs_finddir(node, name) ==
    LET path == Append(node.path, name)
        t == tree[Served(node)]
    IN  IF path \in DOMAIN t THEN Child(node, path, t[path]) ELSE NULL

initrd_finddir(node, name) ==
    IF name \in InitrdFile THEN Child(node, <<name>>, "file") ELSE NULL

finddir_fs(node, name) ==
    IF node.kind # "dir" THEN NULL
    ELSE IF node.fs = "initrd" THEN initrd_finddir(node, name) ELSE fat32_vfs_finddir(node, name)

\* What kfree takes off the count of transient nodes.
Transient(node) == IF node # NULL /\ node.transient THEN 1 ELSE 0

\* Mutant: the directories on the way are not freed.
Advance_Mutant(r, name) ==
    IF r.node = NULL THEN r
    ELSE LET next == finddir_fs(r.node, name)
         IN  [node |-> next, live |-> r.live + Transient(next)]

\* One component further: the directory is freed once the next node is found, or not.
Advance(r, name) ==
    IF r.node = NULL THEN r
    ELSE LET next == finddir_fs(r.node, name)
         IN  [node |-> next, live |-> r.live + Transient(next) - Transient(r.node)]

RECURSIVE Walk(_, _)
Walk(rs, names) ==
    IF names = <<>> THEN rs ELSE Walk({Advance(r, Head(names)) : r \in rs}, Tail(names))

\* The node found, if any, and the change in live nodes.
WalkFrom(root, names) == The(Walk({[node |-> RootNode(root), live |-> 0]}, names))

Covers(m, names) == m.active /\ m.path.abs /\ IsPrefix(m.path.parts, names)

\* From the first active mount that is the path or a directory above it, or from the root.
Resolve(table, root, names) ==
    LET hits == {i \in DOMAIN table : Covers(table[i], names)}
    IN  IF names = <<>> \/ hits = {} THEN WalkFrom(root, names)
        ELSE LET m == table[Min(hits)]
             IN  WalkFrom(m.root, SubSeq(names, Len(m.path.parts) + 1, Len(names)))

vfs_resolve_path(p) ==
    The({Resolve(mount_table, fs_root, names) : names \in {vfs_canonicalize_path(p)}})
-----------------------------------------------------------------------------
Init ==
    /\ usb \in UsbDisk
    /\ devices = kabi_bridge_init
    /\ fat32_mounts = <<>> /\ mount_table = <<>>
    /\ masks = <<0>> /\ fs_root = 1
    /\ cwd = <<>>
    /\ files = [fd \in Fd |-> NULL]
    /\ tree = [v \in Volume |-> Tree(v)]
    /\ live = 0 /\ lost = 0 /\ changes = 0
    /\ mounted = <<>> /\ mistagged = FALSE

\* The table and the root with the new root node: it replaces the one of the same path.
kabi_vfs_register(p, new) ==
    LET same == {i \in DOMAIN mount_table : mount_table[i].active /\ mount_table[i].path = p}
        entry == [path |-> p, root |-> new, active |-> TRUE]
    IN  IF p = Root THEN [table |-> mount_table, root |-> new]
        ELSE IF same # {} THEN [table |-> [i \in DOMAIN mount_table |->
                                              IF i \in same THEN entry ELSE mount_table[i]],
                                root |-> fs_root]
        ELSE IF Len(mount_table) < MAX_MOUNTS THEN [table |-> Append(mount_table, entry), root |-> fs_root]
        ELSE [table |-> mount_table, root |-> fs_root]

\* The node that is numbered: the one found at the path.  Those on the way belong to
\* mounts that were there before.
Tagged(p, reg) ==
    IF p = Root THEN [node |-> RootNode(reg.root), live |-> 0]
    ELSE The({Resolve(reg.table, reg.root, names) : names \in {vfs_canonicalize_path(p)}})

\* Where the volume starts on a device: all candidates, best first.
PartStart(dev) ==
    IF dev.is_partition THEN <<0>>
    ELSE [i \in DOMAIN mbr_find_fat32(dev.disk) |-> mbr_find_fat32(dev.disk)[i].start_lba]

\* Of the boot sector only whether it is valid matters.
fat32_read_bpb(devs, dev, lba) == kabi_block_read(devs, dev, lba) \in Volume

CanMount(devs, dev) ==
    /\ Len(fat32_mounts) < FAT32_MAX_MOUNTS
    /\ dev \in DOMAIN devs
    /\ PartStart(devs[dev]) # <<>>
    /\ fat32_read_bpb(devs, dev, Head(PartStart(devs[dev])))

Tag(new, node) ==
    LET grown == Append(masks, 0)
    IN  IF node # NULL /\ node.root # NULL THEN [grown EXCEPT ![node.root] = Len(fat32_mounts)] ELSE grown

Mounting(devs, dev, p, new, reg, found) ==
    /\ fat32_mounts' = Append(fat32_mounts, [dev |-> dev, part_lba_start |-> Head(PartStart(devs[dev]))])
    /\ mount_table' = reg.table /\ fs_root' = reg.root
    /\ masks' = Tag(new, found.node)
    /\ live' = live + found.live
    /\ lost' = lost + Transient(found.node)
    /\ mounted' = (vfs_canonicalize_path(p) :> kabi_block_read(devs, dev, Head(PartStart(devs[dev])))) @@ mounted
    /\ mistagged' = (mistagged \/ found.node = NULL \/ found.node.root # new)

\* The node found at the mount point is not freed: it should be a root.
fat32_vfs_mount(devs, dev, p) ==
    /\ CanMount(devs, dev)
    /\ \E new \in {Len(masks) + 1} : \E reg \in {kabi_vfs_register(p, new)} :
          \E found \in {Tagged(p, reg)} : Mounting(devs, dev, p, new, reg, found)

\* A USB disk is registered and its first partition, or the disk, is mounted at /mnt.
msc_probe ==
    /\ usb # <<>>
    /\ \E devs \in {block_dev_register(devices, Head(usb))} :
          LET disk == Len(devices) + 1
              p1 == {i \in disk + 1..Len(devs) : devs[i].index = 1}
              mount_dev == IF p1 = {} THEN disk ELSE Min(p1)
          IN  /\ devices' = devs
              /\ \/ fat32_vfs_mount(devs, mount_dev, Absolute(<<"mnt">>))
                 \/ ~CanMount(devs, mount_dev) /\ UNCHANGED <<mounts, live, lost>>
    /\ usb' = Tail(usb)
    /\ UNCHANGED <<cwd, files, tree, changes>>

\* The system call and the MOUNT command of the kernel's shell; a mount that fails changes
\* nothing.  As a bound on the states, one that numbers the wrong node is the last.
mount(dev, p) ==
    /\ ~mistagged
    /\ fat32_vfs_mount(devices, dev, p)
    /\ lost' <= MaxLost
    /\ UNCHANGED <<usb, devices, cwd, files, tree, changes>>

\* Deactivates the first entry with exactly that path.  The root cannot be unmounted.
sys_umount(p) ==
    LET path == Absolute(vfs_canonicalize_path(p))
        hits == {i \in DOMAIN mount_table : mount_table[i].active /\ mount_table[i].path = path}
    IN  /\ hits # {}
        /\ mount_table' = [mount_table EXCEPT ![Min(hits)].active = FALSE]
        /\ mounted' = [q \in DOMAIN mounted \ {path.parts} |-> mounted[q]]
        /\ UNCHANGED <<usb, devices, fat32_mounts, masks, fs_root, mistagged, cwd, files, tree, live, lost, changes>>

\* The node is looked at and freed.
Look(p) ==
    /\ \E r \in {vfs_resolve_path(p)} : live' = live + r.live - Transient(r.node)
    /\ UNCHANGED <<usb, devices, mounts, cwd, files, tree, lost, changes>>

sys_stat(p) == Look(p)

\* The entries of a directory; their order and the limit of the caller are left out.
readdir_fs(node) ==
    CASE node.kind # "dir" -> {}
      [] node.kind = "dir" /\ node.fs = "initrd" -> {<<name>> : name \in InitrdFile}
      [] node.kind = "dir" /\ node.fs = "fat" ->
            {<<Last(q)>> : q \in {q \in DOMAIN tree[Served(node)] : Front(q) = node.path}}

\* In the root the mount points are listed too, each by its path.
Listed(p, node) ==
    readdir_fs(node) \cup
    {m.path.parts : m \in {mount_table[i] : i \in {i \in DOMAIN mount_table :
                                mount_table[i].active /\ vfs_canonicalize_path(p) = <<>>}}}

sys_readdir(p) == Look(p)

\* The path is not checked to be a directory.
sys_chdir(p) ==
    LET full == IF p.abs THEN p ELSE Absolute(cwd \o p.parts)
    IN  /\ \E r \in {vfs_resolve_path(full)} :
              /\ live' = live + r.live - Transient(r.node)
              /\ cwd' = IF r.node = NULL THEN cwd ELSE vfs_canonicalize_path(full)
        /\ UNCHANGED <<usb, devices, mounts, files, tree, lost, changes>>

\* LS and CAT of the kernel's shell do not free the node.
kernel_shell(p) ==
    /\ \E r \in {vfs_resolve_path(p)} :
          /\ live' = live + r.live
          /\ lost' = lost + Transient(r.node)
    /\ lost' <= MaxLost
    /\ UNCHANGED <<usb, devices, mounts, cwd, files, tree, changes>>

\* The node is freed if the image is an ELF file, and lost if it cannot be read or is none.
sys_execve(p) ==
    /\ \E r \in {vfs_resolve_path(p)} : \E valid \in BOOLEAN :
          /\ valid => r.node # NULL /\ r.node.kind = "file"
          /\ live' = live + r.live - (IF valid THEN Transient(r.node) ELSE 0)
          /\ lost' = lost + (IF valid THEN 0 ELSE Transient(r.node))
    /\ lost' <= MaxLost
    /\ UNCHANGED <<usb, devices, mounts, cwd, files, tree, changes>>
-----------------------------------------------------------------------------
\* Disks are probed before the first task runs.
Booted == usb = <<>>

\* An open file keeps the node, and remembers the volume it was found on.
file_create(node) == [node |-> node, volume |-> Served(node)]

\* A node that gets no descriptor is lost.
Install(node, count) ==
    LET free == {fd \in Fd : files[fd] = NULL}
    IN  /\ live' = count
        /\ IF free = {} THEN lost' = lost + Transient(node) /\ UNCHANGED files
           ELSE files' = [files EXCEPT ![Min(free)] = file_create(node)] /\ UNCHANGED lost

Mock(name) ==
    [fs |-> "mock", root |-> NULL, mask |-> 0, path |-> <<name>>, kind |-> "empty", transient |-> TRUE]

open(p) ==
    /\ \E r \in {vfs_resolve_path(p)} :
          IF r.node = NULL THEN live' = live + r.live /\ UNCHANGED <<files, lost>>
          ELSE Install(r.node, live + r.live)
    /\ lost' <= MaxLost
    /\ UNCHANGED <<usb, devices, mounts, cwd, tree, changes>>

\* What a volume gains by a new entry: nothing if there is one of that name.
Added(t, path, kind) == IF path \in DOMAIN t THEN t ELSE (path :> kind) @@ t

\* The file is created if its directory is on a FAT32 volume and the entry can be added.
\* The node is then found again, and otherwise a node in memory stands in for it.
open_creat(p) ==
    LET names == vfs_canonicalize_path(p)
    IN  /\ vfs_resolve_path(p).node = NULL
        /\ \E parent \in {vfs_resolve_path(vfs_get_parent_path(names))} : \E full \in BOOLEAN :
              /\ IF parent.node # NULL /\ parent.node.fs = "fat" /\ parent.node.kind = "dir" /\ ~full
                 THEN tree' = [tree EXCEPT ![Served(parent.node)] =
                                  Added(@, Append(parent.node.path, Last(names)), "empty")]
                 ELSE tree' = tree
              /\ changes' = IF tree' = tree THEN changes ELSE changes + 1
              /\ UNCHANGED <<usb, devices, mounts, cwd>>
              /\ \E r \in {vfs_resolve_path(p)'} :
                    IF r.node = NULL THEN Install(Mock(Last(names)), live + parent.live - Transient(parent.node) + 1)
                    ELSE Install(r.node, live + parent.live - Transient(parent.node) + r.live)
        /\ lost' <= MaxLost /\ changes' <= MaxChanges

close(fd) ==
    /\ files[fd] # NULL
    /\ files' = [files EXCEPT ![fd] = NULL]
    /\ live' = live - Transient(files[fd].node)
    /\ UNCHANGED <<usb, devices, mounts, cwd, tree, lost, changes>>

\* The directory that mkdir and unlink work in.  The parent need not be a directory: an empty
\* file has cluster 0, which stands for the root, and what the data of another file says, read
\* as entries, is left out.
DirOf(node) == IF node.kind = "dir" THEN {node.path} ELSE IF node.kind = "empty" THEN {<<>>} ELSE {}

\* The root has the name "" in itself.
vfs_get_basename(names) == IF names = <<>> THEN "" ELSE Last(names)

MkdirEntry(t, path) == Added(t, path, "dir")

\* What is below a directory is no longer reached.
UnlinkEntry(t, path) == [q \in {q \in DOMAIN t : ~IsPrefix(path, q)} |-> t[q]]

\* The call through the parent's node, mkdir or unlink, and what it makes of the tree of the
\* volume unless the disk is full or fails.
InParent(p, call) ==
    LET names == vfs_canonicalize_path(p)
    IN  /\ \E parent \in {vfs_resolve_path(vfs_get_parent_path(names))} :
              /\ live' = live + parent.live - Transient(parent.node)
              /\ IF parent.node # NULL /\ parent.node.fs = "fat"
                 THEN \E dir \in DirOf(parent.node), done \in BOOLEAN :
                        tree' = IF ~done THEN tree
                                ELSE [tree EXCEPT ![Served(parent.node)] =
                                         IF call = "mkdir" THEN MkdirEntry(@, Append(dir, vfs_get_basename(names)))
                                         ELSE UnlinkEntry(@, Append(dir, vfs_get_basename(names)))]
                 ELSE tree' = tree
        /\ changes' = IF tree' = tree THEN changes ELSE changes + 1
        /\ changes' <= MaxChanges
        /\ UNCHANGED <<usb, devices, mounts, cwd, files, lost>>

sys_mkdir(p) == InParent(p, "mkdir")
sys_unlink(p) == InParent(p, "unlink")

Next ==
    \/ msc_probe
    \/ Booted /\ \E dev \in DOMAIN devices, p \in MountPoint : mount(dev, p)
    \/ Booted /\ \E p \in MountPoint : sys_umount(p)
    \/ Booted /\ \E p \in Path : sys_stat(p)
    \/ Booted /\ \E p \in Path : sys_readdir(p)
    \/ Booted /\ \E p \in Path : sys_chdir(p)
    \/ Booted /\ \E p \in Path : kernel_shell(p)
    \/ Booted /\ \E p \in Path : sys_execve(p)
    \/ Booted /\ \E p \in OpenPath : open(p)
    \/ Booted /\ \E p \in Path : open_creat(p)
    \/ Booted /\ \E p \in Path : sys_mkdir(p)
    \/ Booted /\ \E p \in Path : sys_unlink(p)
    \/ Booted /\ \E fd \in Fd : close(fd)

Spec == Init /\ [][Next]_vars
-----------------------------------------------------------------------------
\* The names that a path leaves when each ".." is paired with the name it takes back, stated
\* without a stack: the i-th component stays, up to the j-th, if it is a name and those after it
\* never take back more than they add.
IsName(token) == token \notin {"..", ".", ""}
Stays(s, i, j) ==
    /\ IsName(s[i])
    /\ \A k \in i + 1..j :
          Cardinality({n \in i + 1..k : s[n] = ".."}) <= Cardinality({n \in i + 1..k : IsName(s[n])})
Tokens(p) == IF p.abs \/ p.parts = <<>> THEN p.parts ELSE cwd \o p.parts
Meant(s) ==
    LET kept == SelectSeq([i \in DOMAIN s |-> i], LAMBDA i : Stays(s, i, Len(s)))
    IN  [k \in DOMAIN kept |-> s[kept[k]]]
Fits(s) == \A j \in DOMAIN s : Cardinality({i \in 1..j : Stays(s, i, j)}) <= MAX_COMPONENTS

\* What is meant to be at a path: the volume of the mount point closest above it, and the
\* path on that volume.
Above(names) == {m \in DOMAIN mounted : IsPrefix(m, names)}
Closest(names) == CHOOSE m \in Above(names) : \A n \in Above(names) : Len(n) <= Len(m)
Shown(names) ==
    IF Above(names) = {} THEN [volume |-> NULL, path |-> names]
    ELSE [volume |-> mounted[Closest(names)], path |-> SubSeq(names, Len(Closest(names)) + 1, Len(names))]
Exists(at) ==
    \/ at.path = <<>>
    \/ IF at.volume = NULL THEN Len(at.path) = 1 /\ at.path[1] \in InitrdFile
       ELSE at.path \in DOMAIN tree[at.volume]


\* Every transient node is owned: by an open file, or it is one of those that an error path
\* or the kernel's shell is known to lose.  No handler frees a node twice or leaves one that a
\* path was resolved through.  And an open file stays on the volume it was opened on while
\* volumes are mounted over it, replaced and unmounted.
NodesOwned ==
    /\ live = lost + Cardinality({fd \in Fd : files[fd] # NULL /\ files[fd].node.transient})
    /\ ~mistagged => \A fd \in Fd : files[fd] # NULL => Served(files[fd].node) = files[fd].volume
=============================================================================
