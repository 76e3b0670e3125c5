-------------------------------- MODULE Fat32 --------------------------------
(***************************************************************************)
(* The FAT32 driver (kernel/fs/fat32) under open, write, close, mkdir and  *)
(* unlink of the VFS.  The disk is the file allocation table and the       *)
(* sectors of the clusters.  An operation is a fixed list of sector writes *)
(* that the driver makes one after the other without waiting; power may be *)
(* lost between any two of them, and a write of a directory or data sector *)
(* may fail, which the driver reports.                                     *)
(*                                                                         *)
(* A file's length is in sectors and a directory sector holds one entry.   *)
(* Names are the 8.3 forms.  A node caches the first cluster and the       *)
(* length of a file from finddir on, as the code's transient nodes do.     *)
(***************************************************************************)
EXTENDS Naturals, Sequences, FiniteSets, SequencesExt, FiniteSetsExt

CONSTANTS Top,              \* clusters are 2..Top; 2 is the root directory
          Spc,              \* sectors per cluster
          Path,             \* sequences of one or two names
          Dirs,             \* those of Path that mkdir makes
          Handle,
          Counts,           \* sectors of one write
          MaxOps,           \* operations started
          MaxFaults,        \* power losses and failed writes
          NULL, EOC, Unknown

ASSUME Fat32Assumption ==
    /\ Top \in Nat /\ Spc \in Nat \ {0} /\ Counts \subseteq Nat \ {0} /\ MaxOps \in Nat /\ MaxFaults \in Nat
    /\ Dirs \subseteq Path
    /\ \A p \in Path : Len(p) = 2 => <<p[1]>> \in Dirs

Root == 2
Cluster == Root..Top
Sector == 0..Spc - 1

FREE == [tag |-> "zero"]            \* 0x00: an entry never used, a sector of zeros
DELETED == [tag |-> "deleted"]      \* 0xE5
DOTS == [tag |-> "dots"]
Entry(name, first, size) == [tag |-> "entry", name |-> name, first |-> first, size |-> size]
Data(p, v) == [tag |-> "data", owner |-> p, value |-> v]     \* v tells a write from the one before

VARIABLES
    fat, disk,
    node,       \* the open nodes
    op,         \* the operation under way: the writes to come and what it leaves behind
    want,       \* history: what each path should read
    ops, faults,
    torn,       \* history: power was lost, or a write failed, at a point that leaves damage
    aliased     \* history: a file was open twice, or removed while it was open

vars == <<fat, disk, node, op, want, ops, faults, torn, aliased>>

Idle == [kind |-> "idle"]

Init ==
    /\ fat = [c \in Cluster |-> IF c = Root THEN EOC ELSE 0]
    /\ disk = [c \in Cluster |-> [s \in Sector |-> FREE]]
    /\ node = [h \in Handle |-> NULL]
    /\ op = Idle
    /\ want = [p \in Path |-> NULL]
    /\ ops = 0 /\ faults = 0
    /\ torn = FALSE /\ aliased = FALSE
-----------------------------------------------------------------------------
(* The file allocation table and the directories. *)

fat32_get_next_cluster(ft, c) == ft[c]

fat32_find_free_cluster(ft) ==
    LET free == {c \in Cluster : ft[c] = 0} IN IF free = {} THEN 0 ELSE Min(free)

\* The clusters from c on; a chain that comes back to itself ends there.
Chain(ft, c) ==
    LET walk[w \in Seq(Cluster)] ==
            LET next == fat32_get_next_cluster(ft, w[Len(w)]) IN
            IF next \in Cluster /\ \A i \in DOMAIN w : w[i] # next THEN walk[Append(w, next)] ELSE w
    IN  IF c \in Cluster THEN walk[<<c>>] ELSE <<>>

SectorsOf(chain) == [k \in 1..Len(chain) * Spc |-> <<chain[((k - 1) \div Spc) + 1], (k - 1) % Spc>>]

\* The sectors of the file or directory that starts at c, in order.
Sectors(ft, c) == SectorsOf(Chain(ft, c))

At(pos) == disk[pos[1]][pos[2]]

\* The entries in use: the first one never used ends the directory.
Listed(S) ==
    LET free == {i \in DOMAIN S : At(S[i]) = FREE}
        InUse(pos) == At(pos) # DELETED
    IN  SelectSeq(IF free = {} THEN S ELSE SubSeq(S, 1, Min(free) - 1), InUse)

\* Those of a directory.
ListedIn(dir) == Listed(Sectors(fat, dir))

ReaddirIn(L, index) == IF index < Len(L) THEN L[index + 1] ELSE NULL

\* The entry of an index, with the dot entries.
fat32_vfs_readdir(dir, index) == ReaddirIn(ListedIn(dir), index)

Search(L, name) ==
    LET hits == {i \in DOMAIN L : At(L[i]).tag = "entry" /\ At(L[i]).name = name} IN
    IF hits = {} THEN NULL ELSE L[Min(hits)]

\* The place of the entry.
fat32_find_file(name, dir) == IF dir = NULL THEN NULL ELSE Search(ListedIn(dir), name)

FirstCluster(pos) == IF pos = NULL THEN NULL ELSE At(pos).first

\* The directory of a path: vfs_resolve_path of its parent.
ParentDir(p) == IF Len(p) = 1 THEN Root ELSE FirstCluster(fat32_find_file(p[1], Root))

Found(p) == fat32_find_file(Last(p), ParentDir(p))
-----------------------------------------------------------------------------
(* The writes of an operation.  fatal: a failure ends the operation;       *)
(* unsafe: the disk is damaged if power is lost right after it.            *)

FatWrite(c, v) == [to |-> "fat", c |-> c, v |-> v, fatal |-> FALSE, unsafe |-> FALSE]
SectorWrite(pos, item) == [to |-> "disk", pos |-> pos, item |-> item, fatal |-> TRUE, unsafe |-> FALSE]
EntryWrite(pos, field, v) == [to |-> field, pos |-> pos, v |-> v, fatal |-> TRUE, unsafe |-> FALSE]

\* Mutant: the loop starts at the second sector.
Zero_Mutant(c) == [s \in 1..Spc - 1 |-> [SectorWrite(<<c, s>>, FREE) EXCEPT !.fatal = FALSE]]

\* What clears a cluster looks at no result.
Zero(c) == [s \in 1..Spc |-> [SectorWrite(<<c, s - 1>>, FREE) EXCEPT !.fatal = FALSE]]

Unsafe(writes) == [i \in DOMAIN writes |-> [writes[i] EXCEPT !.unsafe = TRUE]]

\* A full directory gets one more cluster, which is linked before it is allocated and
\* cleared.
GrowDirectory(tail, new, e) ==
    IF new = 0 THEN <<>>
    ELSE Unsafe(<<FatWrite(tail, new), FatWrite(new, EOC)>> \o Front(Zero(new)))
         \o <<Last(Zero(new)), SectorWrite(<<new, 0>>, e)>>

AddAmong(ft, S, e) ==
    LET slots == {i \in DOMAIN S : At(S[i]) \in {FREE, DELETED}} IN
    IF slots # {} THEN <<SectorWrite(S[Min(slots)], e)>>
    ELSE GrowDirectory(Last(S)[1], fat32_find_free_cluster(ft), e)

\* The first slot that is free.
fat32_add_dirent(ft, dir, e) == AddAmong(ft, Sectors(ft, dir), e)

\* For a name that is not there.
fat32_vfs_create(p) == fat32_add_dirent(fat, ParentDir(p), Entry(Last(p), 0, 0))

NewDirectory(p, new) ==
    IF new = 0 THEN <<>>
    ELSE <<FatWrite(new, EOC)>> \o Zero(new) \o <<SectorWrite(<<new, 0>>, DOTS)>>
         \o fat32_add_dirent([fat EXCEPT ![new] = EOC], ParentDir(p), Entry(Last(p), new, 0))

\* For a name that is not there, too.
fat32_mkdir(p) == IF Found(p) # NULL THEN <<>> ELSE NewDirectory(p, fat32_find_free_cluster(fat))

\* Mutant: the entry is marked as never used.
Unlinked_Mutant(pos, chain) ==
    Unsafe([i \in DOMAIN chain |-> FatWrite(chain[i], 0)]) \o <<SectorWrite(pos, FREE)>>

\* The chain is freed first.
Unlinked(pos, chain) ==
    Unsafe([i \in DOMAIN chain |-> FatWrite(chain[i], 0)]) \o <<SectorWrite(pos, DELETED)>>

fat32_unlink(pos) == Unlinked(pos, Chain(fat, At(pos).first))
-----------------------------------------------------------------------------
(* Growing and writing a file. *)

Clusters(length) == (length + Spc - 1) \div Spc

\* Mutant: a cluster is linked before it is allocated.
Linked_Mutant(last, next) == <<FatWrite(last, next), FatWrite(next, EOC)>>

Linked(last, next) == <<FatWrite(next, EOC), FatWrite(last, next)>>

\* A field of the entry at pos, if there is one.
fat32_update_dirent(pos, field, v, fatal) ==
    IF pos = NULL THEN <<>> ELSE <<[EntryWrite(pos, field, v) EXCEPT !.fatal = fatal]>>

\* One more cluster at the end of the chain.
Append1(g, next) ==
    IF next = 0 THEN [g EXCEPT !.ok = FALSE]
    ELSE [g EXCEPT !.ft = [@ EXCEPT ![next] = EOC, ![g.last] = next], !.last = next,
                   !.writes = @ \o Linked(g.last, next) \o Zero(next)]

Extend(g, i) == IF g.ok THEN Append1(g, fat32_find_free_cluster(g.ft)) ELSE g

\* The first cluster; its number goes to the directory entry at pos, whatever comes of
\* that write.
Start(g, pos, start) ==
    IF start = 0 THEN [g EXCEPT !.ok = FALSE]
    ELSE [g EXCEPT !.ft[start] = EOC, !.last = start, !.inode = start, !.clusters = 1,
                   !.writes = <<FatWrite(start, EOC)>>
                              \o fat32_update_dirent(pos, "first", start, FALSE) \o Zero(start)]

\* Where a file of the node's cached length ends: a walk from its first cluster.
Walked(n, chain) ==
    [ft |-> fat, inode |-> n.inode, clusters |-> Clusters(n.length), writes |-> <<>>, ok |-> TRUE,
     last |-> IF chain = <<>> THEN 0 ELSE chain[Min({Len(chain), Max({1, Clusters(n.length)})})]]

Grow(g, needed) == FoldLeft(Extend, g, [i \in 1..(needed - Min({needed, g.clusters})) |-> i])

Started(n, pos, g) == IF n.inode = 0 THEN Start(g, pos, fat32_find_free_cluster(fat)) ELSE g

Grown(n, pos, needed) ==
    IF needed > Clusters(n.length) THEN Grow(Started(n, pos, Walked(n, Chain(fat, n.inode))), needed)
    ELSE Walked(n, <<>>)

\* The length, in the entry too.  After O_TRUNC the old chain has been cut off before.
Resized(n, pos, g, size) ==
    LET writes == IF pos # NULL /\ At(pos).size > n.length THEN Unsafe(g.writes) ELSE g.writes IN
    [writes |-> IF g.ok THEN writes \o fat32_update_dirent(pos, "size", size, TRUE) ELSE writes,
     ft |-> g.ft, inode |-> g.inode, length |-> IF g.ok THEN size ELSE n.length, ok |-> g.ok]

fat32_vfs_expand(n, pos, size) == Resized(n, pos, Grown(n, pos, Clusters(size)), size)


\* The sectors that are there, from offset on.
DataWrites(S, offset, items) ==
    [k \in 1..Min({Len(items), Len(S) - Min({offset, Len(S)})}) |-> SectorWrite(S[offset + k], items[k])]

Written(x, pos, offset, items) ==
    IF x.ok /\ pos # NULL
    THEN [x EXCEPT !.writes = @ \o DataWrites(Sectors(x.ft, x.inode), offset, items)]
    ELSE x

WriteAt(n, pos, offset, items) ==
    IF offset + Len(items) <= n.length
    THEN [writes |-> DataWrites(Sectors(fat, n.inode), offset, items),
          inode |-> n.inode, length |-> n.length, ok |-> TRUE]
    ELSE Written(fat32_vfs_expand(n, pos, offset + Len(items)), pos, offset, items)

\* The writes, and the node's fields afterwards.
fat32_vfs_write(n, offset, items) == WriteAt(n, fat32_find_file(n.name, n.dir), offset, items)

ReadFrom(S, end, offset) == [k \in 1..(end - Min({end, offset})) |-> At(S[offset + k])]

fat32_vfs_read(n, offset, count) ==
    LET Part(S) == ReadFrom(S, Min({n.length, offset + count, Len(S)}), offset) IN
    Part(Sectors(fat, n.inode))
-----------------------------------------------------------------------------
(* Operations. *)

Begin(kind, p, h, writes) ==
    /\ ops' = ops + 1
    /\ op' = [kind |-> kind, path |-> p, handle |-> h, writes |-> writes, unsafe |-> FALSE,
              node |-> NULL, want |-> NULL]

Ready == op = Idle /\ ops < MaxOps

\* vfs_resolve_path: a node of its own for every open.
NodeOf(p, dir, e) == [path |-> p, name |-> Last(p), dir |-> dir, inode |-> e.first, length |-> e.size]

fat32_vfs_finddir(p) == NodeOf(p, ParentDir(p), At(Found(p)))

IsOpen(p) == \E h \in Handle : node[h] # NULL /\ node[h].path = p

\* O_TRUNC sets the length of the node alone.
open(h, p, trunc) ==
    /\ Ready /\ node[h] = NULL /\ p \notin Dirs /\ Found(p) # NULL
    /\ node' = [node EXCEPT ![h] = IF trunc THEN [fat32_vfs_finddir(p) EXCEPT !.length = 0]
                                      ELSE fat32_vfs_finddir(p)]
    /\ aliased' = (aliased \/ IsOpen(p))
    /\ ops' = ops + 1
    /\ UNCHANGED <<fat, disk, op, want, faults, torn>>

\* O_CREAT for a name that is not there.
create(h, p) ==
    /\ Ready /\ node[h] = NULL /\ p \notin Dirs /\ ParentDir(p) # NULL /\ Found(p) = NULL
    /\ Begin("create", p, h, fat32_vfs_create(p))
    /\ UNCHANGED <<fat, disk, node, want, faults, torn, aliased>>

close(h) ==
    /\ op = Idle /\ node[h] # NULL
    /\ node' = [node EXCEPT ![h] = NULL]
    /\ UNCHANGED <<fat, disk, op, want, ops, faults, torn, aliased>>

sys_mkdir(p) ==
    /\ Ready /\ p \in Dirs /\ ParentDir(p) # NULL
    /\ Begin("mkdir", p, NULL, fat32_mkdir(p))
    /\ UNCHANGED <<fat, disk, node, want, faults, torn, aliased>>

\* Also a directory, and what is in it, or a file that is open.
sys_unlink(p) ==
    /\ Ready /\ Found(p) # NULL
    /\ Begin("unlink", p, NULL, fat32_unlink(Found(p)))
    /\ aliased' = (aliased \/ \E q \in Path : IsOpen(q) /\ IsPrefix(p, q))
    /\ UNCHANGED <<fat, disk, node, want, faults, torn>>

\* The file as it should read after the write: what the node's length covers, and the
\* new sectors.
Wanted(n, offset, items) ==
    LET old == want[n.path] IN
    IF aliased \/ old \in {NULL, Unknown} THEN Unknown
    ELSE [k \in 1..Max({n.length, offset + Len(items)}) |->
            IF k > offset /\ k <= offset + Len(items) THEN items[k - offset] ELSE old[k]]

\* A write that runs out of clusters leaves the file as it was, unless O_TRUNC made the
\* driver cut its chain.
IfFailed(n) ==
    LET old == want[n.path] IN IF old \in {NULL, Unknown} \/ n.length < Len(old) THEN Unknown ELSE old

\* write at an offset inside the file or at its end.
BeginWrite(h, n, offset, items, w) ==
    op' = [kind |-> "write", path |-> n.path, handle |-> h, writes |-> w.writes, unsafe |-> FALSE,
           node |-> [n EXCEPT !.inode = w.inode, !.length = w.length],
           want |-> IF w.ok THEN Wanted(n, offset, items) ELSE IfFailed(n)]

write(h, offset, count) ==
    LET items == [k \in 1..count |-> Data(node[h].path, ops % 2)] IN
    /\ Ready /\ node[h] # NULL /\ offset <= node[h].length
    /\ ops' = ops + 1
    /\ BeginWrite(h, node[h], offset, items, fat32_vfs_write(node[h], offset, items))
    /\ UNCHANGED <<fat, disk, node, want, faults, torn, aliased>>

\* kabi_block_write, with the sector in between read just before (a sector of the
\* table holds many entries, a directory sector is changed in one field).
kabi_block_write ==
    LET w == Head(op.writes) IN
    /\ op # Idle /\ op.writes # <<>>
    /\ \/ w.to = "fat" /\ fat' = [fat EXCEPT ![w.c] = w.v] /\ UNCHANGED disk
       \/ w.to = "disk" /\ disk' = [disk EXCEPT ![w.pos[1]][w.pos[2]] = w.item] /\ UNCHANGED fat
       \/ w.to = "first" /\ disk' = [disk EXCEPT ![w.pos[1]][w.pos[2]].first = w.v] /\ UNCHANGED fat
       \/ w.to = "size" /\ disk' = [disk EXCEPT ![w.pos[1]][w.pos[2]].size = w.v] /\ UNCHANGED fat
    /\ op' = [op EXCEPT !.writes = Tail(@), !.unsafe = w.unsafe]
    /\ UNCHANGED <<node, want, ops, faults, torn, aliased>>

Kept(p) == [want EXCEPT ![p] = IF Found(p) = NULL THEN NULL ELSE <<>>]

\* The call returns.
complete ==
    /\ op # Idle /\ op.writes = <<>>
    /\ op' = Idle
    /\ node' = IF op.kind = "write" THEN [node EXCEPT ![op.handle] = op.node]
               ELSE IF op.kind = "create" /\ Found(op.path) # NULL
               THEN [node EXCEPT ![op.handle] = fat32_vfs_finddir(op.path)]
               ELSE node
    /\ want' = IF op.kind = "write" THEN [want EXCEPT ![op.path] = op.want]
               ELSE IF op.kind = "create" THEN Kept(op.path)
               ELSE IF op.kind = "unlink" /\ Found(op.path) = NULL
               THEN [q \in Path |-> IF IsPrefix(op.path, q) THEN NULL ELSE want[q]]
               ELSE want
    /\ torn' = (torn \/ op.unsafe)
    /\ UNCHANGED <<fat, disk, ops, faults, aliased>>

\* A write of a directory or data sector fails: the call ends with an error, or goes on
\* where the driver does not look at the result.
write_error ==
    LET w == Head(op.writes) IN
    /\ faults < MaxFaults /\ op # Idle /\ op.writes # <<>> /\ w.to # "fat"
    /\ faults' = faults + 1
    /\ op' = IF w.fatal THEN [op EXCEPT !.writes = <<>>, !.unsafe = FALSE, !.want = Unknown]
             ELSE [op EXCEPT !.writes = Tail(@)]
    /\ torn' = (torn \/ ~w.fatal \/ op.unsafe)
    /\ UNCHANGED <<fat, disk, node, want, ops, aliased>>

\* When nothing is open and no operation under way it changes nothing.
power_loss ==
    /\ faults < MaxFaults
    /\ op # Idle \/ \E h \in Handle : node[h] # NULL
    /\ faults' = faults + 1
    /\ node' = [h \in Handle |-> NULL]
    /\ op' = Idle
    /\ torn' = (torn \/ (op # Idle /\ op.unsafe))
    /\ want' = IF op = Idle THEN want
               ELSE [q \in Path |-> IF IsPrefix(op.path, q) THEN Unknown ELSE want[q]]
    /\ UNCHANGED <<fat, disk, ops, aliased>>

Next ==
    \/ \E p \in Path :
          \/ sys_mkdir(p) \/ sys_unlink(p)
          \/ \E h \in Handle : create(h, p) \/ \E trunc \in BOOLEAN : open(h, p, trunc)
    \/ \E h \in Handle :
          \/ close(h)
          \/ \E offset \in 0..(Top * Spc), count \in Counts : write(h, offset, count)
    \/ kabi_block_write \/ complete \/ write_error \/ power_loss

Spec == Init /\ [][Next]_vars
-----------------------------------------------------------------------------
(* Properties. *)

\* The entries of a directory.
EntriesOf(dir) == {x \in Range(Sectors(fat, dir)) : At(x).tag = "entry"}

Subdirectories == {x \in EntriesOf(Root) : <<At(x).name>> \in Dirs}

\* What the tree reaches: the place of an entry and its path.
Reached ==
    {[pos |-> x, path |-> <<At(x).name>>] : x \in EntriesOf(Root)} \cup
    UNION {{[pos |-> x, path |-> <<At(d).name, At(x).name>>] : x \in EntriesOf(At(d).first)}
             : d \in Subdirectories}

ClustersOf(r) == Range(Chain(fat, At(r.pos).first))

\* Nothing has happened that the driver does not provide for, and no window is open.
Sound == ~torn /\ ~aliased /\ (op = Idle \/ ~op.unsafe)

\* Table, disk, nodes and the operation under way are of their types.
TypeOK ==
    /\ fat \in [Cluster -> Cluster \cup {0, EOC}]
    /\ \A c \in Cluster, s \in Sector : disk[c][s].tag \in {"zero", "deleted", "dots", "entry", "data"}
    /\ \A h \in Handle : node[h] # NULL => node[h].path \in Path /\ node[h].inode \in Cluster \cup {0}
    /\ op = Idle \/ op.kind \in {"create", "mkdir", "unlink", "write"}
    /\ ops \in 0..MaxOps /\ faults \in 0..MaxFaults

\* The clusters of everything in the tree are allocated and no cluster belongs to two
\* files or directories, at every moment and after a power loss at any write but those
\* of fat32_unlink, of a directory that grows and of a file that was opened with O_TRUNC.
ChainsSound ==
    /\ TypeOK
    /\ Sound =>
        \A owned \in {[r \in Reached |-> ClustersOf(r)]}, root \in {Range(Chain(fat, Root))} :
            /\ \A r \in DOMAIN owned : \A c \in owned[r] : fat[c] # 0 /\ c \notin root
            /\ \A r, q \in DOMAIN owned : r # q => owned[r] \cap owned[q] = {}

\* Every sector that a file's size covers is there and holds zeros or what was written
\* to that file, never what a freed cluster held before: fat32_vfs_expand clears the
\* clusters before it writes the size.
OwnSectors(S, size, p) ==
    \A k \in 1..size :
        k \in DOMAIN S /\ (At(S[k]) = FREE \/ (At(S[k]).tag = "data" /\ At(S[k]).owner = p))

FilesOwn ==
    Sound => \A r \in Reached : r.path \notin Dirs =>
        OwnSectors(Sectors(fat, At(r.pos).first), At(r.pos).size, r.path)

\* Every entry is the one a search for its name finds, and readdir lists it: none is
\* hidden behind an entry never used, and no name is there twice (fat32_add_dirent,
\* fat32_unlink).
EntriesFound ==
    Sound => \A r \in Reached :
        /\ Found(r.path) = r.pos
        /\ \E L \in {ListedIn(ParentDir(r.path))} : \E index \in 0..Len(L) : ReaddirIn(L, index) = r.pos

Reads(n, content) == n.length = Len(content) /\ fat32_vfs_read(n, 0, n.length) = content

=============================================================================
