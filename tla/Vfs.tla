-------------------------------- MODULE Vfs --------------------------------
(***************************************************************************)
(* The virtual file system: path lookup and the calls on nodes (fs/vfs.c), *)
(* the initial archive (fs/tarfs.c), the files in memory (fs/memfs.c) and  *)
(* the devices (fs/devfs.c, fs/devfs_std.c, hal/serial.c), from the start  *)
(* of the kernel until it lists directories.                               *)
(*                                                                         *)
(* A path is the sequence of what is between its slashes, without the      *)
(* empty one after a last slash: what path_traverse() returns.             *)
(***************************************************************************)
EXTENDS Integers, Sequences, FiniteSets, FiniteSetsExt, SequencesExt, TLC

CONSTANTS
  NULL, UNSET,    \* a pointer that is never set
  INFO,           \* the pointer to what tarfs keeps of an archive
  Archive,        \* archives: sequences of sectors
  SECTOR,         \* bytes in a sector
  TAR_HIERARCHY_ITEM_INCREMENT,
  VFS_DIRENT_SIZE,
  Device,         \* devices in the order they are created: name and functions
  MemPath, DevPath \* where memfs and devfs are mounted

VARIABLES
  archive, header,  \* sector that is parsed next
  node,             \* nodes by number: those of tarfs, then those of devfs
  hierarchy, room,  \* tarfs: entry of each inode, and entries there is memory for
  hooks,            \* hook structures of devfs, by number: the functions in them
  phase, next,      \* where the start is, and the next device
  dirents, dirent,  \* the ring of directory entries, and the one to be used next
  listed            \* what the last vfs_readdir() was asked and returned
vfsVars == <<archive, header, node, hierarchy, room, hooks, phase, next, dirents, dirent, listed>>

VFS_FILE == {"file"}
VFS_DIRECTORY == {"dir"}
VFS_CHARDEV == VFS_FILE \union VFS_DIRECTORY
VFS_BLOCKDEV == VFS_CHARDEV \union {"block"}
VFS_PIPE == VFS_BLOCKDEV \union {"pipe"}
VFS_MOUNTPOINT == VFS_DIRECTORY \union {"mount"}
VFS_SYMLINK == {"link"}

Root == 0
Node == DOMAIN node
IsDir(n) == node[n].flags \in {VFS_DIRECTORY, VFS_MOUNTPOINT}
IsFile(n) == VFS_FILE \subseteq node[n].flags

-----------------------------------------------------------------------------
(* What the file systems answer. *)

Children(n) == {i \in n + 1..Len(hierarchy) - 1 : hierarchy[i + 1].parent = n}
MinOr(S) == IF S = {} THEN NULL ELSE Min(S)
tar_vfs_finddir(n, name) == MinOr({i \in Children(n) : node[i].name = name})
tar_vfs_readdir(n, idx) == MinOr({i \in Children(n) : Cardinality({j \in Children(n) : j < i}) = idx})

\* The list that starts at node n.
Chain(n) == FoldLeft(LAMBDA s, i : IF node[Last(s)].link \in Node THEN Append(s, node[Last(s)].link) ELSE s,
                     <<n>>, [i \in 1..Len(Device) |-> i])
devfs_vfs_readdir(n, idx) == IF idx + 2 <= Len(Chain(n)) THEN Chain(n)[idx + 2] ELSE NULL
devfs_vfs_finddir(n, name) ==
  LET k == SelectInSeq(Tail(Chain(n)), LAMBDA d : node[d].name = name) IN IF k = 0 THEN NULL ELSE Tail(Chain(n))[k]

\* Bytes of the file that are read: its sector in the archive, and its place there.
Clamp(offset, size, length) == IF offset + size > length THEN Max({length - offset, 0}) ELSE size
Bytes(first, offset, size) == [i \in 1..size |-> <<first + ((offset + i - 1) \div SECTOR), (offset + i - 1) % SECTOR>>]
tar_vfs_read(n, offset, size) ==
  IF hierarchy[node[n].inode + 1].data = NULL THEN <<>>
  ELSE Bytes(hierarchy[node[n].inode + 1].data, offset, Clamp(offset, size, node[n].length))
memfs_vfs_read(n, offset, size) == Bytes(node[n].link, offset, Clamp(offset, size, node[n].length))

\* The calls of vfs.c.  A symbolic link of tarfs leads to what is no node.
vfs_traverse_symlink(n) == IF n \in Node /\ node[n].flags = VFS_SYMLINK THEN node[n].link ELSE n
Dir(n) == vfs_traverse_symlink(n) \in Node /\ IsDir(vfs_traverse_symlink(n))
vfs_finddir(n, name) ==
  IF ~Dir(n) THEN NULL
  ELSE IF node[n].fs = "tar" THEN tar_vfs_finddir(n, name) ELSE devfs_vfs_finddir(n, name)
vfs_readdir(n, idx) ==
  IF ~Dir(n) THEN NULL
  ELSE IF node[n].fs = "tar" THEN tar_vfs_readdir(n, idx) ELSE devfs_vfs_readdir(n, idx)
vfs_read(n, offset, size) ==
  IF vfs_traverse_symlink(n) \notin Node \/ ~IsFile(n) THEN <<>>
  ELSE CASE node[n].fs = "tar" -> tar_vfs_read(n, offset, size)
         [] node[n].fs = "mem" -> memfs_vfs_read(n, offset, size)
         [] OTHER -> <<>>

PathStep(n, e) == IF n = NULL \/ e \in {"", "."} THEN n ELSE vfs_finddir(n, e)
vfs_traverse_path(start, path) == FoldLeft(PathStep, start, path)

-----------------------------------------------------------------------------
(* tar_init(): the archive, sector by sector. *)

Sector == archive[header]
\* The prefix and the name are put together without a slash between them.
FullName(s) == IF s.prefix = <<>> THEN s.name
               ELSE Front(s.prefix) \o <<Last(s.prefix) \o Head(s.name)>> \o Tail(s.name)
Flags(type) == CASE type \in {"1", "2"} -> VFS_SYMLINK [] type = "3" -> VFS_CHARDEV [] type = "4" -> VFS_BLOCKDEV
                 [] type = "5" -> VFS_DIRECTORY [] type = "6" -> VFS_PIPE [] OTHER -> VFS_FILE
\* A parent that the archive does not have is passed over.
ParentStep(p, e) == IF tar_vfs_finddir(p, e) = NULL THEN p ELSE tar_vfs_finddir(p, e)
Parent(path) == FoldLeft(ParentStep, Root, Front(path))

SkipSector ==
  /\ phase = "tar" /\ header <= Len(archive) /\ Sector.kind = "empty" /\ header' = header + 1
  /\ UNCHANGED <<archive, node, hierarchy, room, hooks, phase, next, dirents, dirent, listed>>

Sectors(size) == (size + SECTOR - 1) \div SECTOR
TarNode(s, path) == [name |-> Last(path), flags |-> Flags(s.type), inode |-> Len(hierarchy), length |-> s.size,
                     fs |-> "tar", hook |-> 0, link |-> INFO]
\* The pointer to the data of an entry that has none is never set.
Data(s) == IF Flags(s.type) = VFS_FILE /\ s.size > 0 THEN header + 1 ELSE UNSET
AddEntry(s, path) ==
  /\ node' = [n \in Node \union {Len(hierarchy)} |-> IF n \in Node THEN node[n] ELSE TarNode(s, path)]
  /\ hierarchy' = Append(hierarchy, [data |-> Data(s), parent |-> Parent(path)])
  /\ room' = IF Len(hierarchy) % TAR_HIERARCHY_ITEM_INCREMENT = 0
             THEN Len(hierarchy) + TAR_HIERARCHY_ITEM_INCREMENT ELSE room
  /\ header' = header + 1 + Sectors(s.size)
ParseEntry ==
  /\ phase = "tar" /\ header <= Len(archive) /\ Sector.kind = "entry"
  /\ AddEntry(Sector, FullName(Sector))
  /\ UNCHANGED <<archive, hooks, phase, next, dirents, dirent, listed>>
\* No memory for a node: what is parsed so far is the file system.
GiveUp ==
  /\ phase = "tar" /\ header <= Len(archive) /\ Sector.kind = "entry" /\ phase' = "mem"
  /\ UNCHANGED <<archive, header, node, hierarchy, room, hooks, next, dirents, dirent, listed>>
\* No memory for a larger hierarchy: the pointer to what there was is lost with it.
LoseHierarchy ==
  /\ phase = "tar" /\ header <= Len(archive) /\ Sector.kind = "entry"
  /\ Len(hierarchy) % TAR_HIERARCHY_ITEM_INCREMENT = 0 /\ phase' = "lost"
  /\ UNCHANGED <<archive, header, node, hierarchy, room, hooks, next, dirents, dirent, listed>>
EndArchive ==
  /\ phase = "tar" /\ header > Len(archive) /\ phase' = "mem"
  /\ UNCHANGED <<archive, header, node, hierarchy, room, hooks, next, dirents, dirent, listed>>

-----------------------------------------------------------------------------
(* The start of the kernel: the file of the archive itself, the devices.   *)

\* memfs_mount() refuses what is no file, and makes a node of its own for none.
memfs_mount ==
  /\ phase = "mem" /\ phase' = "dev"
  /\ LET n == vfs_traverse_path(Root, MemPath) IN
     IF n # NULL /\ node[n].flags = VFS_FILE
     THEN node' = [node EXCEPT ![n].length = Len(archive) * SECTOR, ![n].link = 1, ![n].fs = "mem"]
     ELSE UNCHANGED node
  /\ UNCHANGED <<archive, header, hierarchy, room, hooks, next, dirents, dirent, listed>>
Mounted == vfs_traverse_path(Root, DevPath)
devfs_mount ==
  /\ phase = "dev"
  /\ IF Mounted # NULL /\ IsDir(Mounted)
     THEN /\ phase' = "devices"
          /\ node' = [node EXCEPT ![Mounted].flags = VFS_MOUNTPOINT, ![Mounted].link = NULL, ![Mounted].fs = "devfs"]
     ELSE phase' = "ready" /\ UNCHANGED node
  /\ UNCHANGED <<archive, header, hierarchy, room, hooks, next, dirents, dirent, listed>>

\* A slip: the new node takes the number of the last one.
InodeOfLast(last) == IF last = Mounted THEN 0 ELSE node[last].inode

InodeAfter(last) == IF last = Mounted THEN 0 ELSE node[last].inode + 1
\* A hook structure with the same functions is shared.
HookFor(d) ==
  LET same == {h \in DOMAIN hooks : hooks[h] = d.calls} IN IF same = {} THEN Len(hooks) + 1 ELSE Min(same)
DevNode(d, last) == [name |-> d.name, flags |-> IF d.block THEN VFS_BLOCKDEV ELSE VFS_CHARDEV,
                     inode |-> InodeAfter(last), length |-> 0, fs |-> "dev",
                     hook |-> HookFor(d), link |-> NULL]
LinkNew(d, last, n) ==
  /\ node' = [m \in Node \union {n} |-> IF m = n THEN DevNode(d, last)
                ELSE IF m = last THEN [node[m] EXCEPT !.link = n] ELSE node[m]]
  /\ hooks' = IF HookFor(d) > Len(hooks) THEN Append(hooks, d.calls) ELSE hooks
\* A standard device that exists already is not created again; no memory for
\* a node or its hook leaves the device out.
devfs_create(ok) ==
  /\ phase = "devices" /\ next <= Len(Device) /\ next' = next + 1
  /\ IF ok /\ (Device[next].std => devfs_vfs_finddir(Mounted, Device[next].name) = NULL)
     THEN LinkNew(Device[next], Last(Chain(Mounted)), Cardinality(Node))
     ELSE UNCHANGED <<node, hooks>>
  /\ UNCHANGED <<archive, header, hierarchy, room, phase, dirents, dirent, listed>>
DevicesDone ==
  /\ phase = "devices" /\ next > Len(Device) /\ phase' = "ready"
  /\ UNCHANGED <<archive, header, node, hierarchy, room, hooks, next, dirents, dirent, listed>>

\* vfs_readdir() of the loops over modules and binaries, entry by entry: each
\* is copied to the next place of the ring.
Readdir(n, idx) ==
  /\ phase = "ready" /\ vfs_readdir(n, idx) # NULL
  /\ IF listed = NULL THEN idx = 0 ELSE n = listed.dir /\ idx = listed.idx + 1
  /\ dirents' = [dirents EXCEPT ![dirent] = node[vfs_readdir(n, idx)].name]
  /\ dirent' = (dirent + 1) % VFS_DIRENT_SIZE
  /\ listed' = [dir |-> n, idx |-> idx, at |-> dirent]
  /\ UNCHANGED <<archive, header, node, hierarchy, room, hooks, phase, next>>

VfsStart(archives) ==
  /\ archive \in archives /\ header = 1
  /\ node = (Root :> [name |-> "", flags |-> VFS_MOUNTPOINT, inode |-> 0, length |-> 0,
                      fs |-> "tar", hook |-> 0, link |-> INFO])
  /\ hierarchy = <<[data |-> NULL, parent |-> NULL]>> /\ room = TAR_HIERARCHY_ITEM_INCREMENT
  /\ hooks = <<>> /\ phase = "tar" /\ next = 1
  /\ dirents = [i \in 0..VFS_DIRENT_SIZE - 1 |-> ""] /\ dirent = 0 /\ listed = NULL
VfsInit == VfsStart(Archive)
VfsNext ==
  \/ SkipSector \/ ParseEntry \/ GiveUp \/ LoseHierarchy \/ EndArchive \/ memfs_mount \/ devfs_mount \/ DevicesDone
  \/ \E ok \in BOOLEAN : devfs_create(ok)
  \/ \E n \in Node, idx \in 0..Len(archive) : Readdir(n, idx)
VfsSpec == VfsInit /\ [][VfsNext]_vfsVars

-----------------------------------------------------------------------------
\* tar_init() and the lookup agree: an entry of the archive whose directories
\* come before it is found at its path, also with dots and empty elements in
\* between, and reading it returns its own sectors and never goes past its end;
\* each entry a directory lists is the one its name finds.
Entries == {k \in 1..Len(archive) : archive[k].kind = "entry"}
Path(k) == FullName(archive[k])
Above(k) == \A i \in 1..Len(Path(k)) - 1 :
              \E j \in Entries : j < k /\ archive[j].type = "5" /\ Path(j) = SubSeq(Path(k), 1, i)
Unique(k) == \A j \in Entries : Path(j) = Path(k) => j = k
Spaced(path) == <<"">> \o FlattenSeq([i \in 1..Len(path) |-> <<".", path[i], "">>])
Shown(k) == Path(k) # MemPath /\ ~(IsPrefix(DevPath, Path(k)) /\ phase # "tar")
PathsResolve == phase # "lost" =>
  /\ Len(hierarchy) <= room
  /\ \A k \in {e \in Entries : e < header /\ Above(e) /\ Unique(e) /\ Shown(e)} :
       LET n == vfs_traverse_path(Root, Path(k)) IN
       /\ n # NULL
       /\ node[n].flags = Flags(archive[k].type) /\ node[n].length = archive[k].size
       /\ vfs_traverse_path(Root, Spaced(Path(k))) = n
       /\ IsFile(n) => \A o \in 0..3, s \in 0..4 :
            vfs_read(n, o, s) = [i \in 1..Max({Min({s, archive[k].size - o}), 0}) |->
                                   <<k + 1 + ((o + i - 1) \div SECTOR), (o + i - 1) % SECTOR>>]
  /\ listed # NULL => LET name == dirents[listed.at] IN
       vfs_finddir(listed.dir, name) # NULL

\* The list of devices ends, each device on it has a name of its own and a
\* number of its own, and a hook structure that holds the functions it was
\* created with, whether it shares it or not, whatever allocations failed.
DevicesSound ==
  phase \in {"devices", "ready"} /\ Mounted # NULL /\ node[Mounted].fs = "devfs" =>
    LET devs == Tail(Chain(Mounted)) IN
    /\ \A i, j \in 1..Len(devs) : i # j => /\ node[devs[i]].inode # node[devs[j]].inode
                                           /\ node[devs[i]].name # node[devs[j]].name
    /\ \A i \in 1..Len(devs) : \E d \in ToSet(Device) :
         d.name = node[devs[i]].name /\ hooks[node[devs[i]].hook] = d.calls
    /\ Cardinality(ToSet(devs)) = Cardinality({n \in Node : node[n].fs = "dev"})
=============================================================================
