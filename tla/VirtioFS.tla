------------------------------ MODULE VirtioFS ------------------------------
(***************************************************************************)
(* The FUSE server of a shared directory (pkg/vm/kvm/virtiofs.go).  The    *)
(* device maps node IDs to host paths and file handles to open files; the  *)
(* guest kernel keeps dentries that name files by node ID and goes on using*)
(* an ID after a rename.  Requests of a device are served one at a time    *)
(* (its one request queue is locked by ProcessAvailRing), so a handler is  *)
(* one step.  Nothing but the guest changes the shared directory here.     *)
(***************************************************************************)
EXTENDS Naturals, Sequences, FiniteSets, FiniteSetsExt, SequencesExt, Functions

CONSTANTS
  Name,        \* file names
  MaxDepth,    \* longest path
  MaxIno,      \* files and directories ever created
  MaxNode,     \* node IDs ever given out
  MaxFh,       \* file handles ever given out
  BufEntries,  \* directory entries that fit a reply buffer
  ReadOnly     \* values of d.readOnly to check

ASSUME VirtioFSAssumption ==
  /\ {MaxDepth, MaxIno, MaxNode, MaxFh, BufEntries} \subseteq Nat \ {0}
  /\ Name # {} /\ ReadOnly \subseteq BOOLEAN

Root == 1                               \* fuseRootID
Paths == UNION {[1..n -> Name] : n \in 0..MaxDepth}
Nowhere == <<"nowhere">>

VARIABLES
  readOnly,
  tree,      \* external: the host's file system, path to [ino, dir]
  data,      \* external: the first file still has its contents
  inos,      \* inodes created so far
  nodes,     \* d.nodes: node ID to host path
  nextNode,  \* d.nextNode
  fds,       \* d.fds: handle to [ino, node, used]; used: ReadDir has run
  nextFh,    \* d.nextFh
  dentry,    \* guest: <<parent ID, name>> to [id, ino]
  listing    \* guest: the directory listing under way

fsVars == <<readOnly, tree, data, inos, nodes, nextNode, fds, nextFh, dentry, listing>>

Empty == [x \in {} |-> x]
\* The assignment m[x] = v.
Put(m, x, v) == [y \in DOMAIN m \cup {x} |-> IF y = x THEN v ELSE m[y]]

\* filepath.Join of a directory and a name.
Join(dir, n) == dir \o <<n>>

\* under reports whether p is path or below it.
Under(p, path) == IsPrefix(path, p)
Children(path) == {p \in DOMAIN tree : Len(p) = Len(path) + 1 /\ IsPrefix(path, p)}
IsDir(p) == p \in DOMAIN tree /\ tree[p].dir
Rebase(p, from, to) == to \o SubSeq(p, Len(from) + 1, Len(p))

\* Node IDs the guest still refers to: those of its dentries and open files.
Held == {Root} \cup {dentry[k].id : k \in DOMAIN dentry}
Forgotten(keys) == [k \in DOMAIN dentry \ keys |-> dentry[k]]

\* Dentries below a directory the guest no longer has go with it.
Orphans(ks) == {k \in DOMAIN dentry : \E j \in ks : k[1] = dentry[j].id}
Cut(ks) == LET one == ks \cup Orphans(ks) IN one \cup Orphans(one)

FSInit ==
  /\ readOnly \in ReadOnly
  /\ tree = Put([p \in {<<>>} |-> [ino |-> 0, dir |-> TRUE]],
                <<CHOOSE n \in Name : TRUE>>, [ino |-> 1, dir |-> FALSE])
  /\ data = TRUE /\ inos = 1
  /\ nodes = [id \in {Root} |-> <<>>] /\ nextNode = Root + 1
  /\ fds = Empty /\ nextFh = 1
  /\ dentry = Empty
  /\ listing = [on |-> FALSE, fh |-> 0, off |-> 0, seen |-> {}, all |-> {}, missed |-> {}]

-----------------------------------------------------------------------------
\* allocNode: the ID of a path, new if it has none.  A table in which two IDs
\* share a path would yield either.
AllocNode(path) ==
  IF \E id \in DOMAIN nodes : nodes[id] = path
  THEN /\ UNCHANGED <<nodes, nextNode>>
  ELSE /\ nextNode <= MaxNode
       /\ nodes' = Put(nodes, nextNode, path)
       /\ nextNode' = nextNode + 1
NodeOf(path) == {id \in DOMAIN nodes' : nodes'[id] = path}

\* allocFh.
AllocFh(ino, id) ==
  /\ nextFh <= MaxFh
  /\ fds' = Put(fds, nextFh, [ino |-> ino, node |-> id, used |-> FALSE])
  /\ nextFh' = nextFh + 1

\* renameNodesLocked, keeping the IDs of the replaced target.
RenameNodesKeep(old, new) ==
  nodes' = [id \in DOMAIN nodes |-> IF Under(nodes[id], old) THEN Rebase(nodes[id], old, new)
                                                             ELSE nodes[id]]

\* renameNodesLocked, moving only the entry itself.
RenameNodesShallow(old, new) ==
  LET kept == {id \in DOMAIN nodes : ~(Under(nodes[id], new) /\ ~Under(nodes[id], old))} IN
  nodes' = [id \in kept |-> IF nodes[id] = old THEN new ELSE nodes[id]]

\* renameNodesLocked.
RenameNodes(old, new) ==
  LET kept == {id \in DOMAIN nodes : ~(Under(nodes[id], new) /\ ~Under(nodes[id], old))} IN
  nodes' = [id \in kept |-> IF Under(nodes[id], old) THEN Rebase(nodes[id], old, new)
                                                     ELSE nodes[id]]

\* swapNodesLocked.
SwapNodes(a, b) ==
  nodes' = [id \in DOMAIN nodes |->
              IF Under(nodes[id], a) THEN Rebase(nodes[id], a, b)
              ELSE IF Under(nodes[id], b) THEN Rebase(nodes[id], b, a) ELSE nodes[id]]

-----------------------------------------------------------------------------
\* handleLookup of a name the guest has no dentry for.
Lookup(p, n) ==
  LET path == Join(nodes[p], n) IN
  /\ p \in Held \cap DOMAIN nodes /\ <<p, n>> \notin DOMAIN dentry
  /\ path \in DOMAIN tree
  /\ AllocNode(path)
  /\ \E id \in NodeOf(path) :
       dentry' = Put(dentry, <<p, n>>, [id |-> id, ino |-> tree[path].ino])
  /\ UNCHANGED <<readOnly, tree, data, inos, fds, nextFh, listing>>

\* The guest lets a dentry expire; FUSE_FORGET is not acted upon.
Forget(k) ==
  /\ k \in DOMAIN dentry
  /\ dentry' = Forgotten(Cut({k}))
  /\ UNCHANGED <<readOnly, tree, data, inos, nodes, nextNode, fds, nextFh, listing>>

\* handleCreate: open with O_CREATE, a handle and a node.
Create(p, n) ==
  LET path == Join(nodes[p], n) IN
  /\ p \in Held \cap DOMAIN nodes /\ <<p, n>> \notin DOMAIN dentry
  /\ ~readOnly
  /\ path \in Paths \ DOMAIN tree /\ IsDir(nodes[p]) /\ inos < MaxIno
  /\ inos' = inos + 1
  /\ tree' = Put(tree, path, [ino |-> inos', dir |-> FALSE])
  /\ AllocNode(path)
  /\ \E id \in NodeOf(path) :
       /\ dentry' = Put(dentry, <<p, n>>, [id |-> id, ino |-> inos'])
       /\ AllocFh(inos', id)
  /\ UNCHANGED <<readOnly, data, listing>>

\* handleMkdir.
Mkdir(p, n) ==
  LET path == Join(nodes[p], n) IN
  /\ p \in Held \cap DOMAIN nodes /\ <<p, n>> \notin DOMAIN dentry
  /\ ~readOnly
  /\ path \in Paths \ DOMAIN tree /\ IsDir(nodes[p]) /\ inos < MaxIno
  /\ inos' = inos + 1
  /\ tree' = Put(tree, path, [ino |-> inos', dir |-> TRUE])
  /\ AllocNode(path)
  /\ \E id \in NodeOf(path) :
       dentry' = Put(dentry, <<p, n>>, [id |-> id, ino |-> inos'])
  /\ UNCHANGED <<readOnly, data, fds, nextFh, listing>>

\* handleUnlink, for files and empty directories: the node keeps its path.
Unlink(k) ==
  LET path == Join(nodes[k[1]], k[2]) IN
  /\ k \in DOMAIN dentry /\ k[1] \in DOMAIN nodes
  /\ ~readOnly
  /\ path \in DOMAIN tree /\ Children(path) = {}
  /\ tree' = [p \in DOMAIN tree \ {path} |-> tree[p]]
  /\ dentry' = Forgotten(Cut({k}))
  /\ UNCHANGED <<readOnly, data, inos, nodes, nextNode, fds, nextFh, listing>>

\* handleRename and handleRename2 without flags: on success the guest moves
\* its dentry; what the target named is gone.
Rename(k, j) ==
  LET old == Join(nodes[k[1]], k[2])
      new == Join(nodes[j[1]], j[2]) IN
  /\ k \in DOMAIN dentry /\ {k[1], j[1]} \subseteq DOMAIN nodes /\ j[1] \in Held
  /\ ~readOnly
  /\ k # j /\ old \in DOMAIN tree /\ ~Under(new, old) /\ IsDir(nodes[j[1]])
  /\ new \in DOMAIN tree => /\ tree[new].dir = tree[old].dir
                            /\ Children(new) = {}
  /\ \A p \in DOMAIN tree : Under(p, old) => Rebase(p, old, new) \in Paths
  /\ LET gone == DOMAIN tree \ {p \in DOMAIN tree : Under(p, new)}
         moved == {p \in gone : Under(p, old)} IN
       tree' = [p \in (gone \ moved) \cup {Rebase(q, old, new) : q \in moved} |->
                  IF Under(p, new) THEN tree[Rebase(p, new, old)] ELSE tree[p]]
  /\ RenameNodes(old, new)
  /\ LET rest == Forgotten(Cut({j} \cap DOMAIN dentry) \cup {k}) IN
       dentry' = Put(rest, j, dentry[k])
  /\ UNCHANGED <<readOnly, data, inos, nextNode, fds, nextFh, listing>>

\* handleRename2 with RENAME_EXCHANGE.
Exchange(k, j) ==
  LET a == Join(nodes[k[1]], k[2])
      b == Join(nodes[j[1]], j[2])
      To(p) == IF Under(p, a) THEN Rebase(p, a, b)
               ELSE IF Under(p, b) THEN Rebase(p, b, a) ELSE p IN
  /\ {k, j} \subseteq DOMAIN dentry /\ {k[1], j[1]} \subseteq DOMAIN nodes
  /\ ~readOnly
  /\ {a, b} \subseteq DOMAIN tree /\ ~Under(a, b) /\ ~Under(b, a)
  /\ \A p \in DOMAIN tree : To(p) \in Paths
  /\ tree' = [p \in {To(q) : q \in DOMAIN tree} |-> tree[To(p)]]
  /\ SwapNodes(a, b)
  /\ dentry' = [dentry EXCEPT ![k] = dentry[j], ![j] = dentry[k]]
  /\ UNCHANGED <<readOnly, data, inos, nextNode, fds, nextFh, listing>>

\* handleOpen, passing the flags on.
OpenAnyFlags(id, trunc) ==
  /\ id \in Held \cap DOMAIN nodes /\ nodes[id] \in DOMAIN tree
  /\ ~(trunc /\ IsDir(nodes[id]))
  /\ AllocFh(tree[nodes[id]].ino, id)
  /\ data' = (data /\ ~(trunc /\ tree[nodes[id]].ino = 1))
  /\ UNCHANGED <<readOnly, tree, inos, nodes, nextNode, dentry, listing>>

\* handleOpen with the guest's flags; a read-only share opens O_RDONLY.
Open(id, trunc) ==
  /\ id \in Held \cap DOMAIN nodes /\ nodes[id] \in DOMAIN tree
  /\ ~(trunc /\ IsDir(nodes[id]))
  /\ AllocFh(tree[nodes[id]].ino, id)
  /\ data' = (data /\ ~(trunc /\ ~readOnly /\ tree[nodes[id]].ino = 1))
  /\ UNCHANGED <<readOnly, tree, inos, nodes, nextNode, dentry, listing>>

\* handleWrite; handleRead changes nothing.
Write(fh) ==
  /\ fh \in DOMAIN fds
  /\ ~readOnly
  /\ fds[fh].ino # 0
  /\ data' = (data \/ fds[fh].ino = 1)
  /\ UNCHANGED <<readOnly, tree, inos, nodes, nextNode, fds, nextFh, dentry, listing>>

\* handleSetattr with FATTR_SIZE 0: by path, also for an open file.
Truncate(id) ==
  /\ id \in Held \cap DOMAIN nodes
  /\ ~readOnly
  /\ nodes[id] \in DOMAIN tree /\ ~IsDir(nodes[id])
  /\ data' = (data /\ tree[nodes[id]].ino # 1)
  /\ UNCHANGED <<readOnly, tree, inos, nodes, nextNode, fds, nextFh, dentry, listing>>

\* handleRelease.
Release(fh) ==
  /\ fh \in DOMAIN fds /\ listing.fh # fh
  /\ fds' = [h \in DOMAIN fds \ {fh} |-> fds[h]]
  /\ UNCHANGED <<readOnly, tree, data, inos, nodes, nextNode, nextFh, dentry, listing>>

\* handleReaddir: ReadDir(-1) returns what the stream still has (everything
\* the first time, nothing after), entries before Offset are skipped, and the
\* reply holds as many as fit.  An empty reply ends the guest's listing.
Readdir(fh) ==
  LET here == nodes[fds[fh].node]
      entries == IF fds[fh].used THEN <<>> ELSE SetToSeq(Children(here))
      from == IF listing.on THEN listing.off ELSE 0
      part == SubSeq(entries, from + 1, Min({from + BufEntries, Len(entries)}))
      seen == (IF listing.on THEN listing.seen ELSE {}) \cup Range(part)
      all  == IF listing.on THEN listing.all ELSE Children(here) IN
  /\ fh \in DOMAIN fds /\ fds[fh].node \in DOMAIN nodes /\ IsDir(here)
  /\ listing.on => listing.fh = fh
  /\ fds[fh].used => listing.on
  /\ fds' = [fds EXCEPT ![fh].used = TRUE]
  /\ listing' = IF part = <<>>
                THEN [on |-> FALSE, fh |-> 0, off |-> 0, seen |-> {}, all |-> {},
                      missed |-> (all \cap Children(here)) \ seen]
                ELSE [on |-> TRUE, fh |-> fh, off |-> from + Len(part), seen |-> seen,
                      all |-> all, missed |-> {}]
  /\ UNCHANGED <<readOnly, tree, data, inos, nodes, nextNode, nextFh, dentry>>

-----------------------------------------------------------------------------
Keys == (1..MaxNode) \X Name

FSNext ==
  \/ \E p \in Held, n \in Name : Lookup(p, n) \/ Create(p, n) \/ Mkdir(p, n)
  \/ \E k \in DOMAIN dentry : Forget(k) \/ Unlink(k)
  \/ \E k \in DOMAIN dentry, j \in Held \X Name : Rename(k, j)
  \/ \E k, j \in DOMAIN dentry : Exchange(k, j)
  \/ \E id \in Held, trunc \in BOOLEAN : Open(id, trunc)
  \/ \E id \in Held : Truncate(id)
  \/ \E fh \in DOMAIN fds : Write(fh) \/ Release(fh) \/ Readdir(fh)

FSSpec == FSInit /\ [][FSNext]_fsVars

-----------------------------------------------------------------------------
FSTypeOK ==
  /\ readOnly \in ReadOnly
  /\ DOMAIN tree \subseteq Paths /\ data \in BOOLEAN
  /\ DOMAIN nodes \subseteq 1..MaxNode /\ Range(nodes) \subseteq Seq(Name)
  /\ DOMAIN fds \subseteq 1..MaxFh
  /\ DOMAIN dentry \subseteq Keys

\* "so no two IDs ever map to the same path" (renameNodesLocked), whatever is
\* renamed, exchanged, removed and created again.
NodesInjective == IsInjective(nodes)

\* Every name the guest still holds leads, by its node ID, to the file it was
\* looked up as: renaming and exchanging whole directories moves the IDs of
\* everything below along with the files.
DentriesReachFiles ==
  \A k \in DOMAIN dentry :
    LET e == dentry[k] IN
    /\ e.id \in DOMAIN nodes /\ k[1] \in DOMAIN nodes
    /\ nodes[e.id] = Join(nodes[k[1]], k[2])
    /\ nodes[e.id] \in DOMAIN tree /\ tree[nodes[e.id]].ino = e.ino

\* The invariant of a share.
ShareSafe == FSTypeOK /\ NodesInjective /\ DentriesReachFiles

\* A read-only share is never changed, by whatever sequence of requests.
ReadOnlyHolds == [][readOnly => UNCHANGED <<tree, data>>]_fsVars

\* A guest that reads a directory up to an empty reply has seen every entry
\* that stayed: "For each entry starting from Offset"
\* (docs/design/virtiofs-fuse.md:245).
ListingComplete == listing.missed = {}
=============================================================================
