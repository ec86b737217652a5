---------------------------- MODULE SquashWriter ----------------------------
(***************************************************************************)
(* The squashfs writer (pkg/lib/squashfs/writer.go).  It walks a directory *)
(* bottom up; every file, link and directory appends an inode to the inode *)
(* table and every directory its listing to the directory table, with the  *)
(* references between the two tables left open.  When the walk is done the *)
(* references are patched, for tables cut into metadata blocks.  The image *)
(* is judged by reading it back the way the kernel does (external).        *)
(* Sizes are counted in units small enough for a few entries to cross the  *)
(* limits the format has: a metadata block, a data block, a group of a     *)
(* listing, the size a basic directory inode can state.                    *)
(***************************************************************************)
EXTENDS Naturals, Integers, Sequences, FiniteSets, FiniteSetsExt, SequencesExt, Functions, TLC

CONSTANTS
  SrcTrees,   \* directories to write: path to [kind, size]; names are numbers
  Filters,    \* path filters: [inc, exc], sets of paths
  MetaBlock,  \* metadataBlockSize
  DataBlock,  \* blockSize
  GroupMax,   \* most entries under one header of a listing
  BasicMax,   \* largest file_size of a basic directory inode
  PosWidth    \* positions a file inode's start field can hold

ASSUME SquashAssumption ==
  {MetaBlock, DataBlock, GroupMax, BasicMax, PosWidth} \subseteq Nat \ {0}

\* Sizes on disk: block header, superblock, inodes, listing header and entry.
BlockHdr == 1
Super == 1
DirInodeSize == 4
LDirInodeSize == 5
FileInodeSize == 4
SymInodeSize == 3
ListHdr == 2
ListEntry == 2
ListOverhead == 1                       \* the "+3" of file_size
NoFragment == -1

VARIABLES
  src, filter,
  inodeRaw, inodeLen,   \* inodeRaw: raw position to inode
  dirRaw, dirLen,       \* dirRaw: raw position to listing header or entry
  inodeOf,              \* the inode number of a path already written
  inodePos,             \* inode number to position in inodeRaw
  nextInode,
  entryFixups,          \* dirEntryFixups: [at, first]
  inodeFixups,          \* dirInodeFixups: [at, pos]
  fragments, fragBuf,
  out, dataPos,         \* out: position to the data block written there
  root,                 \* the superblock's root reference, or <<>>
  startedAt             \* history: where a file's blocks begin

sqVars == <<src, filter, inodeRaw, inodeLen, dirRaw, dirLen, inodeOf, inodePos, nextInode,
            entryFixups, inodeFixups, fragments, fragBuf, out, dataPos, root, startedAt>>

Bytes(p) == [k \in 1..src[p].size |-> <<p, k>>]

\* The filter NewIncludeExcludeFilter builds.
Passes(p) ==
  /\ ~\E e \in filter.exc : IsPrefix(e, p)
  /\ \E i \in filter.inc : IsPrefix(i, p) \/ (src[p].kind = "dir" /\ IsPrefix(p, i))

\* What the walk visits: children of visited directories that pass.
Visited == {p \in DOMAIN src : \A n \in 1..Len(p) : Passes(SubSeq(p, 1, n))}
ChildrenOf(p) == {q \in Visited : Len(q) = Len(p) + 1 /\ IsPrefix(p, q)}
SortedNames(p) == SetToSortSeq({Last(q) : q \in ChildrenOf(p)}, <)

\* processDir: names in order, a directory after everything below it.
Precedes(p, q) ==
  \/ q # p /\ IsPrefix(q, p)
  \/ \E n \in 1..Min({Len(p), Len(q)}) :
       SubSeq(p, 1, n - 1) = SubSeq(q, 1, n - 1) /\ p[n] < q[n]
ProcessDir(p) ==
  /\ root = <<>> /\ p \in Visited \ DOMAIN inodeOf
  /\ \A q \in Visited \ DOMAIN inodeOf : q = p \/ Precedes(p, q)

SquashInit ==
  /\ src \in SrcTrees /\ filter \in Filters
  /\ inodeRaw = <<>> /\ inodeLen = 0 /\ dirRaw = <<>> /\ dirLen = 0
  /\ inodeOf = <<>> /\ inodePos = <<>> /\ nextInode = 1
  /\ entryFixups = {} /\ inodeFixups = {}
  /\ fragments = <<>> /\ fragBuf = <<>>
  /\ out = <<>> /\ dataPos = Super
  /\ root = <<>> /\ startedAt = <<>>

-----------------------------------------------------------------------------
\* allocInode and appendInode.
AppendInode(p, inode, size) ==
  /\ inodeOf' = inodeOf @@ (p :> nextInode)
  /\ inodePos' = inodePos @@ (nextInode :> inodeLen)
  /\ nextInode' = nextInode + 1
  /\ inodeRaw' = inodeRaw @@ (inodeLen :> (inode @@ [num |-> nextInode]))
  /\ inodeLen' = inodeLen + size

\* writeDataBlock: compressed if that is shorter.
Stored(data, shrinks) == IF shrinks /\ Len(data) > 1 THEN 1 ELSE Len(data)

\* flushFragBlock on a writer state w = [out, pos, frags, buf].
FlushFragBlock(w, shrinks) ==
  IF w.buf = <<>> THEN w
  ELSE [out   |-> w.out @@ (w.pos :> w.buf),
        pos   |-> w.pos + Stored(w.buf, shrinks),
        frags |-> Append(w.frags, w.pos),
        buf   |-> <<>>]

\* addFragment: where the tail goes, after a flush if it does not fit.
RoomFor(w, tail, shrinks) ==
  IF Len(w.buf) + Len(tail) > DataBlock /\ w.buf # <<>> THEN FlushFragBlock(w, shrinks) ELSE w

\* writeFileDataStreamed: the full blocks, then the tail.
WriteBlocks(p, shrinks) ==
  LET n == src[p].size \div DataBlock
      Block(i) == SubSeq(Bytes(p), (i - 1) * DataBlock + 1, i * DataBlock)
      Add(w, i) == [w EXCEPT !.out = @ @@ (w.pos :> Block(i)), !.pos = @ + Stored(Block(i), shrinks)] IN
  FoldLeft(Add, [out |-> out, pos |-> dataPos, frags |-> fragments, buf |-> fragBuf], [i \in 1..n |-> i])

\* buildFileInode; the start field keeps the low bits of the position.
BuildFile(p, shrinks) ==
  LET n    == src[p].size \div DataBlock
      tail == SubSeq(Bytes(p), n * DataBlock + 1, src[p].size)
      w    == WriteBlocks(p, shrinks)
      r    == RoomFor(w, tail, shrinks)
      has  == tail # <<>> IN
  /\ ProcessDir(p) /\ src[p].kind = "reg"
  /\ out' = (IF has THEN r ELSE w).out /\ dataPos' = (IF has THEN r ELSE w).pos
  /\ fragments' = (IF has THEN r ELSE w).frags
  /\ fragBuf' = IF has THEN r.buf \o tail ELSE fragBuf
  /\ AppendInode(p, [kind |-> "reg", start |-> dataPos % PosWidth,
                     frag |-> IF has THEN Len(r.frags) ELSE NoFragment,
                     off |-> IF has THEN Len(r.buf) ELSE 0,
                     size |-> src[p].size,
                     sizes |-> [i \in 1..n |-> Stored([k \in 1..DataBlock |-> k], shrinks)]],
                 FileInodeSize + n)
  /\ startedAt' = startedAt @@ (p :> dataPos)
  /\ UNCHANGED <<src, filter, dirRaw, dirLen, entryFixups, inodeFixups, root>>

\* buildSymlinkInode.
BuildSymlink(p) ==
  /\ ProcessDir(p) /\ src[p].kind = "sym"
  /\ AppendInode(p, [kind |-> "sym", target |-> src[p].size], SymInodeSize + src[p].size)
  /\ UNCHANGED <<src, filter, dirRaw, dirLen, entryFixups, inodeFixups, fragments, fragBuf, out, dataPos, root, startedAt>>

\* buildDirEntries: the children in order of their names, cut into groups
\* whose inodes start in one metadata block, at most GroupMax to a group.
\* Starts are the indices at which a group begins.
GroupStartsAny(nums) == {i \in 1..Len(nums) : (i - 1) % GroupMax = 0}   \* blocks ignored
BlockOf(num) == inodePos[num] \div MetaBlock
GroupStarts(nums) ==
  LET Add(gs, i) == IF gs = {} \/ i - Max(gs) = GroupMax \/ BlockOf(nums[i]) # BlockOf(nums[Max(gs)])
                    THEN gs \cup {i} ELSE gs IN
  FoldLeft(Add, {}, [i \in 1..Len(nums) |-> i])

BuildDirEntries(p) ==
  LET names == SortedNames(p)
      nums  == [i \in 1..Len(names) |-> inodeOf[p \o <<names[i]>>]]
      gs    == GroupStarts(nums)
      of(i) == Max({g \in gs : g <= i})
      at(i) == dirLen + (i - 1) * ListEntry + Cardinality({g \in gs : g <= i}) * ListHdr
      size(g) == Cardinality({i \in 1..Len(nums) : of(i) = g}) IN
  [size    |-> Len(names) * ListEntry + Cardinality(gs) * ListHdr,
   fixups  |-> {[at |-> at(g) - ListHdr, first |-> nums[g]] : g \in gs},
   entries |-> [x \in {at(i) : i \in 1..Len(nums)} \cup {at(g) - ListHdr : g \in gs} |->
      IF \E g \in gs : x = at(g) - ListHdr
      THEN LET g == CHOOSE h \in gs : x = at(h) - ListHdr IN
           [t |-> "header", count |-> size(g) - 1, start |-> 0, first |-> nums[g]]
      ELSE LET i == CHOOSE j \in 1..Len(nums) : x = at(j) IN
           [t |-> "entry", off |-> inodePos[nums[i]] % MetaBlock,
            delta |-> nums[i] - nums[of(i)], name |-> names[i]]]]

\* buildDirInode, basic or extended; an empty directory's reference stays 0.
BuildDir(p) ==
  LET list == BuildDirEntries(p)
      fileSize == list.size + ListOverhead
      long == fileSize > BasicMax IN
  /\ ProcessDir(p) /\ src[p].kind = "dir"
  /\ dirRaw' = dirRaw @@ list.entries
  /\ dirLen' = dirLen + list.size
  /\ entryFixups' = entryFixups \cup list.fixups
  /\ inodeFixups' = IF list.size = 0 THEN inodeFixups
                    ELSE inodeFixups \cup {[at |-> inodeLen, pos |-> dirLen]}
  /\ AppendInode(p, [kind |-> "dir", index |-> 0, off |-> 0,
                     size |-> fileSize, long |-> long],
                 IF long THEN LDirInodeSize ELSE DirInodeSize)
  /\ UNCHANGED <<src, filter, fragments, fragBuf, out, dataPos, root, startedAt>>

\* compressMetadataBlocks with fixedSize: where a block of a table begins.
BlockOffset(rawPos) == (rawPos \div MetaBlock) * (MetaBlock + BlockHdr)

\* build, after the walk: the last fragments, the references, the superblock.
Build(shrinks) ==
  LET w == FlushFragBlock([out |-> out, pos |-> dataPos, frags |-> fragments, buf |-> fragBuf], shrinks) IN
  /\ root = <<>> /\ Visited \subseteq DOMAIN inodeOf
  /\ out' = w.out /\ dataPos' = w.pos /\ fragments' = w.frags /\ fragBuf' = w.buf
  /\ dirRaw' = [x \in DOMAIN dirRaw |->
       IF \E f \in entryFixups : f.at = x
       THEN [dirRaw[x] EXCEPT !.start = BlockOffset(inodePos[(CHOOSE f \in entryFixups : f.at = x).first])]
       ELSE dirRaw[x]]
  /\ inodeRaw' = [x \in DOMAIN inodeRaw |->
       IF \E f \in inodeFixups : f.at = x
       THEN LET pos == (CHOOSE f \in inodeFixups : f.at = x).pos IN
            [inodeRaw[x] EXCEPT !.index = BlockOffset(pos), !.off = pos % MetaBlock]
       ELSE inodeRaw[x]]
  /\ root' = <<BlockOffset(inodePos[nextInode - 1]), inodePos[nextInode - 1] % MetaBlock>>
  /\ UNCHANGED <<src, filter, inodeLen, dirLen, inodeOf, inodePos, nextInode, entryFixups, inodeFixups, startedAt>>

SquashNext ==
  \/ \E p \in DOMAIN src, shrinks \in BOOLEAN : BuildFile(p, shrinks)
  \/ \E p \in DOMAIN src : BuildSymlink(p) \/ BuildDir(p)
  \/ \E shrinks \in BOOLEAN : Build(shrinks)

SquashSpec == SquashInit /\ [][SquashNext]_sqVars

-----------------------------------------------------------------------------
\* External: the reader.  A reference is a block's place in its table and an
\* offset in the block's contents.
Deref(table, block, off) ==
  LET x == (block \div (MetaBlock + BlockHdr)) * MetaBlock + off IN
  IF x \in DOMAIN table /\ block % (MetaBlock + BlockHdr) = 0 THEN table[x] ELSE [kind |-> "bad", t |-> "bad"]
ListAt(inode) ==
  LET from == (inode.index \div (MetaBlock + BlockHdr)) * MetaBlock + inode.off
      size == inode.size - ListOverhead IN
  {x \in DOMAIN dirRaw : from <= x /\ x < from + size}
\* A listing's entries, each with the header it stands under.
EntriesAt(inode) ==
  LET xs == ListAt(inode)
      hdrs == {x \in xs : dirRaw[x].t = "header"} IN
  {[name |-> dirRaw[x].name, off |-> dirRaw[x].off, delta |-> dirRaw[x].delta,
    hdr |-> dirRaw[Max({h \in hdrs : h < x} \cup {Min(xs)})]] : x \in xs \ hdrs}
Names(inode) == {e.name : e \in EntriesAt(inode)}
\* Every header announces the entries that follow it, no more than it may.
Announced(inode) ==
  \A hdr \in {e.hdr : e \in EntriesAt(inode)} :
    hdr.count + 1 = Cardinality({e \in EntriesAt(inode) : e.hdr = hdr}) /\ hdr.count < GroupMax
Resolve[p \in DOMAIN src] ==
  IF p = <<>> THEN Deref(inodeRaw, root[1], root[2])
  ELSE LET dir == Resolve[Front(p)] IN
       IF dir.kind # "dir" THEN [kind |-> "bad"]
       ELSE LET found == {e \in EntriesAt(dir) : e.name = Last(p)} IN
            IF found = {} THEN [kind |-> "none"]
            ELSE LET e == CHOOSE f \in found : TRUE IN
                 IF e.hdr.t # "header" THEN [kind |-> "bad"]
                 ELSE LET i == Deref(inodeRaw, e.hdr.start, e.off) IN
                      IF i.kind # "bad" /\ i.num = e.hdr.first + e.delta THEN i ELSE [kind |-> "bad"]

\* A file's bytes: its blocks from the start position on, then its part of a
\* fragment block, which is no longer than a data block.
ReadFile(i) ==
  LET Add(acc, n) == [pos |-> acc.pos + n,
                      bytes |-> IF acc.pos \in DOMAIN out THEN acc.bytes \o out[acc.pos]
                                ELSE Append(acc.bytes, "hole")]
      full == FoldLeft(Add, [pos |-> i.start, bytes |-> <<>>], i.sizes).bytes
      tail == i.size % DataBlock IN
  IF i.frag = NoFragment THEN full
  ELSE IF Len(out[fragments[i.frag + 1]]) > DataBlock THEN <<"bad">>
  ELSE full \o SubSeq(out[fragments[i.frag + 1]], i.off + 1, i.off + tail)

\* CountRegularFiles: the inode table read from the front with inodeSize.
InodeSize(i) ==
  CASE i.kind = "reg" -> FileInodeSize + i.size \div DataBlock
    [] i.kind = "sym" -> SymInodeSize + i.target
    [] i.kind = "dir" /\ i.long -> LDirInodeSize
    [] i.kind = "dir" /\ ~i.long -> DirInodeSize
CountRegularFiles[x \in 0..inodeLen] ==
  IF x \notin DOMAIN inodeRaw THEN 0
  ELSE (IF inodeRaw[x].kind = "reg" THEN 1 ELSE 0) + CountRegularFiles[x + InodeSize(inodeRaw[x])]

-----------------------------------------------------------------------------
SquashTypeOK ==
  /\ filter \in Filters
  /\ DOMAIN inodeRaw \subseteq 0..inodeLen /\ DOMAIN dirRaw \subseteq 0..dirLen
  /\ DOMAIN inodePos = 1..(nextInode - 1)
  /\ \A f \in entryFixups : f.at \in DOMAIN dirRaw /\ f.first < nextInode

\* What the user asked for: entries inside an included path, or directories on
\* the way to one, and never inside an excluded one.
Wanted == {p \in DOMAIN src :
  /\ \E i \in filter.inc : IsPrefix(i, p) \/ (src[p].kind = "dir" /\ IsPrefix(p, i))
  /\ ~\E e \in filter.exc : IsPrefix(e, p)}

\* Every entry asked for is found from the root by its name, in the listing of
\* its directory and no other, wherever the block and group limits cut the
\* tables.
ReadsBack ==
  root # <<>> =>
    \A p \in DOMAIN src :
      LET i == Resolve[p] IN
      IF p \in Wanted
      THEN /\ i.kind = src[p].kind
           /\ i.kind = "dir" => Announced(i) /\ Names(i) = {Last(q) : q \in {r \in Wanted : r # <<>> /\ Front(r) = p}}
           /\ i.kind = "sym" => i.target = src[p].size
      ELSE i.kind \in {"none", "bad"}

\* A file reads back as its own bytes, as long as its data begins where the
\* start field can say so.
FilesReadBack ==
  root # <<>> =>
    \A p \in Wanted : (src[p].kind = "reg" /\ startedAt[p] < PosWidth) => ReadFile(Resolve[p]) = Bytes(p)

\* The read-back count the pull relies on is the number of files written.
CountIsRight ==
  root # <<>> => CountRegularFiles[0] = Cardinality({p \in Wanted : src[p].kind = "reg"})

\* The invariant of the writer.
SquashSafe == SquashTypeOK /\ ReadsBack /\ FilesReadBack /\ CountIsRight

\* "Validate the squashfs against three independent counts" (pull.go:146): an
\* image whose counts agree is the image that was meant.
CountsSuffice ==
  root # <<>> => \A p \in Wanted : src[p].kind = "reg" => ReadFile(Resolve[p]) = Bytes(p)
=============================================================================
