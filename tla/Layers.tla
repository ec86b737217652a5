------------------------------- MODULE Layers -------------------------------
(***************************************************************************)
(* Merging the layers of an image (pkg/lib/container/image).  A pull reads *)
(* the tar headers of one layer after the other, unpacks each layer into a *)
(* directory of its own while an index follows the paths that survive,     *)
(* merges the directories with overlayfs or by hand, writes the squashfs   *)
(* from the index and keeps it only if three counts of its regular files   *)
(* agree.  `squash' and `export' flatten the same headers in memory.       *)
(* Headers are judged against the OCI rule: a layer's whiteouts act on the *)
(* layers below it, whatever their place in the layer.                     *)
(***************************************************************************)
EXTENDS Naturals, Sequences, FiniteSets, FiniteSetsExt, SequencesExt, Functions

CONSTANTS
  LPath,       \* paths of an image
  MaxLayers,   \* layers of an image
  MaxHeaders,  \* headers of a layer
  Privileges   \* what the pulling process may do, one set per case

ASSUME LayersAssumption ==
  /\ LPath \subseteq Seq(STRING) \ {<<>>}
  /\ {MaxLayers, MaxHeaders} \subseteq Nat \ {0}
  /\ Privileges \subseteq SUBSET {"linux", "overlay", "mknod", "xattr"}

VARIABLES
  can,        \* the privileges of this process
  tool,       \* "pull" or "flatten"
  phase,      \* "read", "merge", "fallback", "built", "cached", "rejected", "failed"
  headers,    \* history: the headers read of the current layer
  layerDirs,  \* per layer, the directory it was unpacked to: path to entry
  opaqueDirs, \* per layer, the directories with trusted.overlay.opaque
  marks,      \* per layer, the .wh. marker files kept because mknod failed
  idx,        \* pathIndex.paths: path to kind
  merged,     \* tmpDir: path to entry
  strays,     \* marker files visible in tmpDir
  files,      \* Flatten: files, path to entry
  currentLayerPaths,
  sqfs,       \* the image written
  expected,   \* history: the OCI merge of the layers before the current one
  odd         \* history: what was unusual about the headers and the copy

layerVars == <<can, tool, phase, headers, layerDirs, opaqueDirs, marks, idx, merged, strays,
               files, currentLayerPaths, sqfs, expected, odd>>

None == <<>>                            \* the map with no entries
Layer == Len(layerDirs)
Below(p, q) == q # p /\ IsPrefix(q, p)
Parents(p) == {SubSeq(p, 1, n) : n \in 1..(Len(p) - 1)}
Entry(kind, by) == [kind |-> kind, by |-> by]
Implied == Entry("dir", 0)
Only(m, S) == [p \in DOMAIN m \cap S |-> m[p]]
Without(m, Gone(_)) == [p \in {q \in DOMAIN m : ~Gone(q)} |-> m[p]]

\* The map m over the map n, and m with the entry e at p.
m ++ n == [p \in DOMAIN m \cup DOMAIN n |-> IF p \in DOMAIN m THEN m[p] ELSE n[p]]
Placed(m, p, e) == [q \in DOMAIN m \cup {p} |-> IF q = p THEN e ELSE m[q]]

\* os.MkdirAll of every directory in S.
MkdirAll(m, S) == m ++ [p \in S |-> Implied]
NonDirs(m) == {<<p, m[p]>> : p \in {q \in DOMAIN m : m[q].kind # "dir"}}
Regulars(m) == {p \in DOMAIN m : m[p].kind = "reg"}

Header == [path : LPath, kind : {"reg", "sym", "dir", "wh", "opq"}] \cup {[path |-> <<>>, kind |-> "opq"]}
Adds == {h \in headers : h.kind \in {"reg", "sym", "dir"}}

\* Headers a layer can hold together: a path is added or removed once, only a
\* directory has entries below it, and markers sit in directories.
Fits(h) ==
  /\ \A g \in headers :
       /\ g.path = h.path => {g.kind, h.kind} = {"opq", "dir"}
       /\ Below(h.path, g.path) => g.kind \in {"dir", "opq"}
       /\ Below(g.path, h.path) => h.kind \in {"dir", "opq"}
  /\ h.kind \in {"wh", "opq"} =>
       \A p \in DOMAIN expected :
         (p \in Parents(h.path) \cup {h.path} /\ expected[p].kind # "dir") =>
           \/ p = h.path /\ h.kind = "wh"
           \/ [path |-> p, kind |-> "dir"] \in headers

\* External: the OCI rule for the current layer.
ApplyChangeset ==
  LET whs  == {h.path : h \in {g \in headers : g.kind = "wh"}}
      opqs == {h.path : h \in {g \in headers : g.kind = "opq"}}
      added == [p \in {h.path : h \in Adds} |->
                  Entry((CHOOSE h \in Adds : h.path = p).kind, Layer)]
      dirs == UNION {Parents(p) : p \in DOMAIN added}
      Gone(p) == \/ \E w \in whs : IsPrefix(w, p)
                 \/ \E q \in opqs : Below(p, q)
                 \/ \E q \in DOMAIN added : Below(p, q) /\ added[q].kind # "dir"
      kept == Without(expected, Gone) IN
  added ++ [p \in {q \in dirs : q \notin DOMAIN kept \/ kept[q].kind # "dir"} |-> Implied] ++ kept

\* A header that takes a directory of the layers below for something else, or
\* the reverse, without a whiteout.
TypeChange(h) ==
  LET dirs == Parents(h.path) \cup (IF h.kind \in {"dir", "opq"} THEN {h.path} ELSE {}) IN
  \/ \E p \in dirs \cap DOMAIN expected : expected[p].kind # "dir"
  \/ /\ h.kind \in {"reg", "sym"}
     /\ h.path \in DOMAIN expected /\ expected[h.path].kind = "dir"
Oddities(h) ==
  {o \in {"lateOpaque", "rootOpaque", "typeChange"} :
     \/ o = "lateOpaque" /\ h.kind = "opq" /\ \E g \in Adds : Below(g.path, h.path)
     \/ o = "rootOpaque" /\ h.kind = "opq" /\ h.path = <<>>
     \/ o = "typeChange" /\ TypeChange(h)}

LayersInit ==
  /\ can \in Privileges /\ tool \in {"pull", "flatten"}
  /\ tool = "flatten" => can = CHOOSE c \in Privileges : TRUE
  /\ phase = "read" /\ headers = {}
  /\ layerDirs = <<None>> /\ opaqueDirs = <<{}>> /\ marks = <<{}>>
  /\ idx = None /\ merged = None /\ strays = {}
  /\ files = None /\ currentLayerPaths = {}
  /\ sqfs = None /\ expected = None /\ odd = {}

-----------------------------------------------------------------------------
\* removeTree, removeDescendants and record of the path index.
RemoveDescendants(m, target) == Without(m, LAMBDA p : Below(p, target))
RemoveTree(m, target) == Without(m, LAMBDA p : IsPrefix(target, p))
\* pathIndex.record, forgetting a whiteout's entry but not what is below it.
RecordShallow(h) ==
  idx' = CASE h.kind = "opq" -> RemoveDescendants(idx, h.path)
           [] h.kind = "wh"  -> Without(idx, LAMBDA p : p = h.path)
           [] OTHER          -> Placed(idx, h.path, h.kind)

Record(h) ==
  idx' = CASE h.kind = "opq" -> RemoveDescendants(idx, h.path)
           [] h.kind = "wh"  -> RemoveTree(idx, h.path)
           [] OTHER          -> Placed(idx, h.path, h.kind)

\* extractLayerRaw: whiteouts become overlayfs's own form; without mknod the
\* marker file is kept, without the xattr an opaque directory is not.
ExtractLayerRaw(h) ==
  LET dir == MkdirAll(layerDirs[Layer], Parents(h.path)) IN
  /\ Record(h)
  /\ CASE h.kind = "opq" ->
            /\ layerDirs' = [layerDirs EXCEPT ![Layer] = MkdirAll(dir, {h.path} \ {<<>>})]
            /\ opaqueDirs' = IF "xattr" \in can THEN [opaqueDirs EXCEPT ![Layer] = @ \cup {h.path}]
                                                ELSE opaqueDirs
            /\ UNCHANGED marks
       [] h.kind = "wh" /\ "mknod" \in can ->
            /\ layerDirs' = [layerDirs EXCEPT ![Layer] = Placed(dir, h.path, Entry("chr", Layer))]
            /\ UNCHANGED <<opaqueDirs, marks>>
       [] h.kind = "wh" /\ "mknod" \notin can ->
            /\ layerDirs' = [layerDirs EXCEPT ![Layer] = dir]
            /\ marks' = [marks EXCEPT ![Layer] = @ \cup {h.path}]
            /\ UNCHANGED opaqueDirs
       [] OTHER ->
            /\ layerDirs' = [layerDirs EXCEPT ![Layer] = Placed(dir, h.path, Entry(h.kind, Layer))]
            /\ UNCHANGED <<opaqueDirs, marks>>
  /\ UNCHANGED <<phase, merged>>

\* Whether a file or link can be put at p of a directory tree: os.Remove takes
\* away a file or an empty directory, and p's parents are directories.
CanPlace(m, p) ==
  /\ ~\E q \in DOMAIN m : Below(q, p)
  /\ \A q \in Parents(p) \cap DOMAIN m : m[q].kind = "dir"

\* applyLayerTar, off Linux: whiteouts act on tmpDir at once; a failing
\* MkdirAll for a directory header is ignored.
ApplyLayerTar(h) ==
  /\ Record(h)
  /\ UNCHANGED <<layerDirs, opaqueDirs, marks>>
  /\ CASE h.kind = "opq" -> merged' = RemoveDescendants(merged, h.path) /\ UNCHANGED phase
       [] h.kind = "wh"  -> merged' = RemoveTree(merged, h.path) /\ UNCHANGED phase
       [] h.kind = "dir" ->
            /\ merged' = IF \A q \in Parents(h.path) \cap DOMAIN merged : merged[q].kind = "dir"
                         THEN MkdirAll(merged, Parents(h.path) \cup {h.path}) ELSE merged
            /\ UNCHANGED phase
       [] OTHER ->
            IF CanPlace(merged, h.path)
            THEN /\ merged' = Placed(MkdirAll(merged, Parents(h.path)), h.path, Entry(h.kind, Layer))
                 /\ UNCHANGED phase
            ELSE phase' = "failed" /\ UNCHANGED merged

\* Flatten, not sparing the layer's own entries.
FlattenHeaderAll(h) ==
  /\ files' = CASE h.kind = "opq" /\ h.path = <<>> -> files
                [] h.kind = "opq" /\ h.path # <<>> -> RemoveTree(files, h.path)
                [] h.kind = "wh"  -> RemoveTree(files, h.path)
                [] OTHER          -> Placed(files, h.path, Entry(h.kind, Layer))
  /\ UNCHANGED currentLayerPaths

\* Flatten, one header.
FlattenHeader(h) ==
  LET prior(p) == p \notin currentLayerPaths IN
  /\ files' = CASE h.kind = "opq" /\ h.path = <<>> -> files      \* prefix "./"
                [] h.kind = "opq" /\ h.path # <<>> -> Without(files, LAMBDA p : IsPrefix(h.path, p) /\ prior(p))
                [] h.kind = "wh"  -> RemoveTree(files, h.path)
                [] OTHER          -> Placed(files, h.path, Entry(h.kind, Layer))
  /\ currentLayerPaths' = IF h.kind \in {"opq", "wh"} THEN currentLayerPaths
                                                      ELSE currentLayerPaths \cup {h.path}

ReadHeader(h) ==
  /\ phase = "read" /\ Cardinality(headers) < MaxHeaders /\ Fits(h)
  /\ headers' = headers \cup {h}
  /\ odd' = odd \cup Oddities(h)
  /\ \/ tool = "pull" /\ "linux" \in can /\ ExtractLayerRaw(h) /\ UNCHANGED <<files, currentLayerPaths>>
     \/ tool = "pull" /\ "linux" \notin can /\ ApplyLayerTar(h) /\ UNCHANGED <<files, currentLayerPaths>>
     \/ tool = "flatten" /\ FlattenHeader(h) /\ UNCHANGED <<phase, layerDirs, opaqueDirs, marks, idx, merged>>
  /\ UNCHANGED <<can, tool, strays, sqfs, expected>>

\* mergeLayers and Flatten go on to the next layer, or end.
NextLayer ==
  /\ phase = "read" /\ headers # {} /\ Layer < MaxLayers
  /\ expected' = ApplyChangeset
  /\ headers' = {} /\ currentLayerPaths' = {}
  /\ layerDirs' = Append(layerDirs, None)
  /\ opaqueDirs' = Append(opaqueDirs, {}) /\ marks' = Append(marks, {})
  /\ UNCHANGED <<can, tool, phase, idx, merged, strays, files, sqfs, odd>>
LastLayer ==
  /\ phase = "read" /\ headers # {}
  /\ expected' = ApplyChangeset /\ headers' = {}
  /\ phase' = IF tool = "flatten" THEN "cached"
              ELSE IF "linux" \notin can THEN "built"
              ELSE IF "overlay" \in can THEN "merge" ELSE "fallback"
  /\ UNCHANGED <<can, tool, layerDirs, opaqueDirs, marks, idx, merged, strays, files, currentLayerPaths, sqfs, odd>>

-----------------------------------------------------------------------------
\* External: overlayfs over the layer directories.  The topmost entry of a
\* path shows unless a higher layer has something else, or an opaque
\* directory, above it; the root of a layer is never opaque.
Shows(i, p) == \A j \in (i + 1)..Layer : \A q \in Parents(p) \cap DOMAIN layerDirs[j] :
                 layerDirs[j][q].kind = "dir" /\ q \notin opaqueDirs[j]
Top(p) == Max({i \in 1..Layer : p \in DOMAIN layerDirs[i]})
OverlayView ==
  LET all == UNION {DOMAIN layerDirs[i] : i \in 1..Layer} IN
  [p \in {q \in all : Shows(Top(q), q) /\ layerDirs[Top(q)][q].kind # "chr"} |-> layerDirs[Top(p)][p]]

\* mergeWithOverlayfs: copyDir sees the view, or all of it but one entry when
\* a listing comes back short ("can silently truncate").
MergeWithOverlayfs(short) ==
  /\ phase = "merge" /\ phase' = "built"
  /\ \/ short = <<>> /\ merged' = OverlayView /\ UNCHANGED odd
     \/ short \in DOMAIN OverlayView /\ merged' = RemoveTree(OverlayView, short)
        /\ odd' = odd \cup {"dropped"}
  /\ strays' = UNION {{m \in marks[i] : Shows(i, m)} : i \in 1..Layer}
  /\ UNCHANGED <<can, tool, headers, layerDirs, opaqueDirs, marks, idx, files, currentLayerPaths, sqfs, expected>>

\* ... or the copy fails, leaving what it had copied.
CopyFails(last) ==
  /\ phase = "merge" /\ phase' = "fallback"
  /\ last \in DOMAIN OverlayView
  /\ merged' = RemoveTree(OverlayView, last)
  /\ odd' = odd \cup {"copyFailed"}
  /\ UNCHANGED <<can, tool, headers, layerDirs, opaqueDirs, marks, idx, strays, files, currentLayerPaths, sqfs, expected>>

\* applyLayerDir: [ok, out] after layer i.  The type assertion that would
\* recognise a char device whiteout never holds, so it is copied as a file,
\* and opening it fails; a file does not replace a non-empty directory, nor a
\* directory a file.
ApplyLayerDir(acc, i) ==
  LET dir  == layerDirs[i]
      Gone(p) == \/ \E m \in marks[i] : IsPrefix(m, p)
                 \/ \E q \in opaqueDirs[i] \ {<<>>} : Below(p, q)
      base == Without(acc.out, Gone)
      ok   == \A p \in DOMAIN dir :
                /\ dir[p].kind # "chr"
                /\ dir[p].kind = "dir" => (p \in DOMAIN base => base[p].kind = "dir")
                /\ dir[p].kind # "dir" => CanPlace(base, p) IN
  [ok |-> acc.ok /\ ok, out |-> dir ++ base]

\* mergeLayerDirs.
MergeLayerDirs ==
  LET acc == FoldLeft(ApplyLayerDir, [ok |-> TRUE, out |-> merged], [i \in 1..Layer |-> i]) IN
  /\ phase = "fallback"
  /\ phase' = IF acc.ok THEN "built" ELSE "failed"
  /\ merged' = IF acc.ok THEN acc.out ELSE merged
  /\ UNCHANGED <<can, tool, headers, layerDirs, opaqueDirs, marks, idx, strays, files, currentLayerPaths, sqfs, expected, odd>>

\* CreateFromPaths with the index's paths: what is listed and on disk.
CreateFromPaths ==
  Only(merged, UNION {{p} \cup Parents(p) : p \in DOMAIN idx})

\* The written image compared with the directory alone.
AgreeTwo(image) ==
  /\ Cardinality(Regulars(image)) = Cardinality(Regulars(merged)) + Cardinality(strays)

\* The three counts of regular files, and what Pull makes of them.
Agree(image) ==
  /\ Cardinality(Regulars(image)) = Cardinality(Regulars(merged)) + Cardinality(strays)
  /\ Cardinality(Regulars(image)) = Cardinality({p \in DOMAIN idx : idx[p] = "reg"})

WriteSquashfs ==
  /\ phase = "built"
  /\ sqfs' = CreateFromPaths
  /\ phase' = IF Agree(sqfs') THEN "cached" ELSE "rejected"
  /\ UNCHANGED <<can, tool, headers, layerDirs, opaqueDirs, marks, idx, merged, strays, files, currentLayerPaths, expected, odd>>

LayersNext ==
  \/ \E h \in Header : ReadHeader(h)
  \/ NextLayer \/ LastLayer
  \/ \E p \in LPath \cup {<<>>} : MergeWithOverlayfs(p)
  \/ \E p \in LPath : CopyFails(p)
  \/ MergeLayerDirs
  \/ WriteSquashfs

LayersSpec == LayersInit /\ [][LayersNext]_layerVars

-----------------------------------------------------------------------------
LayersTypeOK ==
  /\ can \in Privileges /\ tool \in {"pull", "flatten"}
  /\ phase \in {"read", "merge", "fallback", "built", "cached", "rejected", "failed"}
  /\ Len(layerDirs) \in 1..MaxLayers
  /\ \A i \in 1..Layer : DOMAIN layerDirs[i] \subseteq LPath
  /\ DOMAIN idx \subseteq LPath /\ DOMAIN merged \subseteq LPath
  /\ odd \subseteq {"lateOpaque", "rootOpaque", "typeChange", "dropped", "copyFailed"}

\* Headers that off Linux, where the directory is changed header by header,
\* mislead directory and index alike.
Misled == "linux" \notin can /\ odd \cap {"lateOpaque", "typeChange"} # {}

\* An image that passes the counts holds exactly the regular files the layers
\* leave, each from the right layer, whatever the process could do and however
\* the merge went.  Only two counts that are wrong together escape: an opaque
\* marker after its siblings makes the index drop them, and a short listing of
\* the same files the directory.
CachedFilesRight ==
  (phase = "cached" /\ tool = "pull" /\ ~Misled /\ ~({"lateOpaque", "dropped"} \subseteq odd)) =>
      {<<p, sqfs[p].by>> : p \in Regulars(sqfs)} = {<<p, expected[p].by>> : p \in Regulars(expected)}

\* Nothing else is missing or stale either, unless the listing came back
\* short or an opaque marker was late.
CachedTreeRight ==
  (phase = "cached" /\ tool = "pull" /\ ~Misled /\ odd \cap {"lateOpaque", "dropped"} = {}) =>
      /\ NonDirs(sqfs) = NonDirs(expected)
      /\ {p \in DOMAIN expected : expected[p].by # 0} \subseteq DOMAIN sqfs
      /\ "typeChange" \notin odd => DOMAIN sqfs \subseteq DOMAIN expected

\* A pull that has every privilege, or runs off Linux, is not refused unless
\* something was unusual.
OrdinaryPulls ==
  (phase \in {"rejected", "failed"} /\ can \in {{}, {"linux", "overlay", "mknod", "xattr"}}) => odd # {}

\* Flatten leaves the same files and links.
FlattenRight ==
  (phase = "cached" /\ tool = "flatten" /\ odd \cap {"rootOpaque", "typeChange"} = {}) =>
      NonDirs(files) = NonDirs(expected)

\* The invariant of pulling and flattening.
LayersSafe == LayersTypeOK /\ CachedFilesRight /\ CachedTreeRight /\ OrdinaryPulls /\ FlattenRight

\* "Disagreement between any two means a silent drop happened" (pull.go:150):
\* the counts leave no entry dropped.
NothingDropped ==
  (phase = "cached" /\ tool = "pull") => {p \in DOMAIN expected : expected[p].by # 0} \subseteq DOMAIN sqfs

\* The fallback is "processing overlayfs-format whiteouts (char device 0/0 and
\* trusted.overlay.opaque xattr)" (pull_linux.go:283).
FallbackWhiteouts ==
  (phase = "failed" /\ "linux" \in can) => odd # {}
=============================================================================
