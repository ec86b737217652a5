------------------------------- MODULE MCFiles -------------------------------
(***************************************************************************)
(* What the system does with files, part by part: the directories shared   *)
(* with a guest, the layers of an image and its squashfs, the image cache, *)
(* the root file systems.  `filePart' names the one that takes steps; the  *)
(* others stay in one initial state.                                       *)
(***************************************************************************)
EXTENDS VirtioFS, Layers, SquashWriter, ImageStore, Rootfs

VARIABLE filePart

\* The containers of the image store are interchangeable.
MCSymmetry == Permutations(Cont)

MCLPath == {<<"d">>, <<"d", "x">>}
MCPrivileges == {{}, {"linux"}, {"linux", "overlay", "mknod", "xattr"},
                 {"linux", "mknod", "xattr"}, {"linux", "overlay"}}

MCNode == {[kind |-> "sym", size |-> 1]} \cup [kind : {"reg"}, size : {0, 1, 3}]
MCDir == [kind |-> "dir", size |-> 0]
MCMaps(S) == UNION {[D -> MCNode] : D \in SUBSET S}
MCSrcTrees ==
  {(<<>> :> MCDir) @@ m : m \in MCMaps({<<1>>, <<2>>, <<3>>})}
  \cup {(<<>> :> MCDir) @@ (<<2>> :> MCDir) @@ m : m \in MCMaps({<<1>>, <<3>>, <<2, 1>>, <<2, 2>>})}
MCFilters ==
  {[inc |-> {<<>>}, exc |-> {}], [inc |-> {<<>>}, exc |-> {<<2>>}],
   [inc |-> {<<2, 1>>}, exc |-> {}], [inc |-> {<<2>>, <<3>>}, exc |-> {<<2, 2>>}]}

MCLowersOf == [a |-> {"x", "y"}, b |-> {"x"}, s |-> {"y"}]

flVars == <<filePart, fsVars, layerVars, sqVars, imgVars, rootVars>>

MCFirstTree == CHOOSE t \in SrcTrees : TRUE
MCFirstFilter == CHOOSE f \in Filters : TRUE

FlInit ==
  /\ filePart \in {"share", "layers", "squashfs", "cache", "rootfs"}
  /\ FSInit
  /\ filePart # "share" => readOnly = FALSE
  /\ LayersInit
  /\ filePart # "layers" => tool = "flatten"
  /\ ImgInit
  /\ filePart # "cache" => cacheFile = "absent"
  /\ RootInit
  /\ filePart # "rootfs" => mounted = {}
  /\ src \in IF filePart = "squashfs" THEN SrcTrees ELSE {MCFirstTree}
  /\ filter \in IF filePart = "squashfs" THEN Filters ELSE {MCFirstFilter}
  /\ SquashInit

Shares   == filePart = "share" /\ FSNext /\ UNCHANGED <<filePart, layerVars, sqVars, imgVars, rootVars>>
Merges   == filePart = "layers" /\ LayersNext /\ UNCHANGED <<filePart, fsVars, sqVars, imgVars, rootVars>>
Squashes == filePart = "squashfs" /\ SquashNext /\ UNCHANGED <<filePart, fsVars, layerVars, imgVars, rootVars>>
Caches   == filePart = "cache" /\ ImgNext /\ UNCHANGED <<filePart, fsVars, layerVars, sqVars, rootVars>>
Roots    == filePart = "rootfs" /\ RootNext /\ UNCHANGED <<filePart, fsVars, layerVars, sqVars, imgVars>>

FlNext == Shares \/ Merges \/ Squashes \/ Caches \/ Roots

FlSpec == FlInit /\ [][FlNext]_flVars
=============================================================================
