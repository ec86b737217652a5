------------------------------- MODULE Build --------------------------------
(***************************************************************************)
(* `sandal build': the stages of a Dockerfile, each a container whose      *)
(* upper directory collects what the instructions write and which is then  *)
(* squashed into a stage image; the publication of the last one, sidecar   *)
(* first, under the tag; the removal of everything else.  Builds of one    *)
(* tag run at once, on the host or in a VM whose outcome the host reads    *)
(* from the tagged file, processes die, and `sandal clear' runs meanwhile. *)
(*                                                                         *)
(* What an instruction writes is a mark <<stage, instruction>>; a Dockerfile *)
(* is a sequence of [from, steps], where from is an earlier stage or 0 for *)
(* a base that is not built here, and a step is [op, stage].               *)
(***************************************************************************)
EXTENDS Naturals, Sequences, FiniteSets, FiniteSetsExt

CONSTANTS
  Builder,      \* builds, all of one tag
  Jobs,         \* what they are asked for: [Builder -> [doc, inVM, push]]
  MaxStage,     \* stages of a Dockerfile; one without is a build nobody asks for
  MaxTrouble    \* failures, deaths and clears, together

Stage == 1..MaxStage
Instructions == [op : {"copy", "take", "label", "run"}, stage : Stage]

ASSUME BuildAssumption ==
  /\ MaxStage \in Nat /\ MaxTrouble \in Nat
  /\ "old" \notin Builder
  /\ \A j \in Jobs : \A b \in Builder :
       /\ j[b].doc \in Seq([from : Nat, steps : Seq(Instructions)])
       /\ Len(j[b].doc) \in 0..MaxStage
       /\ \A s \in 1..Len(j[b].doc) : j[b].doc[s].from < s

Missing == [there |-> FALSE, data |-> {}]
File(data) == [there |-> TRUE, data |-> data]
Old == [by |-> "old", data |-> {}]

VARIABLES
  job,       \* the jobs
  bpc,       \* where a build is
  cur, step, \* its stage and its next instruction
  upper,     \* marks in the upper directory of its stage container
  workDir,   \* the container's change directory is as PrepareUpper left it
  conDirs,   \* stage containers with a change directory: <<build, stage>>
  recs,      \* stage containers with a state record
  stageImg,  \* stage images on disk
  stageSqfs, \* the ones the build knows of
  mapOf,     \* per stage: the Labels map its Config holds, named by the stage that made it; 0 is nil
  maps,      \* the labels in a map
  staged,    \* sidecar next to the last stage image: "none", "part", "whole"
  sidecarOf, \* its labels
  oldSidecar, \* what installImage read back
  tagImg, tagSide, \* image and sidecar of the tag: [by, data]
  before,    \* tagImg when a build began
  verdict,   \* what the caller of a build is told: "none", "ok", "failed"
  sweep,     \* a clear: [on, scope, listed, keep]
  trouble,   \* failures, deaths and clears so far
  wiped,     \* history: builds whose change directory was removed under them
  mixed,     \* history: two builds were between their renames, or one died there
  installed  \* history: builds that replaced the image

buildVars == <<job, bpc, cur, step, upper, workDir, conDirs, recs, stageImg, stageSqfs, mapOf, maps, staged, sidecarOf,
               oldSidecar, tagImg, tagSide, before, verdict, sweep, trouble, wiped, mixed,
               installed>>
tagVars   == <<tagImg, tagSide, oldSidecar, before, mixed, installed>>
stageVars == <<cur, step, upper, workDir, conDirs, recs, stageImg, stageSqfs, mapOf, maps>>
sideVars  == <<staged, sidecarOf>>
restVars  == <<job, sweep, wiped>>

Doc(b) == job[b].doc
LastStage(b) == Len(Doc(b))
At(b) == Doc(b)[cur[b]]
Instr(b) == At(b).steps[step[b]]

BuildInit ==
  /\ job \in Jobs
  /\ bpc = [b \in Builder |-> "idle"] /\ cur = [b \in Builder |-> 1] /\ step = [b \in Builder |-> 1]
  /\ upper = [b \in Builder |-> {}] /\ workDir = [b \in Builder |-> FALSE]
  /\ conDirs = {} /\ recs = {}
  /\ stageImg = [b \in Builder |-> [s \in Stage |-> Missing]] /\ stageSqfs = [b \in Builder |-> {}]
  /\ mapOf = [b \in Builder |-> [s \in Stage |-> 0]] /\ maps = [b \in Builder |-> [s \in Stage |-> {}]]
  /\ staged = [b \in Builder |-> "none"] /\ sidecarOf = [b \in Builder |-> {}]
  /\ oldSidecar = [b \in Builder |-> Old] /\ tagImg = Old /\ tagSide = Old
  /\ before = [b \in Builder |-> Old] /\ verdict = [b \in Builder |-> "none"]
  /\ sweep = [on |-> FALSE, scope |-> "all", listed |-> {}, keep |-> {}]
  /\ trouble = 0
  /\ wiped = {} /\ mixed = FALSE /\ installed = {}

-----------------------------------------------------------------------------
Goes(b, to) == bpc' = [bpc EXCEPT ![b] = to]
\* The host's caller sees the error; a guest's does not reach it.
Told(b, what) == verdict' = IF job[b].inVM THEN verdict ELSE [verdict EXCEPT ![b] = what]
Gives(b) == Goes(b, "cleanup") /\ Told(b, "failed")
\* Something happens that usually does not.
Flaw == trouble < MaxTrouble /\ trouble' = trouble + 1

Begin(b) ==
  /\ bpc[b] = "idle" /\ Doc(b) # <<>>
  /\ Goes(b, "base") /\ before' = [before EXCEPT ![b] = tagImg]
  /\ UNCHANGED <<stageVars, sideVars, restVars, tagImg, tagSide, oldSidecar, mixed, installed, verdict, trouble>>

\* resolveBase, NewStageContainer and PrepareUpper.  The base's config is
\* copied, the map in it is not.
ResolveBase(b) ==
  LET s == cur[b] IN
  /\ bpc[b] = "base"
  /\ mapOf' = [mapOf EXCEPT ![b][s] = IF At(b).from = 0 THEN 0 ELSE mapOf[b][At(b).from]]
  /\ upper' = [upper EXCEPT ![b] = {}] /\ workDir' = [workDir EXCEPT ![b] = TRUE]
  /\ conDirs' = conDirs \cup {<<b, s>>}
  /\ Goes(b, "steps")
  /\ UNCHANGED <<cur, step, recs, stageImg, stageSqfs, maps, sideVars, tagVars, restVars, verdict, trouble>>

BaseThere(b) == At(b).from = 0 \/ stageImg[b][At(b).from].there
BaseData(b) == IF At(b).from = 0 THEN {} ELSE stageImg[b][At(b).from].data
Mark(b) == <<cur[b], step[b]>>
ToDo(b) == bpc[b] = "steps" /\ step[b] <= Len(At(b).steps)
Advance(b) == step' = [step EXCEPT ![b] = @ + 1]

\* COPY and ADD, from the context ("copy") or a stage's image ("take").
ApplyCopy(b) ==
  LET from == stageImg[b][Instr(b).stage] IN
  /\ ToDo(b) /\ Instr(b).op \in {"copy", "take"}
  /\ IF Instr(b).op = "take" /\ ~from.there
     THEN Gives(b) /\ UNCHANGED <<step, upper, conDirs>>
     ELSE /\ upper' = [upper EXCEPT ![b] = @ \cup {Mark(b)}
                                        \cup (IF Instr(b).op = "take" THEN from.data ELSE {})]
          /\ conDirs' = conDirs \cup {<<b, cur[b]>>}
          /\ Advance(b) /\ UNCHANGED <<bpc, verdict>>
  /\ UNCHANGED <<cur, workDir, recs, stageImg, stageSqfs, mapOf, maps, sideVars, tagVars, restVars, trouble>>
\* applyLabel: a nil map is made, any other is written in place.
ApplyLabel(b) ==
  LET m == IF mapOf[b][cur[b]] = 0 THEN cur[b] ELSE mapOf[b][cur[b]] IN
  /\ ToDo(b) /\ Instr(b).op = "label"
  /\ mapOf' = [mapOf EXCEPT ![b][cur[b]] = m] /\ maps' = [maps EXCEPT ![b][m] = @ \cup {Mark(b)}]
  /\ Advance(b)
  /\ UNCHANGED <<bpc, cur, upper, workDir, conDirs, recs, stageImg, stageSqfs, sideVars, tagVars, restVars, verdict,
                 trouble>>
\* RUN: RunContainer records the container and mounts its overlay, which needs
\* the base image and the directories of the change dir ...
BuildRun(b) ==
  /\ ToDo(b) /\ Instr(b).op = "run"
  /\ recs' = recs \cup {<<b, cur[b]>>}
  /\ IF BaseThere(b) /\ workDir[b] THEN Goes(b, "run") /\ UNCHANGED verdict ELSE Gives(b)
  /\ UNCHANGED <<cur, step, upper, workDir, conDirs, stageImg, stageSqfs, mapOf, maps, sideVars, tagVars, restVars,
                 trouble>>
\* ... and what the command writes stays in the upper directory, if it is there.
BuildRunEnds(b) ==
  /\ bpc[b] = "run"
  /\ upper' = IF workDir[b] THEN [upper EXCEPT ![b] = @ \cup {Mark(b)}] ELSE upper
  /\ Advance(b) /\ Goes(b, "steps")
  /\ UNCHANGED <<cur, workDir, conDirs, recs, stageImg, stageSqfs, mapOf, maps, sideVars, tagVars, restVars, verdict,
                 trouble>>
\* A base that cannot be had, an instruction or a snapshot that fails.
StageFails(b) ==
  /\ bpc[b] \in {"base", "steps", "run"}
  /\ Flaw /\ Gives(b)
  /\ UNCHANGED <<stageVars, sideVars, tagVars, restVars>>

\* Finish: base and upper are merged and squashed to a temporary file, which is
\* renamed; directories that are gone are made again.
Finish(b) ==
  LET s == cur[b] IN
  /\ bpc[b] = "steps" /\ ~ToDo(b)
  /\ workDir' = [workDir EXCEPT ![b] = TRUE] /\ conDirs' = conDirs \cup {<<b, s>>}
  /\ IF BaseThere(b)
     THEN /\ stageImg' = [stageImg EXCEPT ![b][s] = File(BaseData(b) \cup upper[b])]
          /\ stageSqfs' = [stageSqfs EXCEPT ![b] = @ \cup {s}]
          /\ IF s = LastStage(b) THEN Goes(b, "sidecar") /\ UNCHANGED <<cur, step>>
                            ELSE Goes(b, "base") /\ cur' = [cur EXCEPT ![b] = s + 1] /\ step' = [step EXCEPT ![b] = 1]
          /\ UNCHANGED verdict
     ELSE Gives(b) /\ UNCHANGED <<cur, step, stageImg, stageSqfs>>
  /\ UNCHANGED <<upper, recs, mapOf, maps, sideVars, tagVars, restVars, trouble>>

-----------------------------------------------------------------------------
\* publishImage: the sidecar is staged; if that fails, what was written of it
\* stays, as the deferred removal is not in place yet.
WriteSidecar(b, ok) ==
  LET m == mapOf[b][LastStage(b)] IN
  /\ bpc[b] = "sidecar"
  /\ sidecarOf' = [sidecarOf EXCEPT ![b] = IF m = 0 THEN {} ELSE maps[b][m]]
  /\ staged' = [staged EXCEPT ![b] = IF ok THEN "whole" ELSE "part"]
  /\ IF ok THEN Goes(b, IF job[b].inVM THEN "push" ELSE "install") /\ UNCHANGED <<verdict, trouble>>
           ELSE Flaw /\ Gives(b)
  /\ UNCHANGED <<stageVars, tagVars, restVars>>

\* The deferred removal of the staged sidecar.
GivesUp(b) == Gives(b) /\ staged' = [staged EXCEPT ![b] = "none"] /\ UNCHANGED sidecarOf

\* pushStageImage, of the stage image in a VM and of the tagged one on the host.
PushStageImage(b, ok) ==
  LET can == ~job[b].push \/ (ok /\ (job[b].inVM => stageImg[b][LastStage(b)].there)) IN
  /\ bpc[b] = "push"
  /\ IF ok THEN UNCHANGED trouble ELSE job[b].push /\ Flaw
  /\ IF can THEN /\ Goes(b, IF job[b].inVM THEN "install" ELSE "cleanup")
                 /\ Told(b, "ok") /\ UNCHANGED sideVars
            ELSE GivesUp(b)
  /\ UNCHANGED <<stageVars, tagVars, restVars>>

\* installImage: the old sidecar is read and replaced ...
InstallSidecar(b, ok) ==
  /\ bpc[b] = "install"
  /\ oldSidecar' = [oldSidecar EXCEPT ![b] = tagSide]
  /\ mixed' = (mixed \/ \E c \in Builder : bpc[c] = "image")
  /\ IF ok THEN /\ tagSide' = [by |-> b, data |-> sidecarOf[b]]
                /\ staged' = [staged EXCEPT ![b] = "none"] /\ Goes(b, "image")
                /\ UNCHANGED <<sidecarOf, verdict, trouble>>
           ELSE Flaw /\ GivesUp(b) /\ UNCHANGED tagSide
  /\ UNCHANGED <<stageVars, restVars, tagImg, before, installed>>
\* ... then the image; if it cannot be, the old sidecar is put back.
Installed(b) ==
  /\ tagImg' = [by |-> b, data |-> stageImg[b][LastStage(b)].data]
  /\ stageImg' = [stageImg EXCEPT ![b][LastStage(b)] = Missing]
  /\ stageSqfs' = [stageSqfs EXCEPT ![b] = @ \ {LastStage(b)}]
  /\ installed' = installed \cup {b}
  /\ Goes(b, IF job[b].inVM THEN "cleanup" ELSE "push")
  /\ UNCHANGED <<tagSide, sideVars, verdict>>
\* NoRestore forgets to put it back.
InstallImageNoRestore(b, ok) ==
  /\ bpc[b] = "image" /\ (IF ok THEN UNCHANGED trouble ELSE Flaw)
  /\ IF ok /\ stageImg[b][LastStage(b)].there
     THEN Installed(b)
     ELSE GivesUp(b) /\ UNCHANGED <<tagImg, tagSide, stageImg, stageSqfs, installed>>
  /\ UNCHANGED <<cur, step, upper, workDir, conDirs, recs, mapOf, maps, restVars, oldSidecar, before, mixed>>
InstallImage(b, ok) ==
  /\ bpc[b] = "image" /\ (IF ok THEN UNCHANGED trouble ELSE Flaw)
  /\ IF ok /\ stageImg[b][LastStage(b)].there
     THEN Installed(b)
     ELSE /\ tagSide' = oldSidecar[b] /\ GivesUp(b)
          /\ UNCHANGED <<tagImg, stageImg, stageSqfs, installed>>
  /\ UNCHANGED <<cur, step, upper, workDir, conDirs, recs, mapOf, maps, restVars, oldSidecar, before, mixed>>

\* cleanupAll: the stage containers with their records and directories, and the
\* stage images.
CleanupAll(b) ==
  /\ bpc[b] = "cleanup"
  /\ conDirs' = {c \in conDirs : c[1] # b} /\ recs' = {c \in recs : c[1] # b}
  /\ stageImg' = [stageImg EXCEPT ![b] = [s \in Stage |-> IF s \in stageSqfs[b] THEN Missing ELSE @[s]]]
  /\ stageSqfs' = [stageSqfs EXCEPT ![b] = {}] /\ workDir' = [workDir EXCEPT ![b] = FALSE]
  /\ Goes(b, "ended")
  /\ UNCHANGED <<cur, step, upper, mapOf, maps, sideVars, tagVars, restVars, verdict, trouble>>

\* checkGuestBuildOutput, once the VM is off: has the tagged file changed?
CheckGuestOutput(b) ==
  /\ job[b].inVM /\ bpc[b] \in {"ended", "dead"} /\ verdict[b] = "none"
  /\ verdict' = [verdict EXCEPT ![b] = IF tagImg # before[b] THEN "ok" ELSE "failed"]
  /\ UNCHANGED <<bpc, stageVars, sideVars, tagVars, restVars, trouble>>

\* External: the process, or its VM, ends.
BuildDies(b) ==
  /\ bpc[b] \notin {"idle", "ended", "dead"}
  /\ Flaw /\ Goes(b, "dead")
  /\ mixed' = (mixed \/ bpc[b] = "image")
  /\ UNCHANGED <<job, sweep, wiped, stageVars, sideVars, tagImg, tagSide, oldSidecar, before, installed, verdict>>

-----------------------------------------------------------------------------
\* clear, as far as it meets a build (module ImageStore has the rest): it lists
\* the records; the processes of a guest are not seen to run ...
SweepLists(scope) ==
  /\ ~sweep.on /\ Flaw
  /\ sweep' = [on |-> TRUE, scope |-> scope, listed |-> recs,
               keep |-> IF scope # "all" THEN recs
                        ELSE {c \in recs : bpc[c[1]] = "run" /\ cur[c[1]] = c[2] /\ ~job[c[1]].inVM}]
  /\ UNCHANGED <<job, wiped, bpc, stageVars, sideVars, tagVars, verdict>>
Wipes(b, s) ==
  /\ conDirs' = conDirs \ {<<b, s>>}
  /\ upper' = IF cur[b] = s THEN [upper EXCEPT ![b] = {}] ELSE upper
  /\ workDir' = IF cur[b] = s THEN [workDir EXCEPT ![b] = FALSE] ELSE workDir
  /\ wiped' = IF cur[b] = s /\ bpc[b] \in {"steps", "run"} THEN wiped \cup {b} ELSE wiped
\* ... removes the containers it found stopped and finds so again under their
\* locks ...
SweepContainer(b, s) ==
  /\ sweep.on /\ <<b, s>> \in (sweep.listed \ sweep.keep) \cap recs
  /\ ~(bpc[b] = "run" /\ cur[b] = s /\ ~job[b].inVM)
  /\ Wipes(b, s) /\ recs' = recs \ {<<b, s>>}
  /\ UNCHANGED <<job, bpc, cur, step, stageImg, stageSqfs, mapOf, maps, sweep, sideVars, tagVars,
                 verdict, trouble>>
\* ... change directories whose name it did not list ...
SweepDir(b, s) ==
  /\ sweep.on /\ sweep.scope \in {"all", "orphans"} /\ <<b, s>> \in conDirs \ sweep.listed
  /\ Wipes(b, s)
  /\ UNCHANGED <<job, bpc, cur, step, recs, stageImg, stageSqfs, mapOf, maps, sweep, sideVars,
                 tagVars, verdict, trouble>>
\* ... and images that no container it keeps is based on.
SweepImage(b, s) ==
  /\ sweep.on /\ sweep.scope \in {"all", "images"} /\ stageImg[b][s].there
  /\ \A c \in sweep.keep : c[1] = b => Doc(b)[c[2]].from # s
  /\ stageImg' = [stageImg EXCEPT ![b][s] = Missing]
  /\ UNCHANGED <<job, bpc, cur, step, upper, workDir, conDirs, recs, stageSqfs, mapOf, maps, sweep, wiped, sideVars,
                 tagVars, verdict, trouble>>
SweepEnds ==
  /\ sweep.on
  /\ sweep' = [on |-> FALSE, scope |-> "all", listed |-> {}, keep |-> {}]
  /\ UNCHANGED <<job, wiped, bpc, stageVars, sideVars, tagVars, verdict, trouble>>

BuildNext ==
  \/ \E b \in Builder :
       \/ Begin(b) \/ ResolveBase(b) \/ ApplyCopy(b) \/ ApplyLabel(b) \/ BuildRun(b) \/ BuildRunEnds(b) \/ StageFails(b)
       \/ Finish(b) \/ CleanupAll(b) \/ CheckGuestOutput(b) \/ BuildDies(b)
       \/ \E ok \in BOOLEAN : WriteSidecar(b, ok) \/ PushStageImage(b, ok) \/ InstallSidecar(b, ok) \/ InstallImage(b, ok)
       \/ \E s \in Stage : SweepContainer(b, s) \/ SweepDir(b, s) \/ SweepImage(b, s)
  \/ \E scope \in {"all", "orphans", "images"} : SweepLists(scope)
  \/ SweepEnds

BuildSpec == BuildInit /\ [][BuildNext]_buildVars

-----------------------------------------------------------------------------
BuildTypeOK ==
  /\ \A b \in Builder : cur[b] \in 1..Max({1, LastStage(b)}) /\ stageSqfs[b] \subseteq 1..LastStage(b)
  /\ {tagImg.by, tagSide.by} \subseteq Builder \cup {"old"}
  /\ conDirs \subseteq Builder \X Stage /\ recs \subseteq Builder \X Stage

\* The reference: what stage s of a Dockerfile is to hold, and its labels.
OpsAt(doc, s, ops) == {<<s, k>> : k \in {i \in 1..Len(doc[s].steps) : doc[s].steps[i].op \in ops}}
\* The stages a stage is based on or copies from, and the one it is based on.
UsedBy(doc) == [s \in 1..Len(doc) |-> {t \in 1..Len(doc) :
  t = doc[s].from \/ \E k \in 1..Len(doc[s].steps) : doc[s].steps[k].op = "take" /\ doc[s].steps[k].stage = t}]
BasedOn(doc) == [s \in 1..Len(doc) |-> {t \in 1..Len(doc) : t = doc[s].from}]
\* Those it has so, over any number of stages: in every set closed under uses.
Reach(uses, s) == {t \in DOMAIN uses :
  \A R \in SUBSET DOMAIN uses : (s \in R /\ \A r \in R : uses[r] \subseteq R) => t \in R}
Contents(doc, s) == UNION {OpsAt(doc, t, {"copy", "run", "take"}) : t \in Reach(UsedBy(doc), s)}
Labels(doc, s) == UNION {OpsAt(doc, t, {"label"}) : t \in Reach(BasedOn(doc), s)}
\* Stages that two stages are based on.
Shared(doc) == {p \in 1..Len(doc) : \E s, t \in 1..Len(doc) : s # t /\ doc[s].from = p /\ doc[t].from = p}

\* The tagged image of a build holds what every instruction of its last stage,
\* and of those it is based on or copies from, wrote, unless clear removed the
\* stage container's directory while the build used it.
ImageWhole == tagImg.by \in Builder \ wiped => tagImg.data = Contents(Doc(tagImg.by), LastStage(tagImg.by))
\* Its labels are there, and no others, unless stages with one base share a map.
LabelsRight ==
  tagSide.by \in Builder =>
    LET want == Labels(Doc(tagSide.by), LastStage(tagSide.by))
    IN want \subseteq tagSide.data /\ (Shared(Doc(tagSide.by)) = {} => tagSide.data = want)
\* Image and sidecar are of one build, whatever failed, outside the window
\* between the two renames, in which no build died and no other was.
TagMatches == mixed \/ tagImg.by = tagSide.by \/ \E b \in Builder : bpc[b] = "image"
\* The host is told of a VM build what happened, unless another build of the
\* tag replaced the image meanwhile; a failed one leaves the image.
VerdictTrue ==
  \A b \in Builder : job[b].inVM =>
    /\ verdict[b] = "ok" => b \in installed \/ installed \ {b} # {}
    /\ verdict[b] = "failed" => b \notin installed
    /\ b \notin installed => tagImg.by # b
\* A build that has ended leaves nothing but what it published, however it
\* ended and whatever clear did, but for a sidecar it could not write whole.
NothingLeft ==
  \A b \in Builder : bpc[b] = "ended" =>
    /\ \A s \in Stage : ~stageImg[b][s].there /\ <<b, s>> \notin conDirs \cup recs
    /\ staged[b] # "whole"

\* The invariant of building: what is published is whole and belongs together,
\* the caller is told the truth, and nothing else stays.
BuildSafe == BuildTypeOK /\ ImageWhole /\ LabelsRight /\ TagMatches /\ VerdictTrue /\ NothingLeft

\* Refuted: a clear that finds a stage container stopped, or not recorded yet,
\* removes the directory the build writes to, and Finish makes an empty one.
ImageAlwaysWhole == tagImg.by \in Builder => tagImg.data = Contents(Doc(tagImg.by), LastStage(tagImg.by))
\* Refuted: applyLabel writes into the map of the stage it was copied from.
LabelsAreOwn == tagSide.by \in Builder => tagSide.data = Labels(Doc(tagSide.by), LastStage(tagSide.by))
=============================================================================
