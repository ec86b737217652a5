---------------------------- MODULE LifecycleProofs ----------------------------
(***************************************************************************)
(* Theorems about Lifecycle: type correctness, mutual exclusion under the  *)
(* lifecycle lock, at most one live instance of a name, stops that stick,  *)
(* resources that stay, and at most one process of the daemon.             *)
(***************************************************************************)
EXTENDS Lifecycle, TLAPS

\* Points at which an actor works on a Config, and those at which it has a child.
Working == {"prepare", "fork", "publish", "kill", "killwait", "killwait9",
            "stopwrite", "derun", "remove", "killold", "strays", "straywait",
            "latest"} \cup Tail
WithChild == {"publish"} \cup Tail

\* The Config and the child that a step uses exist, and the command is one that
\* gets there.
Equipped ==
    \A a \in Actors :
        /\ pc[a] \in Working => own[a] \in Record
        /\ pc[a] \in WithChild => child[a] \in Insts
        /\ pc[a] = "acquire" => op[a] \in Op
        /\ pc[a] = "acquire" /\ op[a] = "rerun" => own[a] \in Record
        /\ pc[a] \in {"kill", "killwait", "killwait9"} => op[a] \in {"kill", "stop", "rerun"}
        /\ pc[a] = "read" => op[a] \in {"kill", "stop", "rm"}

\* An actor has the lock exactly at the points of Locked.
LockHeld == \A a \in Actors : lock = a <=> pc[a] \in Locked

\* After onPlaced an actor's Config names its child; once that is dead it names
\* nobody.
TailOwn ==
    \A a \in Actors :
        /\ pc[a] \in {"provision", "wait", "fgclean", "fgkill"} => own[a].pid = child[a]
        /\ pc[a] \in {"fgclean", "fgkill"} => child[a] \notin alive
        /\ pc[a] \in {"fgremove", "exitwrite"} => own[a].pid = NoInst

Unorphaned == alive \ orphans

\* The live instance is the one on record, unless the holder of the lock has
\* yet to publish it.
OnRecord ==
    (\A a \in Actors : pc[a] # "publish") =>
        \A i \in Unorphaned : rec # NoRec /\ i = rec.pid

\* Points under the lock at which the instance is known to be dead.
Quiet == {"set", "prepare", "fork", "stopwrite", "derun", "remove",
          "killold", "strays", "straywait", "latest"}

\* What the holder of the lock knows about live instances.
HolderKnows ==
    \A a \in Actors :
        /\ pc[a] \in Quiet => Unorphaned = {}
        /\ pc[a] = "publish" => Unorphaned \subseteq {child[a]}
        /\ pc[a] \in {"kill", "killwait", "killwait9"} /\ op[a] # "rerun"
             => Unorphaned \subseteq {own[a].pid}

Guarded == ~clobbered => OnRecord /\ HolderKnows

Inv == TypeOK /\ Equipped /\ LockHeld /\ TailOwn /\ Guarded

-------------------------------------------------------------------------------
(* Records.                                                                *)

\* Dead keeps a record a record and takes its pid away (Kill).
LEMMA DeadRecord ==
  ASSUME NEW r \in Record, NEW s \in Status
  PROVE  Dead(r, s) \in Record /\ Dead(r, s).pid = NoInst
BY DEF Record, Dead

\* Writing a status keeps a record a record and leaves its pid alone.
LEMMA StatusRecord ==
  ASSUME NEW r \in Record, NEW s \in Status
  PROVE  /\ [r EXCEPT !.status = s] \in Record
         /\ [r EXCEPT !.status = s].pid = r.pid
BY DEF Record

\* So does writing a status and a pid, which names the new process.
LEMMA PlacedRecord ==
  ASSUME NEW r \in Record, NEW s \in Status, NEW i \in Insts
  PROVE  /\ [r EXCEPT !.status = s, !.pid = i] \in Record
         /\ [r EXCEPT !.status = s, !.pid = i].pid = i
BY DEF Record

\* The record of a new run is one.
LEMMA NewRecord ==
  ASSUME NEW m \in Modes
  PROVE  [status |-> "new", pid |-> NoInst, mode |-> m] \in Record
BY LifecycleAssumption DEF Record, Status, Mode

-------------------------------------------------------------------------------
(* Type correctness.                                                       *)

Typed == TypeOK /\ Equipped

\* Every step keeps the types.
LEMMA TypeStep ==
  ASSUME Typed, [Next]_vars
  PROVE  TypeOK'
<1> USE LifecycleAssumption DEF Typed, TypeOK, PC, Locked, Tail, Actors, procVars, localVars
<1>1. ASSUME NEW c \in CLIs, NEW o \in Ops, Start(c, o) PROVE TypeOK'
  BY <1>1 DEF Start, Goto, Settle, Op, Equipped
<1>2. ASSUME NEW c \in CLIs, Acquire(c) PROVE TypeOK'
  BY <1>2 DEF Acquire, Goto, Entry, Op, Equipped
<1>3. ASSUME NEW c \in CLIs, AcquireTimesOut(c) PROVE TypeOK'
  BY <1>3 DEF AcquireTimesOut, Finish, Goto
<1>4. ASSUME NEW c \in CLIs, RunCheck(c) PROVE TypeOK'
  BY <1>4 DEF RunCheck, Finish, Goto, Settle, Running
<1>5. ASSUME NEW c \in CLIs, RunRefused(c) PROVE TypeOK'
  BY <1>5 DEF RunRefused, Finish, Goto
<1>6. ASSUME NEW c \in CLIs, NEW m \in Modes, RunSet(c, m) PROVE TypeOK'
  <2>1. [status |-> "new", pid |-> NoInst, mode |-> m] \in Record
    BY NewRecord
  <2>a. /\ stopped' = FALSE
        /\ UNCHANGED <<up, strays, procVars, op, controller, clobbered, torn>>
    BY <1>6 DEF RunSet
  <2>2. CASE m = "startup" /\ controller[c] = "server"
    BY <1>6, <2>1, <2>2, ZenonT(40) DEF RunSet, SetContainer, Finish, Goto
  <2>3. CASE ~(m = "startup" /\ controller[c] = "server")
    <3>1. PICK r \in Record : /\ rec' = r
                              /\ own' = [own EXCEPT ![c] = r]
                              /\ pc' = [pc EXCEPT ![c] = "prepare"]
                              /\ UNCHANGED <<lock, child>>
      BY <1>6, <2>1, <2>3 DEF RunSet, SetContainer, Goto
    <3>2. QED
      BY <3>1, <2>a
  <2>4. QED
    BY <2>2, <2>3
<1>7. ASSUME NEW c \in CLIs, CommandRead(c) PROVE TypeOK'
  BY <1>7 DEF CommandRead, Finish, Goto, Running
<1>8. ASSUME NEW c \in CLIs, KillDead(c) PROVE TypeOK'
  <2>0. own[c] \in Record
    BY <1>8 DEF KillDead, Equipped, Working
  <2>1. Dead(own[c], "killed") \in Record
    BY <2>0, DeadRecord DEF Status
  <2>2. op[c] \in {"kill", "stop", "rerun"}
    BY <1>8 DEF KillDead, Equipped
  <2>3. CASE op[c] = "kill"
    BY <1>8, <2>0, <2>1, <2>3 DEF KillDead, CleanupResources, KillClobbers, Intrudes, AfterKill, Running, Goto, Op
  <2>4. CASE op[c] = "stop"
    BY <1>8, <2>0, <2>1, <2>4 DEF KillDead, CleanupResources, KillClobbers, Intrudes, AfterKill, Running, Goto, Op
  <2>5. CASE op[c] = "rerun"
    BY <1>8, <2>0, <2>1, <2>5, ZenonT(40) DEF KillDead, CleanupResources, KillClobbers, Intrudes, AfterKill, Running, Goto, Op
  <2>6. QED
    BY <2>2, <2>3, <2>4, <2>5
<1>9. ASSUME NEW c \in CLIs, KillSignal(c) PROVE TypeOK'
  BY <1>9 DEF KillSignal, Running, Goto
<1>10. ASSUME NEW c \in CLIs, KillDone(c) PROVE TypeOK'
  <2>0. own[c] \in Record
    BY <1>10 DEF KillDone, Equipped, Working
  <2>1. Dead(own[c], "killed") \in Record
    BY <2>0, DeadRecord DEF Status
  <2>2. op[c] \in {"kill", "stop", "rerun"}
    BY <1>10 DEF KillDone, Equipped
  <2>3. CASE op[c] = "kill"
    BY <1>10, <2>0, <2>1, <2>3 DEF KillDone, CleanupResources, SetContainer, KillClobbers, Intrudes, AfterKill, Running, Goto, Op
  <2>4. CASE op[c] = "stop"
    BY <1>10, <2>0, <2>1, <2>4 DEF KillDone, CleanupResources, SetContainer, KillClobbers, Intrudes, AfterKill, Running, Goto, Op
  <2>5. CASE op[c] = "rerun"
    BY <1>10, <2>0, <2>1, <2>5, ZenonT(40) DEF KillDone, CleanupResources, SetContainer, KillClobbers, Intrudes, AfterKill, Running, Goto, Op
  <2>6. QED
    BY <2>2, <2>3, <2>4, <2>5
<1>11. ASSUME NEW c \in CLIs, KillTimesOut(c) PROVE TypeOK'
  BY <1>11 DEF KillTimesOut, Running, Finish, Goto
<1>12. ASSUME NEW c \in CLIs, StopWrite(c) PROVE TypeOK'
  <2>0. own[c] \in Record
    BY <1>12 DEF StopWrite, Equipped, Working
  <2>1. [own[c] EXCEPT !.status = "stop"] \in Record
    BY <2>0, StatusRecord DEF Status
  <2>2. QED
    BY <1>12, <2>0, <2>1 DEF StopWrite, Finish, Goto
<1>13. ASSUME NEW c \in CLIs, RmDeRun(c) PROVE TypeOK'
  <2>0. own[c] \in Record
    BY <1>13 DEF RmDeRun, Equipped, Working
  <2>1. Dead(own[c], "killed") \in Record
    BY <2>0, DeadRecord DEF Status
  <2>2. QED
    BY <1>13, <2>0, <2>1 DEF RmDeRun, CleanupResources, Goto
<1>14. ASSUME NEW c \in CLIs, RmRemove(c) PROVE TypeOK'
  BY <1>14 DEF RmRemove, Finish, Goto
<1>15. ASSUME NEW a \in Actors, Prepare(a) PROVE TypeOK'
  <2>0. own[a] \in Record
    BY <1>15 DEF Prepare, Equipped, Working
  <2>1. Dead(own[a], "killed") \in Record
    BY <2>0, DeadRecord DEF Status
  <2>2. QED
    BY <1>15, <2>0, <2>1 DEF Prepare, CleanupResources, SetContainer, Goto
<1>16. ASSUME NEW a \in Actors, PrepareFails(a) PROVE TypeOK'
  <2>0. own[a] \in Record
    BY <1>16 DEF PrepareFails, Equipped, Working
  <2>1. Dead(own[a], "killed") \in Record
    BY <2>0, DeadRecord DEF Status
  <2>2. QED
    BY <1>16, <2>0, <2>1 DEF PrepareFails, CleanupResources, Finish, Goto
<1>17. ASSUME NEW a \in Actors, Fork(a) PROVE TypeOK'
  BY <1>17 DEF Fork, Fresh, Goto
<1>18. ASSUME NEW a \in Actors, ForkFails(a) PROVE TypeOK'
  <2>0. own[a] \in Record
    BY <1>18 DEF ForkFails, Equipped, Working
  <2>1. Dead(own[a], "err") \in Record
    BY <2>0, DeadRecord DEF Status
  <2>2. QED
    BY <1>18, <2>0, <2>1 DEF ForkFails, Finish, Goto
<1>19. ASSUME NEW a \in Actors, Publish(a) PROVE TypeOK'
  <2>0. own[a] \in Record /\ child[a] \in Insts
    BY <1>19 DEF Publish, Equipped, Working, WithChild
  <2>1. [own[a] EXCEPT !.status = "running", !.pid = child[a]] \in Record
    BY <2>0, PlacedRecord DEF Status
  <2>2. QED
    BY <1>19, <2>0, <2>1 DEF Publish, SetContainer, Goto
<1>20. ASSUME NEW a \in Actors, Provision(a) PROVE TypeOK'
  <2>1. own[a] \in Record
    BY <1>20 DEF Provision, Equipped, Working
  <2>2. QED
    BY <1>20, <2>1 DEF Provision, Clobber, Intrudes, Background, Finish, Goto
<1>21. ASSUME NEW a \in Actors, ProvisionFails(a) PROVE TypeOK'
  <2>0. own[a] \in Record
    BY <1>21 DEF ProvisionFails, Equipped, Working
  <2>1. Dead(own[a], "err") \in Record
    BY <2>0, DeadRecord DEF Status
  <2>2. QED
    BY <1>21, <2>0, <2>1 DEF ProvisionFails, Reap, Clobber, Intrudes, Finish, Goto
<1>22. ASSUME NEW a \in Actors, WaitReturns(a) PROVE TypeOK'
  BY <1>22 DEF WaitReturns, Goto
<1>23. ASSUME NEW a \in Actors, ExitCleanup(a) PROVE TypeOK'
  BY <1>23 DEF ExitCleanup, CleanupResources, Clobber, Intrudes, Goto
<1>24. ASSUME NEW a \in Actors, ExitKill(a) PROVE TypeOK'
  <2>0. own[a] \in Record
    BY <1>24 DEF ExitKill, Equipped, Working
  <2>1. Dead(own[a], "killed") \in Record
    BY <2>0, DeadRecord DEF Status
  <2>2. QED
    BY <1>24, <2>0, <2>1 DEF ExitKill, CleanupResources, Clobber, Intrudes, SetContainer, Goto
<1>25. ASSUME NEW a \in Actors, ExitRemove(a) PROVE TypeOK'
  BY <1>25 DEF ExitRemove, Clobber, Intrudes, Finish, Goto
<1>26. ASSUME NEW a \in Actors, ExitWrite(a) PROVE TypeOK'
  <2>0. own[a] \in Record
    BY <1>26 DEF ExitWrite, Equipped, Working
  <2>a. "err" \in Status /\ "exit" \in Status
    BY DEF Status
  <2>1. [own[a] EXCEPT !.status = IF own[a].status = "err" THEN "err" ELSE "exit"] \in Record
    BY <2>0, <2>a, StatusRecord
  <2>b. rec' \in Record
    BY <1>26, <2>0, <2>1 DEF ExitWrite
  <2>2. QED
    BY <1>26, <2>0, <2>1, <2>b DEF ExitWrite, Clobber, Intrudes, Finish, Goto
<1>27. ASSUME Tick PROVE TypeOK'
  BY <1>27 DEF Tick, Running, Goto
<1>28. ASSUME RecoverTry PROVE TypeOK'
  BY <1>28 DEF RecoverTry, Goto
<1>29. ASSUME RecoverRecheck PROVE TypeOK'
  BY <1>29 DEF RecoverRecheck, Unneeded, Running, GiveUp, Finish, Goto
<1>30. ASSUME RecoverKillOld PROVE TypeOK'
  <2>0. own[Recovery] \in Record
    BY <1>30 DEF RecoverKillOld, Equipped, Working
  <2>1. Dead(own[Recovery], "killed") \in Record
    BY <2>0, DeadRecord DEF Status
  <2>2. QED
    BY <1>30, <2>0, <2>1 DEF RecoverKillOld, CleanupResources, Goto
<1>31. ASSUME RecoverStrays PROVE TypeOK'
  BY <1>31 DEF RecoverStrays, Targets, Running, Goto
<1>32. ASSUME RecoverStrayWait PROVE TypeOK'
  BY <1>32 DEF RecoverStrayWait, Goto
<1>33. ASSUME RecoverLatest PROVE TypeOK'
  BY <1>33 DEF RecoverLatest, Unneeded, Running, GiveUp, CleanupResources, Finish, Goto
<1>34. ASSUME NEW i \in Insts, Exit(i) PROVE TypeOK'
  BY <1>34 DEF Exit, Reap
<1>35. ASSUME NEW c \in CLIs, CLICrash(c) PROVE TypeOK'
  BY <1>35 DEF CLICrash, Dies, Finish, Goto
<1>36. ASSUME DaemonCrash PROVE TypeOK'
  BY <1>36 DEF DaemonCrash, Dies, Finish, Goto
<1>37. ASSUME DaemonStart PROVE TypeOK'
  BY <1>37 DEF DaemonStart
<1>38. CASE UNCHANGED vars
  BY <1>38 DEF vars, procVars, localVars
<1>39. QED
  BY <1>1, <1>2, <1>3, <1>4, <1>5, <1>6, <1>7, <1>8, <1>9, <1>10, <1>11, <1>12, <1>13, <1>14, <1>15, <1>16, <1>17, <1>18, <1>19, <1>20, <1>21, <1>22, <1>23, <1>24, <1>25, <1>26, <1>27, <1>28, <1>29, <1>30, <1>31, <1>32, <1>33, <1>34, <1>35, <1>36, <1>37, <1>38
     DEF Next, Command, Place, Recover, Environment

\* Every step finds the Config and the child it works on.
LEMMA EquippedStep ==
  ASSUME Typed, TypeOK', [Next]_vars
  PROVE  Equipped'
<1> USE LifecycleAssumption DEF Typed, TypeOK, Equipped, Working, WithChild, Tail, Actors,
        procVars, localVars
<1>1. ASSUME NEW c \in CLIs, NEW o \in Ops, Start(c, o) PROVE Equipped'
  BY <1>1 DEF Start, Goto, Settle
<1>2. ASSUME NEW c \in CLIs, Acquire(c) PROVE Equipped'
  BY <1>2 DEF Acquire, Goto, Entry, Op
<1>3. ASSUME NEW c \in CLIs, AcquireTimesOut(c) PROVE Equipped'
  BY <1>3 DEF AcquireTimesOut, Finish, Goto
<1>4. ASSUME NEW c \in CLIs, RunCheck(c) PROVE Equipped'
  BY <1>4 DEF RunCheck, Finish, Goto, Settle, Running
<1>5. ASSUME NEW c \in CLIs, RunRefused(c) PROVE Equipped'
  BY <1>5 DEF RunRefused, Finish, Goto
<1>6. ASSUME NEW c \in CLIs, NEW m \in Modes, RunSet(c, m) PROVE Equipped'
  <2>1. [status |-> "new", pid |-> NoInst, mode |-> m] \in Record
    BY NewRecord
  <2>2. CASE m = "startup" /\ controller[c] = "server"
    BY <1>6, <2>1, <2>2 DEF RunSet, SetContainer, Finish, Goto
  <2>3. CASE ~(m = "startup" /\ controller[c] = "server")
    BY <1>6, <2>1, <2>3 DEF RunSet, SetContainer, Finish, Goto
  <2>4. QED
    BY <2>2, <2>3
<1>7. ASSUME NEW c \in CLIs, CommandRead(c) PROVE Equipped'
  BY <1>7 DEF CommandRead, Finish, Goto, Running
<1>8. ASSUME NEW c \in CLIs, KillDead(c) PROVE Equipped'
  <2>0. own[c] \in Record
    BY <1>8 DEF KillDead, Equipped, Working
  <2>1. Dead(own[c], "killed") \in Record
    BY <2>0, DeadRecord DEF Status
  <2>2. op[c] \in {"kill", "stop", "rerun"}
    BY <1>8 DEF KillDead, Equipped
  <2>3. CASE op[c] = "kill"
    BY <1>8, <2>0, <2>1, <2>3 DEF KillDead, CleanupResources, KillClobbers, Intrudes, AfterKill, Running, Goto, Op
  <2>4. CASE op[c] = "stop"
    BY <1>8, <2>0, <2>1, <2>4 DEF KillDead, CleanupResources, KillClobbers, Intrudes, AfterKill, Running, Goto, Op
  <2>5. CASE op[c] = "rerun"
    BY <1>8, <2>0, <2>1, <2>5 DEF KillDead, CleanupResources, KillClobbers, Intrudes, AfterKill, Running, Goto, Op
  <2>6. QED
    BY <2>2, <2>3, <2>4, <2>5
<1>9. ASSUME NEW c \in CLIs, KillSignal(c) PROVE Equipped'
  BY <1>9 DEF KillSignal, Running, Goto
<1>10. ASSUME NEW c \in CLIs, KillDone(c) PROVE Equipped'
  <2>0. own[c] \in Record
    BY <1>10 DEF KillDone, Equipped, Working
  <2>1. Dead(own[c], "killed") \in Record
    BY <2>0, DeadRecord DEF Status
  <2>2. op[c] \in {"kill", "stop", "rerun"}
    BY <1>10 DEF KillDone, Equipped
  <2>3. CASE op[c] = "kill"
    BY <1>10, <2>0, <2>1, <2>3 DEF KillDone, CleanupResources, SetContainer, KillClobbers, Intrudes, AfterKill, Running, Goto, Op
  <2>4. CASE op[c] = "stop"
    BY <1>10, <2>0, <2>1, <2>4 DEF KillDone, CleanupResources, SetContainer, KillClobbers, Intrudes, AfterKill, Running, Goto, Op
  <2>5. CASE op[c] = "rerun"
    BY <1>10, <2>0, <2>1, <2>5 DEF KillDone, CleanupResources, SetContainer, KillClobbers, Intrudes, AfterKill, Running, Goto, Op
  <2>6. QED
    BY <2>2, <2>3, <2>4, <2>5
<1>11. ASSUME NEW c \in CLIs, KillTimesOut(c) PROVE Equipped'
  BY <1>11 DEF KillTimesOut, Running, Finish, Goto
<1>12. ASSUME NEW c \in CLIs, StopWrite(c) PROVE Equipped'
  BY <1>12 DEF StopWrite, Finish, Goto
<1>13. ASSUME NEW c \in CLIs, RmDeRun(c) PROVE Equipped'
  BY <1>13 DEF RmDeRun, CleanupResources, Goto
<1>14. ASSUME NEW c \in CLIs, RmRemove(c) PROVE Equipped'
  BY <1>14 DEF RmRemove, Finish, Goto
<1>15. ASSUME NEW a \in Actors, Prepare(a) PROVE Equipped'
  <2>0. own[a] \in Record
    BY <1>15 DEF Prepare, Equipped, Working
  <2>1. Dead(own[a], "killed") \in Record
    BY <2>0, DeadRecord DEF Status
  <2>2. QED
    BY <1>15, <2>0, <2>1 DEF Prepare, CleanupResources, SetContainer, Goto
<1>16. ASSUME NEW a \in Actors, PrepareFails(a) PROVE Equipped'
  BY <1>16 DEF PrepareFails, CleanupResources, Finish, Goto
<1>17. ASSUME NEW a \in Actors, Fork(a) PROVE Equipped'
  BY <1>17 DEF Fork, Fresh, Goto
<1>18. ASSUME NEW a \in Actors, ForkFails(a) PROVE Equipped'
  BY <1>18 DEF ForkFails, Finish, Goto
<1>19. ASSUME NEW a \in Actors, Publish(a) PROVE Equipped'
  <2>0. own[a] \in Record /\ child[a] \in Insts
    BY <1>19 DEF Publish, Equipped, Working, WithChild
  <2>1. [own[a] EXCEPT !.status = "running", !.pid = child[a]] \in Record
    BY <2>0, PlacedRecord DEF Status
  <2>2. QED
    BY <1>19, <2>0, <2>1 DEF Publish, SetContainer, Goto
<1>20. ASSUME NEW a \in Actors, Provision(a) PROVE Equipped'
  BY <1>20 DEF Provision, Clobber, Intrudes, Background, Finish, Goto
<1>21. ASSUME NEW a \in Actors, ProvisionFails(a) PROVE Equipped'
  <2>0. own[a] \in Record
    BY <1>21 DEF ProvisionFails, Equipped, Working
  <2>1. Dead(own[a], "err") \in Record
    BY <2>0, DeadRecord DEF Status
  <2>2. QED
    BY <1>21, <2>0, <2>1 DEF ProvisionFails, Reap, Clobber, Intrudes, Finish, Goto
<1>22. ASSUME NEW a \in Actors, WaitReturns(a) PROVE Equipped'
  BY <1>22 DEF WaitReturns, Goto
<1>23. ASSUME NEW a \in Actors, ExitCleanup(a) PROVE Equipped'
  BY <1>23 DEF ExitCleanup, CleanupResources, Clobber, Intrudes, Goto
<1>24. ASSUME NEW a \in Actors, ExitKill(a) PROVE Equipped'
  <2>0. own[a] \in Record
    BY <1>24 DEF ExitKill, Equipped, Working
  <2>1. Dead(own[a], "killed") \in Record
    BY <2>0, DeadRecord DEF Status
  <2>2. QED
    BY <1>24, <2>0, <2>1 DEF ExitKill, CleanupResources, Clobber, Intrudes, SetContainer, Goto
<1>25. ASSUME NEW a \in Actors, ExitRemove(a) PROVE Equipped'
  BY <1>25 DEF ExitRemove, Clobber, Intrudes, Finish, Goto
<1>26. ASSUME NEW a \in Actors, ExitWrite(a) PROVE Equipped'
  BY <1>26 DEF ExitWrite, Clobber, Intrudes, Finish, Goto
<1>27. ASSUME Tick PROVE Equipped'
  BY <1>27 DEF Tick, Running, Goto
<1>28. ASSUME RecoverTry PROVE Equipped'
  BY <1>28 DEF RecoverTry, Goto
<1>29. ASSUME RecoverRecheck PROVE Equipped'
  BY <1>29 DEF RecoverRecheck, Unneeded, Running, GiveUp, Finish, Goto
<1>30. ASSUME RecoverKillOld PROVE Equipped'
  <2>0. own[Recovery] \in Record
    BY <1>30 DEF RecoverKillOld, Equipped, Working
  <2>1. Dead(own[Recovery], "killed") \in Record
    BY <2>0, DeadRecord DEF Status
  <2>2. QED
    BY <1>30, <2>0, <2>1 DEF RecoverKillOld, CleanupResources, Goto
<1>31. ASSUME RecoverStrays PROVE Equipped'
  BY <1>31 DEF RecoverStrays, Targets, Running, Goto
<1>32. ASSUME RecoverStrayWait PROVE Equipped'
  BY <1>32 DEF RecoverStrayWait, Goto
<1>33. ASSUME RecoverLatest PROVE Equipped'
  BY <1>33 DEF RecoverLatest, Unneeded, Running, GiveUp, CleanupResources, Finish, Goto
<1>34. ASSUME NEW i \in Insts, Exit(i) PROVE Equipped'
  BY <1>34 DEF Exit, Reap
<1>35. ASSUME NEW c \in CLIs, CLICrash(c) PROVE Equipped'
  BY <1>35 DEF CLICrash, Dies, Finish, Goto
<1>36. ASSUME DaemonCrash PROVE Equipped'
  BY <1>36 DEF DaemonCrash, Dies, Finish, Goto
<1>37. ASSUME DaemonStart PROVE Equipped'
  BY <1>37 DEF DaemonStart
<1>38. CASE UNCHANGED vars
  BY <1>38 DEF vars, procVars, localVars
<1>39. QED
  BY <1>1, <1>2, <1>3, <1>4, <1>5, <1>6, <1>7, <1>8, <1>9, <1>10, <1>11, <1>12, <1>13, <1>14, <1>15, <1>16, <1>17, <1>18, <1>19, <1>20, <1>21, <1>22, <1>23, <1>24, <1>25, <1>26, <1>27, <1>28, <1>29, <1>30, <1>31, <1>32, <1>33, <1>34, <1>35, <1>36, <1>37, <1>38
     DEF Next, Command, Place, Recover, Environment

-------------------------------------------------------------------------------
(* The lifecycle lock.                                                     *)

\* Taking and giving back the lock goes with entering and leaving Locked.
LEMMA LockStep ==
  ASSUME Typed, LockHeld, [Next]_vars
  PROVE  LockHeld'
<1> USE LifecycleAssumption DEF Typed, TypeOK, LockHeld, Locked, Tail, Actors, procVars, localVars
<1>1. ASSUME NEW c \in CLIs, NEW o \in Ops, Start(c, o) PROVE LockHeld'
  BY <1>1 DEF Start, Goto, Settle, Op, Equipped
<1>2. ASSUME NEW c \in CLIs, Acquire(c) PROVE LockHeld'
  BY <1>2 DEF Acquire, Goto, Entry, Op, Equipped
<1>3. ASSUME NEW c \in CLIs, AcquireTimesOut(c) PROVE LockHeld'
  BY <1>3 DEF AcquireTimesOut, Finish, Goto
<1>4. ASSUME NEW c \in CLIs, RunCheck(c) PROVE LockHeld'
  BY <1>4 DEF RunCheck, Finish, Goto, Settle, Running
<1>5. ASSUME NEW c \in CLIs, RunRefused(c) PROVE LockHeld'
  BY <1>5 DEF RunRefused, Finish, Goto
<1>6. ASSUME NEW c \in CLIs, NEW m \in Modes, RunSet(c, m) PROVE LockHeld'
  BY <1>6 DEF RunSet, SetContainer, Finish, Goto
<1>7. ASSUME NEW c \in CLIs, CommandRead(c) PROVE LockHeld'
  BY <1>7 DEF CommandRead, Finish, Goto, Running
<1>8. ASSUME NEW c \in CLIs, KillDead(c) PROVE LockHeld'
  <2>2. op[c] \in {"kill", "stop", "rerun"}
    BY <1>8 DEF KillDead, Equipped
  <2>3. CASE op[c] = "kill"
    BY <1>8, <2>3 DEF KillDead, CleanupResources, KillClobbers, Intrudes, AfterKill, Running, Goto
  <2>4. CASE op[c] = "stop"
    BY <1>8, <2>4 DEF KillDead, CleanupResources, KillClobbers, Intrudes, AfterKill, Running, Goto
  <2>5. CASE op[c] = "rerun"
    BY <1>8, <2>5 DEF KillDead, CleanupResources, KillClobbers, Intrudes, AfterKill, Running, Goto
  <2>6. QED
    BY <2>2, <2>3, <2>4, <2>5
<1>9. ASSUME NEW c \in CLIs, KillSignal(c) PROVE LockHeld'
  BY <1>9 DEF KillSignal, Running, Goto
<1>10. ASSUME NEW c \in CLIs, KillDone(c) PROVE LockHeld'
  <2>2. op[c] \in {"kill", "stop", "rerun"}
    BY <1>10 DEF KillDone, Equipped
  <2>3. CASE op[c] = "kill"
    BY <1>10, <2>3 DEF KillDone, CleanupResources, SetContainer, KillClobbers, Intrudes, AfterKill, Running, Goto
  <2>4. CASE op[c] = "stop"
    BY <1>10, <2>4 DEF KillDone, CleanupResources, SetContainer, KillClobbers, Intrudes, AfterKill, Running, Goto
  <2>5. CASE op[c] = "rerun"
    BY <1>10, <2>5 DEF KillDone, CleanupResources, SetContainer, KillClobbers, Intrudes, AfterKill, Running, Goto
  <2>6. QED
    BY <2>2, <2>3, <2>4, <2>5
<1>11. ASSUME NEW c \in CLIs, KillTimesOut(c) PROVE LockHeld'
  BY <1>11 DEF KillTimesOut, Running, Finish, Goto
<1>12. ASSUME NEW c \in CLIs, StopWrite(c) PROVE LockHeld'
  BY <1>12 DEF StopWrite, Finish, Goto
<1>13. ASSUME NEW c \in CLIs, RmDeRun(c) PROVE LockHeld'
  BY <1>13 DEF RmDeRun, CleanupResources, Goto
<1>14. ASSUME NEW c \in CLIs, RmRemove(c) PROVE LockHeld'
  BY <1>14 DEF RmRemove, Finish, Goto
<1>15. ASSUME NEW a \in Actors, Prepare(a) PROVE LockHeld'
  BY <1>15 DEF Prepare, CleanupResources, SetContainer, Goto
<1>16. ASSUME NEW a \in Actors, PrepareFails(a) PROVE LockHeld'
  BY <1>16 DEF PrepareFails, CleanupResources, Finish, Goto
<1>17. ASSUME NEW a \in Actors, Fork(a) PROVE LockHeld'
  BY <1>17 DEF Fork, Fresh, Goto
<1>18. ASSUME NEW a \in Actors, ForkFails(a) PROVE LockHeld'
  BY <1>18 DEF ForkFails, Finish, Goto
<1>19. ASSUME NEW a \in Actors, Publish(a) PROVE LockHeld'
  BY <1>19 DEF Publish, SetContainer, Goto
<1>20. ASSUME NEW a \in Actors, Provision(a) PROVE LockHeld'
  BY <1>20 DEF Provision, Clobber, Intrudes, Background, Finish, Goto
<1>21. ASSUME NEW a \in Actors, ProvisionFails(a) PROVE LockHeld'
  BY <1>21 DEF ProvisionFails, Reap, Clobber, Intrudes, Finish, Goto
<1>22. ASSUME NEW a \in Actors, WaitReturns(a) PROVE LockHeld'
  BY <1>22 DEF WaitReturns, Goto
<1>23. ASSUME NEW a \in Actors, ExitCleanup(a) PROVE LockHeld'
  BY <1>23 DEF ExitCleanup, CleanupResources, Clobber, Intrudes, Goto
<1>24. ASSUME NEW a \in Actors, ExitKill(a) PROVE LockHeld'
  BY <1>24 DEF ExitKill, CleanupResources, Clobber, Intrudes, SetContainer, Goto
<1>25. ASSUME NEW a \in Actors, ExitRemove(a) PROVE LockHeld'
  BY <1>25 DEF ExitRemove, Clobber, Intrudes, Finish, Goto
<1>26. ASSUME NEW a \in Actors, ExitWrite(a) PROVE LockHeld'
  BY <1>26 DEF ExitWrite, Clobber, Intrudes, Finish, Goto
<1>27. ASSUME Tick PROVE LockHeld'
  BY <1>27 DEF Tick, Running, Goto
<1>28. ASSUME RecoverTry PROVE LockHeld'
  BY <1>28 DEF RecoverTry, Goto
<1>29. ASSUME RecoverRecheck PROVE LockHeld'
  BY <1>29 DEF RecoverRecheck, Unneeded, Running, GiveUp, Finish, Goto
<1>30. ASSUME RecoverKillOld PROVE LockHeld'
  BY <1>30 DEF RecoverKillOld, CleanupResources, Goto
<1>31. ASSUME RecoverStrays PROVE LockHeld'
  BY <1>31 DEF RecoverStrays, Targets, Running, Goto
<1>32. ASSUME RecoverStrayWait PROVE LockHeld'
  BY <1>32 DEF RecoverStrayWait, Goto
<1>33. ASSUME RecoverLatest PROVE LockHeld'
  BY <1>33 DEF RecoverLatest, Unneeded, Running, GiveUp, CleanupResources, Finish, Goto
<1>34. ASSUME NEW i \in Insts, Exit(i) PROVE LockHeld'
  BY <1>34 DEF Exit, Reap
<1>35. ASSUME NEW c \in CLIs, CLICrash(c) PROVE LockHeld'
  BY <1>35 DEF CLICrash, Dies, Finish, Goto
<1>36. ASSUME DaemonCrash PROVE LockHeld'
  BY <1>36 DEF DaemonCrash, Dies, Finish, Goto
<1>37. ASSUME DaemonStart PROVE LockHeld'
  BY <1>37 DEF DaemonStart
<1>38. CASE UNCHANGED vars
  BY <1>38 DEF vars, procVars, localVars
<1>39. QED
  BY <1>1, <1>2, <1>3, <1>4, <1>5, <1>6, <1>7, <1>8, <1>9, <1>10, <1>11, <1>12, <1>13, <1>14, <1>15, <1>16, <1>17, <1>18, <1>19, <1>20, <1>21, <1>22, <1>23, <1>24, <1>25, <1>26, <1>27, <1>28, <1>29, <1>30, <1>31, <1>32, <1>33, <1>34, <1>35, <1>36, <1>37, <1>38
     DEF Next, Command, Place, Recover, Environment

\* Two actors are never both under the lock.
LEMMA SoleHolder ==
  ASSUME LockHeld, NEW a \in Actors, NEW b \in Actors,
         pc[a] \in Locked, pc[b] \in Locked
  PROVE  a = b
BY DEF LockHeld

-------------------------------------------------------------------------------
(* The tail of a placement.                                                *)

\* A tail's Config names its child until the child is known to be dead.
LEMMA TailStep ==
  ASSUME Typed, TailOwn, [Next]_vars
  PROVE  TailOwn'
<1> USE LifecycleAssumption DEF Typed, TypeOK, TailOwn, Tail, Actors, procVars, localVars
<1>1. ASSUME NEW c \in CLIs, NEW o \in Ops, Start(c, o) PROVE TailOwn'
  BY <1>1 DEF Start, Goto, Settle
<1>2. ASSUME NEW c \in CLIs, Acquire(c) PROVE TailOwn'
  BY <1>2 DEF Acquire, Goto, Entry, Op, Equipped
<1>3. ASSUME NEW c \in CLIs, AcquireTimesOut(c) PROVE TailOwn'
  BY <1>3 DEF AcquireTimesOut, Finish, Goto
<1>4. ASSUME NEW c \in CLIs, RunCheck(c) PROVE TailOwn'
  BY <1>4 DEF RunCheck, Finish, Goto, Settle, Running
<1>5. ASSUME NEW c \in CLIs, RunRefused(c) PROVE TailOwn'
  BY <1>5 DEF RunRefused, Finish, Goto
<1>6. ASSUME NEW c \in CLIs, NEW m \in Modes, RunSet(c, m) PROVE TailOwn'
  BY <1>6 DEF RunSet, SetContainer, Finish, Goto
<1>7. ASSUME NEW c \in CLIs, CommandRead(c) PROVE TailOwn'
  BY <1>7 DEF CommandRead, Finish, Goto, Running
<1>8. ASSUME NEW c \in CLIs, KillDead(c) PROVE TailOwn'
  <2>2. op[c] \in {"kill", "stop", "rerun"}
    BY <1>8 DEF KillDead, Equipped
  <2>3. CASE op[c] = "kill"
    BY <1>8, <2>3 DEF KillDead, CleanupResources, KillClobbers, Intrudes, AfterKill, Running, Goto
  <2>4. CASE op[c] = "stop"
    BY <1>8, <2>4 DEF KillDead, CleanupResources, KillClobbers, Intrudes, AfterKill, Running, Goto
  <2>5. CASE op[c] = "rerun"
    BY <1>8, <2>5 DEF KillDead, CleanupResources, KillClobbers, Intrudes, AfterKill, Running, Goto
  <2>6. QED
    BY <2>2, <2>3, <2>4, <2>5
<1>9. ASSUME NEW c \in CLIs, KillSignal(c) PROVE TailOwn'
  BY <1>9 DEF KillSignal, Running, Goto
<1>10. ASSUME NEW c \in CLIs, KillDone(c) PROVE TailOwn'
  <2>2. op[c] \in {"kill", "stop", "rerun"}
    BY <1>10 DEF KillDone, Equipped
  <2>3. CASE op[c] = "kill"
    BY <1>10, <2>3 DEF KillDone, CleanupResources, SetContainer, KillClobbers, Intrudes, AfterKill, Running, Goto
  <2>4. CASE op[c] = "stop"
    BY <1>10, <2>4 DEF KillDone, CleanupResources, SetContainer, KillClobbers, Intrudes, AfterKill, Running, Goto
  <2>5. CASE op[c] = "rerun"
    BY <1>10, <2>5 DEF KillDone, CleanupResources, SetContainer, KillClobbers, Intrudes, AfterKill, Running, Goto
  <2>6. QED
    BY <2>2, <2>3, <2>4, <2>5
<1>11. ASSUME NEW c \in CLIs, KillTimesOut(c) PROVE TailOwn'
  BY <1>11 DEF KillTimesOut, Running, Finish, Goto
<1>12. ASSUME NEW c \in CLIs, StopWrite(c) PROVE TailOwn'
  BY <1>12 DEF StopWrite, Finish, Goto
<1>13. ASSUME NEW c \in CLIs, RmDeRun(c) PROVE TailOwn'
  BY <1>13 DEF RmDeRun, CleanupResources, Goto
<1>14. ASSUME NEW c \in CLIs, RmRemove(c) PROVE TailOwn'
  BY <1>14 DEF RmRemove, Finish, Goto
<1>15. ASSUME NEW a \in Actors, Prepare(a) PROVE TailOwn'
  BY <1>15 DEF Prepare, CleanupResources, SetContainer, Goto
<1>16. ASSUME NEW a \in Actors, PrepareFails(a) PROVE TailOwn'
  BY <1>16 DEF PrepareFails, CleanupResources, Finish, Goto
<1>17. ASSUME NEW a \in Actors, Fork(a) PROVE TailOwn'
  BY <1>17 DEF Fork, Fresh, Goto
<1>18. ASSUME NEW a \in Actors, ForkFails(a) PROVE TailOwn'
  BY <1>18 DEF ForkFails, Finish, Goto
<1>19. ASSUME NEW a \in Actors, Publish(a) PROVE TailOwn'
  <2>0. own[a] \in Record /\ child[a] \in Insts
    BY <1>19 DEF Publish, Equipped, Working, WithChild
  <2>1. [own[a] EXCEPT !.status = "running", !.pid = child[a]].pid = child[a]
    BY <2>0 DEF Record
  <2>2. QED
    BY <1>19, <2>0, <2>1 DEF Publish, SetContainer, Goto
<1>20. ASSUME NEW a \in Actors, Provision(a) PROVE TailOwn'
  BY <1>20 DEF Provision, Clobber, Intrudes, Background, Finish, Goto
<1>21. ASSUME NEW a \in Actors, ProvisionFails(a) PROVE TailOwn'
  <2>0. own[a] \in Record
    BY <1>21 DEF ProvisionFails, Equipped, Working
  <2>1. Dead(own[a], "err").pid = NoInst
    BY <2>0, DeadRecord DEF Status
  <2>2. QED
    BY <1>21, <2>0, <2>1 DEF ProvisionFails, Reap, Clobber, Intrudes, Finish, Goto
<1>22. ASSUME NEW a \in Actors, WaitReturns(a) PROVE TailOwn'
  BY <1>22 DEF WaitReturns, Goto
<1>23. ASSUME NEW a \in Actors, ExitCleanup(a) PROVE TailOwn'
  BY <1>23 DEF ExitCleanup, CleanupResources, Clobber, Intrudes, Goto
<1>24. ASSUME NEW a \in Actors, ExitKill(a) PROVE TailOwn'
  <2>0. own[a] \in Record
    BY <1>24 DEF ExitKill, Equipped, Working
  <2>1. Dead(own[a], "killed").pid = NoInst
    BY <2>0, DeadRecord DEF Status
  <2>2. QED
    BY <1>24, <2>0, <2>1 DEF ExitKill, CleanupResources, Clobber, Intrudes, SetContainer, Goto
<1>25. ASSUME NEW a \in Actors, ExitRemove(a) PROVE TailOwn'
  BY <1>25 DEF ExitRemove, Clobber, Intrudes, Finish, Goto
<1>26. ASSUME NEW a \in Actors, ExitWrite(a) PROVE TailOwn'
  BY <1>26 DEF ExitWrite, Clobber, Intrudes, Finish, Goto
<1>27. ASSUME Tick PROVE TailOwn'
  BY <1>27 DEF Tick, Running, Goto
<1>28. ASSUME RecoverTry PROVE TailOwn'
  BY <1>28 DEF RecoverTry, Goto
<1>29. ASSUME RecoverRecheck PROVE TailOwn'
  BY <1>29 DEF RecoverRecheck, Unneeded, Running, GiveUp, Finish, Goto
<1>30. ASSUME RecoverKillOld PROVE TailOwn'
  BY <1>30 DEF RecoverKillOld, CleanupResources, Goto
<1>31. ASSUME RecoverStrays PROVE TailOwn'
  BY <1>31 DEF RecoverStrays, Targets, Running, Goto
<1>32. ASSUME RecoverStrayWait PROVE TailOwn'
  BY <1>32 DEF RecoverStrayWait, Goto
<1>33. ASSUME RecoverLatest PROVE TailOwn'
  BY <1>33 DEF RecoverLatest, Unneeded, Running, GiveUp, CleanupResources, Finish, Goto
<1>34. ASSUME NEW i \in Insts, Exit(i) PROVE TailOwn'
  BY <1>34 DEF Exit, Reap
<1>35. ASSUME NEW c \in CLIs, CLICrash(c) PROVE TailOwn'
  BY <1>35 DEF CLICrash, Dies, Finish, Goto
<1>36. ASSUME DaemonCrash PROVE TailOwn'
  BY <1>36 DEF DaemonCrash, Dies, Finish, Goto
<1>37. ASSUME DaemonStart PROVE TailOwn'
  BY <1>37 DEF DaemonStart
<1>38. CASE UNCHANGED vars
  BY <1>38 DEF vars, procVars, localVars
<1>39. QED
  BY <1>1, <1>2, <1>3, <1>4, <1>5, <1>6, <1>7, <1>8, <1>9, <1>10, <1>11, <1>12, <1>13, <1>14, <1>15, <1>16, <1>17, <1>18, <1>19, <1>20, <1>21, <1>22, <1>23, <1>24, <1>25, <1>26, <1>27, <1>28, <1>29, <1>30, <1>31, <1>32, <1>33, <1>34, <1>35, <1>36, <1>37, <1>38
     DEF Next, Command, Place, Recover, Environment

-------------------------------------------------------------------------------
(* At most one instance.                                                   *)

\* A record once clobbered stays so.
LEMMA ClobberedStays ==
  ASSUME Typed, clobbered, [Next]_vars
  PROVE  clobbered'
<1> USE DEF Typed, TypeOK, procVars, localVars
<1>1. ASSUME NEW c \in CLIs, NEW o \in Ops, Start(c, o) PROVE clobbered'
  BY <1>1 DEF Start, Goto, Settle
<1>2. ASSUME NEW c \in CLIs, Acquire(c) PROVE clobbered'
  BY <1>2 DEF Acquire, Goto, Entry
<1>3. ASSUME NEW c \in CLIs, AcquireTimesOut(c) PROVE clobbered'
  BY <1>3 DEF AcquireTimesOut, Finish, Goto
<1>4. ASSUME NEW c \in CLIs, RunCheck(c) PROVE clobbered'
  BY <1>4 DEF RunCheck, Finish, Goto, Settle, Running
<1>5. ASSUME NEW c \in CLIs, RunRefused(c) PROVE clobbered'
  BY <1>5 DEF RunRefused, Finish, Goto
<1>6. ASSUME NEW c \in CLIs, NEW m \in Modes, RunSet(c, m) PROVE clobbered'
  BY <1>6 DEF RunSet, SetContainer, Finish, Goto
<1>7. ASSUME NEW c \in CLIs, CommandRead(c) PROVE clobbered'
  BY <1>7 DEF CommandRead, Finish, Goto, Running
<1>8. ASSUME NEW c \in CLIs, KillDead(c) PROVE clobbered'
  BY <1>8 DEF KillDead, CleanupResources, KillClobbers, Intrudes, AfterKill, Running, Goto
<1>9. ASSUME NEW c \in CLIs, KillSignal(c) PROVE clobbered'
  BY <1>9 DEF KillSignal, Running, Goto
<1>10. ASSUME NEW c \in CLIs, KillDone(c) PROVE clobbered'
  BY <1>10 DEF KillDone, CleanupResources, SetContainer, KillClobbers, Intrudes, AfterKill, Running, Goto
<1>11. ASSUME NEW c \in CLIs, KillTimesOut(c) PROVE clobbered'
  BY <1>11 DEF KillTimesOut, Running, Finish, Goto
<1>12. ASSUME NEW c \in CLIs, StopWrite(c) PROVE clobbered'
  BY <1>12 DEF StopWrite, Finish, Goto
<1>13. ASSUME NEW c \in CLIs, RmDeRun(c) PROVE clobbered'
  BY <1>13 DEF RmDeRun, CleanupResources, Goto
<1>14. ASSUME NEW c \in CLIs, RmRemove(c) PROVE clobbered'
  BY <1>14 DEF RmRemove, Finish, Goto
<1>15. ASSUME NEW a \in Actors, Prepare(a) PROVE clobbered'
  BY <1>15 DEF Prepare, CleanupResources, SetContainer, Goto
<1>16. ASSUME NEW a \in Actors, PrepareFails(a) PROVE clobbered'
  BY <1>16 DEF PrepareFails, CleanupResources, Finish, Goto
<1>17. ASSUME NEW a \in Actors, Fork(a) PROVE clobbered'
  BY <1>17 DEF Fork, Fresh, Goto
<1>18. ASSUME NEW a \in Actors, ForkFails(a) PROVE clobbered'
  BY <1>18 DEF ForkFails, Finish, Goto
<1>19. ASSUME NEW a \in Actors, Publish(a) PROVE clobbered'
  BY <1>19 DEF Publish, SetContainer, Goto
<1>20. ASSUME NEW a \in Actors, Provision(a) PROVE clobbered'
  BY <1>20 DEF Provision, Clobber, Intrudes, Background, Finish, Goto
<1>21. ASSUME NEW a \in Actors, ProvisionFails(a) PROVE clobbered'
  BY <1>21 DEF ProvisionFails, Reap, Clobber, Intrudes, Finish, Goto
<1>22. ASSUME NEW a \in Actors, WaitReturns(a) PROVE clobbered'
  BY <1>22 DEF WaitReturns, Goto
<1>23. ASSUME NEW a \in Actors, ExitCleanup(a) PROVE clobbered'
  BY <1>23 DEF ExitCleanup, CleanupResources, Clobber, Intrudes, Goto
<1>24. ASSUME NEW a \in Actors, ExitKill(a) PROVE clobbered'
  BY <1>24 DEF ExitKill, CleanupResources, Clobber, Intrudes, SetContainer, Goto
<1>25. ASSUME NEW a \in Actors, ExitRemove(a) PROVE clobbered'
  BY <1>25 DEF ExitRemove, Clobber, Intrudes, Finish, Goto
<1>26. ASSUME NEW a \in Actors, ExitWrite(a) PROVE clobbered'
  BY <1>26 DEF ExitWrite, Clobber, Intrudes, Finish, Goto
<1>27. ASSUME Tick PROVE clobbered'
  BY <1>27 DEF Tick, Running, Goto
<1>28. ASSUME RecoverTry PROVE clobbered'
  BY <1>28 DEF RecoverTry, Goto
<1>29. ASSUME RecoverRecheck PROVE clobbered'
  BY <1>29 DEF RecoverRecheck, Unneeded, Running, GiveUp, Finish, Goto
<1>30. ASSUME RecoverKillOld PROVE clobbered'
  BY <1>30 DEF RecoverKillOld, CleanupResources, Goto
<1>31. ASSUME RecoverStrays PROVE clobbered'
  BY <1>31 DEF RecoverStrays, Targets, Running, Goto
<1>32. ASSUME RecoverStrayWait PROVE clobbered'
  BY <1>32 DEF RecoverStrayWait, Goto
<1>33. ASSUME RecoverLatest PROVE clobbered'
  BY <1>33 DEF RecoverLatest, Unneeded, Running, GiveUp, CleanupResources, Finish, Goto
<1>34. ASSUME NEW i \in Insts, Exit(i) PROVE clobbered'
  BY <1>34 DEF Exit, Reap
<1>35. ASSUME NEW c \in CLIs, CLICrash(c) PROVE clobbered'
  BY <1>35 DEF CLICrash, Dies, Finish, Goto
<1>36. ASSUME DaemonCrash PROVE clobbered'
  BY <1>36 DEF DaemonCrash, Dies, Finish, Goto
<1>37. ASSUME DaemonStart PROVE clobbered'
  BY <1>37 DEF DaemonStart
<1>38. CASE UNCHANGED vars
  BY <1>38 DEF vars, procVars, localVars
<1>39. QED
  BY <1>1, <1>2, <1>3, <1>4, <1>5, <1>6, <1>7, <1>8, <1>9, <1>10, <1>11, <1>12, <1>13, <1>14, <1>15, <1>16, <1>17, <1>18, <1>19, <1>20, <1>21, <1>22, <1>23, <1>24, <1>25, <1>26, <1>27, <1>28, <1>29, <1>30, <1>31, <1>32, <1>33, <1>34, <1>35, <1>36, <1>37, <1>38
     DEF Next, Command, Place, Recover, Environment

\* With nothing alive there is nothing to know.
LEMMA NothingAlive ==
  ASSUME Unorphaned' = {}
  PROVE  (OnRecord /\ HolderKnows)'
BY DEF OnRecord, HolderKnows

\* A holder of the lock that has not forked knows what the record says.
LEMMA HolderReads ==
  ASSUME LockHeld, OnRecord, NEW a \in Actors, pc[a] \in Locked, pc[a] # "publish"
  PROVE  \A i \in Unorphaned : rec # NoRec /\ i = rec.pid
<1>1. \A b \in Actors : pc[b] # "publish"
  BY SoleHolder DEF Locked
<1>2. QED
  BY <1>1 DEF OnRecord

\* A step that starts nothing, leaves the record alone and moves no actor to
\* a point where it must know more keeps what is known.
LEMMA NothingLearnt ==
  ASSUME OnRecord, HolderKnows, rec' = rec, Unorphaned' \subseteq Unorphaned,
         \A b \in Actors : pc[b] = "publish" => pc'[b] = "publish",
         \A b \in Actors :
            /\ pc'[b] \in Quiet => pc[b] \in Quiet
            /\ pc'[b] = "publish" => pc[b] = "publish" /\ child'[b] = child[b]
            /\ pc'[b] \in {"kill", "killwait", "killwait9"} =>
                 \/ op'[b] = "rerun"
                 \/ /\ pc[b] \in {"kill", "killwait", "killwait9"}
                    /\ own'[b] = own[b] /\ op'[b] = op[b]
  PROVE  (OnRecord /\ HolderKnows)'
BY DEF OnRecord, HolderKnows

\* What is known of the live instance stays known, as long as no writer hits
\* a record not its own.
LEMMA GuardedStep ==
  ASSUME Typed, LockHeld, TailOwn, OnRecord, HolderKnows, ~clobbered, ~clobbered',
         [Next]_vars
  PROVE  (OnRecord /\ HolderKnows)'
<1> USE LifecycleAssumption DEF Typed, TypeOK, procVars, localVars
<1> DEFINE Goal == (OnRecord /\ HolderKnows)'
<1>1. ASSUME NEW c \in CLIs, NEW o \in Ops, Start(c, o) PROVE Goal
  BY <1>1, NothingLearnt DEF Start, Goto, Settle, Unorphaned, Quiet, Actors
<1>2. ASSUME NEW c \in CLIs, Acquire(c) PROVE Goal
  BY <1>2, NothingLearnt DEF Acquire, Goto, Entry, Unorphaned, Quiet, Op, Equipped, Actors
<1>3. ASSUME NEW c \in CLIs, AcquireTimesOut(c) PROVE Goal
  BY <1>3, NothingLearnt DEF AcquireTimesOut, Finish, Goto, Unorphaned, Quiet, Actors
<1>4. ASSUME NEW c \in CLIs, RunCheck(c) PROVE Goal
  <2>1. \A i \in Unorphaned : rec # NoRec /\ i = rec.pid
    BY <1>4, HolderReads DEF RunCheck, Locked, Actors
  <2>2. CASE Running(rec)
    BY <1>4, <2>2, NothingLearnt DEF RunCheck, Finish, Goto, Settle, Running, Unorphaned, Quiet, Actors
  <2>3. CASE ~Running(rec)
    <3>1. Unorphaned' = {}
      BY <1>4, <2>1, <2>3 DEF RunCheck, Running, Unorphaned
    <3>2. QED
      BY <3>1, NothingAlive
  <2>4. QED
    BY <2>2, <2>3
<1>5. ASSUME NEW c \in CLIs, RunRefused(c) PROVE Goal
  BY <1>5, NothingLearnt DEF RunRefused, Finish, Goto, Unorphaned, Quiet, Actors
<1>6. ASSUME NEW c \in CLIs, NEW m \in Modes, RunSet(c, m) PROVE Goal
  <2>1. Unorphaned = {}
    BY <1>6 DEF RunSet, HolderKnows, Quiet, Actors
  <2>2. Unorphaned' = {}
    BY <1>6, <2>1 DEF RunSet, Unorphaned
  <2>3. QED
    BY <2>2, NothingAlive
<1>7. ASSUME NEW c \in CLIs, CommandRead(c) PROVE Goal
  <2>1. \A i \in Unorphaned : rec # NoRec /\ i = rec.pid
    BY <1>7, HolderReads DEF CommandRead, Locked, Actors
  <2>2. CASE rec = NoRec \/ (op[c] = "rm" /\ Running(rec))
    BY <1>7, <2>2, NothingLearnt DEF CommandRead, Finish, Goto, Unorphaned, Quiet, Actors
  <2>3. CASE rec # NoRec /\ op[c] = "rm" /\ ~Running(rec)
    <3>1. Unorphaned' = {}
      BY <1>7, <2>1, <2>3 DEF CommandRead, Running, Unorphaned
    <3>2. QED
      BY <3>1, NothingAlive
  <2>4. CASE rec # NoRec /\ op[c] # "rm"
    <3>1. Unorphaned' = Unorphaned /\ rec' = rec /\ own'[c] = rec /\ pc'[c] = "kill"
      BY <1>7, <2>4 DEF CommandRead, Goto, Unorphaned, Actors
    <3>2. \A b \in Actors : b # c =>
            pc'[b] = pc[b] /\ own'[b] = own[b] /\ op'[b] = op[b] /\ child'[b] = child[b]
      BY <1>7, <2>4 DEF CommandRead, Goto, Actors
    <3>3. \A b \in Actors : b # c => pc[b] \notin Locked
      BY <1>7, SoleHolder DEF CommandRead, Locked, Actors
    <3>4. QED
      BY <2>1, <3>1, <3>2, <3>3 DEF OnRecord, HolderKnows, Quiet, Locked
  <2>5. QED
    BY <2>2, <2>3, <2>4
<1>8. ASSUME NEW c \in CLIs, KillDead(c) PROVE Goal
  <2>1. \A i \in Unorphaned : rec # NoRec /\ i = rec.pid
    BY <1>8, HolderReads DEF KillDead, Locked, Actors
  <2>2. own[c] \in Record /\ own[c] # NoRec
    BY <1>8, NoRecAssumption DEF KillDead, Equipped, Working, Actors
  <2>3. own[c].pid \notin alive
    BY <1>8, <2>2 DEF KillDead, Running
  <2>4. CASE op[c] = "rerun"
    <3>1. rec = own[c]
      BY <1>8, <2>4 DEF KillDead, KillClobbers, Intrudes
    <3>2. Unorphaned = {}
      BY <2>1, <2>3, <3>1 DEF Unorphaned
    <3>3. Unorphaned' = {}
      BY <1>8, <3>2 DEF KillDead, Unorphaned
    <3>4. QED
      BY <3>3, NothingAlive
  <2>5. CASE op[c] # "rerun"
    <3>1. Unorphaned \subseteq {own[c].pid}
      BY <1>8, <2>5 DEF KillDead, HolderKnows, Actors
    <3>2. Unorphaned' = {}
      BY <1>8, <2>3, <3>1 DEF KillDead, Unorphaned
    <3>3. QED
      BY <3>2, NothingAlive
  <2>6. QED
    BY <2>4, <2>5
<1>9. ASSUME NEW c \in CLIs, KillSignal(c) PROVE Goal
  BY <1>9, NothingLearnt DEF KillSignal, Running, Goto, Unorphaned, Quiet, Actors
<1>10. ASSUME NEW c \in CLIs, KillDone(c) PROVE Goal
  <2>1. \A i \in Unorphaned : rec # NoRec /\ i = rec.pid
    BY <1>10, HolderReads DEF KillDone, Locked, Actors
  <2>2. own[c] \in Record /\ own[c] # NoRec
    BY <1>10, NoRecAssumption DEF KillDone, Equipped, Working, Actors
  <2>3. own[c].pid \notin alive
    BY <1>10, <2>2 DEF KillDone, Running
  <2>4. CASE op[c] = "rerun"
    <3>1. rec = own[c]
      BY <1>10, <2>4 DEF KillDone, KillClobbers, Intrudes
    <3>2. Unorphaned = {}
      BY <2>1, <2>3, <3>1 DEF Unorphaned
    <3>3. Unorphaned' = {}
      BY <1>10, <3>2 DEF KillDone, Unorphaned
    <3>4. QED
      BY <3>3, NothingAlive
  <2>5. CASE op[c] # "rerun"
    <3>1. Unorphaned \subseteq {own[c].pid}
      BY <1>10, <2>5 DEF KillDone, HolderKnows, Actors
    <3>2. Unorphaned' = {}
      BY <1>10, <2>3, <3>1 DEF KillDone, Unorphaned
    <3>3. QED
      BY <3>2, NothingAlive
  <2>6. QED
    BY <2>4, <2>5
<1>11. ASSUME NEW c \in CLIs, KillTimesOut(c) PROVE Goal
  BY <1>11, NothingLearnt DEF KillTimesOut, Running, Finish, Goto, Unorphaned, Quiet, Actors
<1>12. ASSUME NEW c \in CLIs, StopWrite(c) PROVE Goal
  <2>1. Unorphaned = {}
    BY <1>12 DEF StopWrite, HolderKnows, Quiet, Actors
  <2>2. Unorphaned' = {}
    BY <1>12, <2>1 DEF StopWrite, Unorphaned
  <2>3. QED
    BY <2>2, NothingAlive
<1>13. ASSUME NEW c \in CLIs, RmDeRun(c) PROVE Goal
  <2>1. Unorphaned = {}
    BY <1>13 DEF RmDeRun, HolderKnows, Quiet, Actors
  <2>2. Unorphaned' = {}
    BY <1>13, <2>1 DEF RmDeRun, Unorphaned
  <2>3. QED
    BY <2>2, NothingAlive
<1>14. ASSUME NEW c \in CLIs, RmRemove(c) PROVE Goal
  <2>1. Unorphaned = {}
    BY <1>14 DEF RmRemove, HolderKnows, Quiet, Actors
  <2>2. Unorphaned' = {}
    BY <1>14, <2>1 DEF RmRemove, Unorphaned
  <2>3. QED
    BY <2>2, NothingAlive
<1>15. ASSUME NEW a \in Actors, Prepare(a) PROVE Goal
  <2>1. Unorphaned = {}
    BY <1>15 DEF Prepare, HolderKnows, Quiet, Actors
  <2>2. Unorphaned' = {}
    BY <1>15, <2>1 DEF Prepare, Unorphaned
  <2>3. QED
    BY <2>2, NothingAlive
<1>16. ASSUME NEW a \in Actors, PrepareFails(a) PROVE Goal
  <2>1. Unorphaned = {}
    BY <1>16 DEF PrepareFails, HolderKnows, Quiet, Actors
  <2>2. Unorphaned' = {}
    BY <1>16, <2>1 DEF PrepareFails, Unorphaned
  <2>3. QED
    BY <2>2, NothingAlive
<1>17. ASSUME NEW a \in Actors, Fork(a) PROVE Goal
  <2>1. Unorphaned = {}
    BY <1>17 DEF Fork, HolderKnows, Quiet
  <2>2. Unorphaned' \subseteq {child'[a]} /\ pc'[a] = "publish"
    BY <1>17, <2>1 DEF Fork, Goto, Unorphaned
  <2>3. \A b \in Actors : b # a => pc'[b] \notin Locked
    BY <1>17, SoleHolder DEF Fork, Goto, Locked
  <2>4. QED
    BY <2>2, <2>3 DEF OnRecord, HolderKnows, Quiet, Locked
<1>18. ASSUME NEW a \in Actors, ForkFails(a) PROVE Goal
  <2>1. Unorphaned = {}
    BY <1>18 DEF ForkFails, HolderKnows, Quiet, Actors
  <2>2. Unorphaned' = {}
    BY <1>18, <2>1 DEF ForkFails, Unorphaned
  <2>3. QED
    BY <2>2, NothingAlive
<1>19. ASSUME NEW a \in Actors, Publish(a) PROVE Goal
  <2>1. own[a] \in Record /\ child[a] \in Insts
    BY <1>19 DEF Publish, Equipped, Working, WithChild
  <2>2. Unorphaned' \subseteq {child[a]}
    BY <1>19 DEF Publish, HolderKnows, Unorphaned
  <2>3. rec' \in Record /\ rec'.pid = child[a]
    <3>1. rec' = [own[a] EXCEPT !.status = "running", !.pid = child[a]]
      BY <1>19 DEF Publish, SetContainer
    <3>2. QED
      BY <2>1, <3>1 DEF Record, Status
  <2>4. \A b \in Actors : pc'[b] \notin Locked
    BY <1>19, SoleHolder DEF Publish, Goto, Locked
  <2>5. QED
    BY <2>2, <2>3, <2>4, NoRecAssumption DEF OnRecord, HolderKnows, Quiet, Locked
<1>20. ASSUME NEW a \in Actors, Provision(a) PROVE Goal
  <2>1. rec' = rec
    BY <1>20 DEF Provision, Clobber, Intrudes
  <2>2. QED
    BY <1>20, <2>1, NothingLearnt DEF Provision, Finish, Goto, Unorphaned, Quiet, Actors
<1>21. ASSUME NEW a \in Actors, ProvisionFails(a) PROVE Goal
  <2>1. rec = own[a]
    BY <1>21 DEF ProvisionFails, Clobber, Intrudes
  <2>2. rec.pid \notin Unorphaned' /\ Unorphaned' \subseteq Unorphaned
    BY <1>21, <2>1 DEF ProvisionFails, Reap, TailOwn, Unorphaned
  <2>3. CASE \A b \in Actors : pc[b] # "publish"
    <3>1. Unorphaned' = {}
      BY <2>2, <2>3 DEF OnRecord
    <3>2. QED
      BY <3>1, NothingAlive
  <2>4. CASE \E b \in Actors : pc[b] = "publish"
    BY <1>21, <2>2, <2>4 DEF ProvisionFails, Reap, Clobber, Intrudes, Finish, Goto, OnRecord, HolderKnows, Quiet, Actors
  <2>5. QED
    BY <2>3, <2>4
<1>22. ASSUME NEW a \in Actors, WaitReturns(a) PROVE Goal
  BY <1>22, NothingLearnt DEF WaitReturns, Goto, Unorphaned, Quiet, Actors
<1>23. ASSUME NEW a \in Actors, ExitCleanup(a) PROVE Goal
  BY <1>23, NothingLearnt DEF ExitCleanup, CleanupResources, Clobber, Intrudes, Goto, Unorphaned, Quiet, Actors
<1>24. ASSUME NEW a \in Actors, ExitKill(a) PROVE Goal
  <2>1. rec = own[a]
    BY <1>24 DEF ExitKill, Clobber, Intrudes
  <2>2. rec.pid \notin Unorphaned' /\ Unorphaned' \subseteq Unorphaned
    BY <1>24, <2>1 DEF ExitKill, Reap, TailOwn, Unorphaned
  <2>3. CASE \A b \in Actors : pc[b] # "publish"
    <3>1. Unorphaned' = {}
      BY <2>2, <2>3 DEF OnRecord
    <3>2. QED
      BY <3>1, NothingAlive
  <2>4. CASE \E b \in Actors : pc[b] = "publish"
    BY <1>24, <2>2, <2>4 DEF ExitKill, CleanupResources, Clobber, Intrudes, SetContainer, Goto, OnRecord, HolderKnows, Quiet, Actors
  <2>5. QED
    BY <2>3, <2>4
<1>25. ASSUME NEW a \in Actors, ExitRemove(a) PROVE Goal
  <2>1. rec = own[a]
    BY <1>25 DEF ExitRemove, Clobber, Intrudes
  <2>2. rec.pid \notin Unorphaned' /\ Unorphaned' \subseteq Unorphaned
    BY <1>25, <2>1 DEF ExitRemove, Reap, TailOwn, Unorphaned
  <2>3. CASE \A b \in Actors : pc[b] # "publish"
    <3>1. Unorphaned' = {}
      BY <2>2, <2>3 DEF OnRecord
    <3>2. QED
      BY <3>1, NothingAlive
  <2>4. CASE \E b \in Actors : pc[b] = "publish"
    BY <1>25, <2>2, <2>4 DEF ExitRemove, Clobber, Intrudes, Finish, Goto, OnRecord, HolderKnows, Quiet, Actors
  <2>5. QED
    BY <2>3, <2>4
<1>26. ASSUME NEW a \in Actors, ExitWrite(a) PROVE Goal
  <2>1. rec = own[a]
    BY <1>26 DEF ExitWrite, Clobber, Intrudes
  <2>2. rec.pid \notin Unorphaned' /\ Unorphaned' \subseteq Unorphaned
    BY <1>26, <2>1 DEF ExitWrite, Reap, TailOwn, Unorphaned
  <2>3. CASE \A b \in Actors : pc[b] # "publish"
    <3>1. Unorphaned' = {}
      BY <2>2, <2>3 DEF OnRecord
    <3>2. QED
      BY <3>1, NothingAlive
  <2>4. CASE \E b \in Actors : pc[b] = "publish"
    BY <1>26, <2>2, <2>4 DEF ExitWrite, Clobber, Intrudes, Finish, Goto, OnRecord, HolderKnows, Quiet, Actors
  <2>5. QED
    BY <2>3, <2>4
<1>27. ASSUME Tick PROVE Goal
  BY <1>27, NothingLearnt DEF Tick, Running, Goto, Unorphaned, Quiet, Actors
<1>28. ASSUME RecoverTry PROVE Goal
  BY <1>28, NothingLearnt DEF RecoverTry, Goto, Unorphaned, Quiet, Actors
<1>29. ASSUME RecoverRecheck PROVE Goal
  <2>1. \A i \in Unorphaned : rec # NoRec /\ i = rec.pid
    BY <1>29, HolderReads DEF RecoverRecheck, Locked, Actors
  <2>2. CASE Running(rec) \/ Unneeded(rec)
    BY <1>29, <2>2, NothingLearnt DEF RecoverRecheck, Unneeded, Running, GiveUp, Finish, Goto, Unorphaned, Quiet, Actors
  <2>3. CASE ~Running(rec) /\ ~Unneeded(rec)
    <3>1. Unorphaned' = {}
      BY <1>29, <2>1, <2>3 DEF RecoverRecheck, Running, Unorphaned
    <3>2. QED
      BY <3>1, NothingAlive
  <2>4. QED
    BY <2>2, <2>3
<1>30. ASSUME RecoverKillOld PROVE Goal
  <2>1. Unorphaned = {}
    BY <1>30 DEF RecoverKillOld, HolderKnows, Quiet, Actors
  <2>2. Unorphaned' = {}
    BY <1>30, <2>1 DEF RecoverKillOld, Unorphaned
  <2>3. QED
    BY <2>2, NothingAlive
<1>31. ASSUME RecoverStrays PROVE Goal
  <2>1. Unorphaned = {}
    BY <1>31 DEF RecoverStrays, HolderKnows, Quiet, Actors
  <2>2. Unorphaned' = {}
    BY <1>31, <2>1 DEF RecoverStrays, Unorphaned
  <2>3. QED
    BY <2>2, NothingAlive
<1>32. ASSUME RecoverStrayWait PROVE Goal
  <2>1. Unorphaned = {}
    BY <1>32 DEF RecoverStrayWait, HolderKnows, Quiet, Actors
  <2>2. Unorphaned' = {}
    BY <1>32, <2>1 DEF RecoverStrayWait, Unorphaned
  <2>3. QED
    BY <2>2, NothingAlive
<1>33. ASSUME RecoverLatest PROVE Goal
  <2>1. Unorphaned = {}
    BY <1>33 DEF RecoverLatest, HolderKnows, Quiet, Actors
  <2>2. Unorphaned' = {}
    BY <1>33, <2>1 DEF RecoverLatest, Unorphaned
  <2>3. QED
    BY <2>2, NothingAlive
<1>34. ASSUME NEW i \in Insts, Exit(i) PROVE Goal
  BY <1>34, NothingLearnt DEF Exit, Reap, Unorphaned, Quiet, Actors
<1>35. ASSUME NEW c \in CLIs, CLICrash(c) PROVE Goal
  <2>1. CASE pc[c] = "publish"
    <3>1. Unorphaned \subseteq {child[c]}
      BY <2>1 DEF HolderKnows, Actors
    <3>2. Unorphaned' = {}
      BY <1>35, <2>1, <3>1 DEF CLICrash, Dies, Unorphaned
    <3>3. QED
      BY <3>2, NothingAlive
  <2>2. CASE pc[c] # "publish"
    BY <1>35, <2>2, NothingLearnt DEF CLICrash, Dies, Finish, Goto, Unorphaned, Quiet, Actors
  <2>3. QED
    BY <2>1, <2>2
<1>36. ASSUME DaemonCrash PROVE Goal
  <2>1. CASE pc[Recovery] = "publish"
    <3>1. Unorphaned \subseteq {child[Recovery]}
      BY <2>1 DEF HolderKnows, Actors
    <3>2. Unorphaned' = {}
      BY <1>36, <2>1, <3>1 DEF DaemonCrash, Dies, Unorphaned
    <3>3. QED
      BY <3>2, NothingAlive
  <2>2. CASE pc[Recovery] # "publish"
    BY <1>36, <2>2, NothingLearnt DEF DaemonCrash, Dies, Finish, Goto, Unorphaned, Quiet, Actors
  <2>3. QED
    BY <2>1, <2>2
<1>37. ASSUME DaemonStart PROVE Goal
  BY <1>37, NothingLearnt DEF DaemonStart, Unorphaned, Quiet, Actors
<1>38. CASE UNCHANGED vars
  BY <1>38 DEF vars, OnRecord, HolderKnows, Unorphaned
<1>39. QED
  BY <1>1, <1>2, <1>3, <1>4, <1>5, <1>6, <1>7, <1>8, <1>9, <1>10, <1>11, <1>12, <1>13, <1>14, <1>15, <1>16, <1>17, <1>18, <1>19, <1>20, <1>21, <1>22, <1>23, <1>24, <1>25, <1>26, <1>27, <1>28, <1>29, <1>30, <1>31, <1>32, <1>33, <1>34, <1>35, <1>36, <1>37, <1>38
     DEF Next, Command, Place, Recover, Environment

-------------------------------------------------------------------------------
(* Theorems.                                                               *)

\* The initial states satisfy the invariant.
LEMMA InvInit ==
  ASSUME Init
  PROVE  Inv
<1> USE LifecycleAssumption DEF Init, Actors
<1>1. TypeOK
  <2>1. exits \in 0..MaxExits
    OBVIOUS
  <2>2. pc \in [Actors -> PC] /\ op \in [Actors -> Op \cup {"none"}]
    BY DEF PC
  <2>3. /\ own \in [Actors -> Record \cup {NoRec}]
        /\ child \in [Actors -> Insts \cup {NoInst}]
        /\ controller \in [Actors -> {"unset", "disk", "server"}]
    OBVIOUS
  <2>4. QED
    BY <2>1, <2>2, <2>3 DEF TypeOK
<1>2. Equipped
  BY DEF Equipped, Working, WithChild, Tail
<1>3. LockHeld /\ TailOwn
  BY DEF LockHeld, TailOwn, Locked
<1>4. Guarded
  BY DEF Guarded, OnRecord, HolderKnows, Unorphaned, Quiet
<1>5. QED
  BY <1>1, <1>2, <1>3, <1>4 DEF Inv

\* Every step keeps the invariant.
LEMMA InvStep ==
  ASSUME Inv, [Next]_vars
  PROVE  Inv'
<1>1. Typed /\ LockHeld /\ TailOwn /\ Guarded
  BY DEF Inv, Typed
<1>2. TypeOK'
  BY <1>1, TypeStep
<1>3. Equipped' /\ LockHeld' /\ TailOwn'
  BY <1>1, <1>2, EquippedStep, LockStep, TailStep
<1>4. Guarded'
  <2>1. SUFFICES ASSUME ~clobbered' PROVE (OnRecord /\ HolderKnows)'
    BY DEF Guarded
  <2>2. ~clobbered
    BY <1>1, <2>1, ClobberedStays
  <2>3. OnRecord /\ HolderKnows
    BY <1>1, <2>2 DEF Guarded
  <2>4. QED
    BY <1>1, <2>1, <2>2, <2>3, GuardedStep
<1>5. QED
  BY <1>2, <1>3, <1>4 DEF Inv

\* The inductive invariant holds in every behaviour.
THEOREM Invariance == Spec => []Inv
<1>1. Init => Inv
  BY InvInit
<1>2. Inv /\ [Next]_vars => Inv'
  BY InvStep
<1>3. QED
  BY <1>1, <1>2, PTL DEF Spec

\* Every variable keeps its type, for any number of processes and commands.
THEOREM TypeCorrect == Spec => []TypeOK
<1>1. Inv => TypeOK
  BY DEF Inv
<1>2. QED
  BY <1>1, Invariance, PTL

\* The sections of run, kill, stop, rm, rerun and recovery that the lifecycle
\* lock protects exclude each other, crashes of their processes included
\* (namelock.Acquire, TryAcquire, Release).
Exclusion == \A a, b \in Actors : pc[a] \in Locked /\ pc[b] \in Locked => a = b

\* Two actors are never both inside the sections the lifecycle lock protects.
THEOREM MutualExclusion == Spec => []Exclusion
<1>1. Inv => Exclusion
  BY SoleHolder DEF Inv, Exclusion
<1>2. QED
  BY <1>1, Invariance, PTL

\* No two live processes of the name, as long as no writer has hit a record
\* not its own (RunContainer's "already running" check, audit L3).
THEOREM AtMostOneInstance == Spec => []OneInstance
<1>1. ASSUME Inv PROVE OneInstance
  <2>1. SUFFICES ASSUME ~clobbered, NEW i \in alive \ orphans, NEW j \in alive \ orphans
                 PROVE  i = j
    BY DEF OneInstance, OneLiveInstance
  <2>2. OnRecord /\ HolderKnows /\ i \in Unorphaned /\ j \in Unorphaned
    BY <1>1, <2>1 DEF Inv, Guarded, Unorphaned
  <2>3. CASE \E a \in Actors : pc[a] = "publish"
    BY <2>2, <2>3 DEF HolderKnows
  <2>4. CASE \A a \in Actors : pc[a] # "publish"
    BY <2>2, <2>4 DEF OnRecord
  <2>5. QED
    BY <2>3, <2>4
<1>2. QED
  BY <1>1, Invariance, PTL

-------------------------------------------------------------------------------
(* Resources and stops: what the tails and the holder know of the record.  *)

\* No tail works on a stopped Config.
TailStatus == \A a \in Actors : pc[a] \in Tail => own[a].status # "stop"

\* Points of the holder between its first write and its last, where the record
\* names nobody, and those where no stop is in force.
Unnamed == {"fork", "publish"}
Replacing == {"prepare", "fork", "publish", "remove", "killold", "strays",
              "straywait", "latest"}

Written ==
    \A a \in Actors :
        /\ pc[a] \in Unnamed => rec = NoRec \/ rec.pid = NoInst
        /\ pc[a] \in Replacing => ~stopped

Settled == ~clobbered => Written /\ StopIsKept /\ ResourcesAreKept

\* A Config's status is what its placer last wrote.
LEMMA TailStatusStep ==
  ASSUME Typed, TailStatus, [Next]_vars
  PROVE  TailStatus'
<1> USE LifecycleAssumption DEF Typed, TypeOK, TailStatus, Tail, Actors, procVars, localVars
<1>1. ASSUME NEW c \in CLIs, NEW o \in Ops, Start(c, o) PROVE TailStatus'
  BY <1>1 DEF Start, Goto, Settle
<1>2. ASSUME NEW c \in CLIs, Acquire(c) PROVE TailStatus'
  BY <1>2 DEF Acquire, Goto, Entry, Op, Equipped
<1>3. ASSUME NEW c \in CLIs, AcquireTimesOut(c) PROVE TailStatus'
  BY <1>3 DEF AcquireTimesOut, Finish, Goto
<1>4. ASSUME NEW c \in CLIs, RunCheck(c) PROVE TailStatus'
  BY <1>4 DEF RunCheck, Finish, Goto, Settle, Running
<1>5. ASSUME NEW c \in CLIs, RunRefused(c) PROVE TailStatus'
  BY <1>5 DEF RunRefused, Finish, Goto
<1>6. ASSUME NEW c \in CLIs, NEW m \in Modes, RunSet(c, m) PROVE TailStatus'
  BY <1>6 DEF RunSet, SetContainer, Finish, Goto
<1>7. ASSUME NEW c \in CLIs, CommandRead(c) PROVE TailStatus'
  BY <1>7 DEF CommandRead, Finish, Goto, Running
<1>8. ASSUME NEW c \in CLIs, KillDead(c) PROVE TailStatus'
  <2>2. op[c] \in {"kill", "stop", "rerun"}
    BY <1>8 DEF KillDead, Equipped
  <2>3. CASE op[c] = "kill"
    BY <1>8, <2>3 DEF KillDead, CleanupResources, KillClobbers, Intrudes, AfterKill, Running, Goto
  <2>4. CASE op[c] = "stop"
    BY <1>8, <2>4 DEF KillDead, CleanupResources, KillClobbers, Intrudes, AfterKill, Running, Goto
  <2>5. CASE op[c] = "rerun"
    BY <1>8, <2>5 DEF KillDead, CleanupResources, KillClobbers, Intrudes, AfterKill, Running, Goto
  <2>6. QED
    BY <2>2, <2>3, <2>4, <2>5
<1>9. ASSUME NEW c \in CLIs, KillSignal(c) PROVE TailStatus'
  BY <1>9 DEF KillSignal, Running, Goto
<1>10. ASSUME NEW c \in CLIs, KillDone(c) PROVE TailStatus'
  <2>2. op[c] \in {"kill", "stop", "rerun"}
    BY <1>10 DEF KillDone, Equipped
  <2>3. CASE op[c] = "kill"
    BY <1>10, <2>3 DEF KillDone, CleanupResources, SetContainer, KillClobbers, Intrudes, AfterKill, Running, Goto
  <2>4. CASE op[c] = "stop"
    BY <1>10, <2>4 DEF KillDone, CleanupResources, SetContainer, KillClobbers, Intrudes, AfterKill, Running, Goto
  <2>5. CASE op[c] = "rerun"
    BY <1>10, <2>5 DEF KillDone, CleanupResources, SetContainer, KillClobbers, Intrudes, AfterKill, Running, Goto
  <2>6. QED
    BY <2>2, <2>3, <2>4, <2>5
<1>11. ASSUME NEW c \in CLIs, KillTimesOut(c) PROVE TailStatus'
  BY <1>11 DEF KillTimesOut, Running, Finish, Goto
<1>12. ASSUME NEW c \in CLIs, StopWrite(c) PROVE TailStatus'
  BY <1>12 DEF StopWrite, Finish, Goto
<1>13. ASSUME NEW c \in CLIs, RmDeRun(c) PROVE TailStatus'
  BY <1>13 DEF RmDeRun, CleanupResources, Goto
<1>14. ASSUME NEW c \in CLIs, RmRemove(c) PROVE TailStatus'
  BY <1>14 DEF RmRemove, Finish, Goto
<1>15. ASSUME NEW a \in Actors, Prepare(a) PROVE TailStatus'
  BY <1>15 DEF Prepare, CleanupResources, SetContainer, Goto
<1>16. ASSUME NEW a \in Actors, PrepareFails(a) PROVE TailStatus'
  BY <1>16 DEF PrepareFails, CleanupResources, Finish, Goto
<1>17. ASSUME NEW a \in Actors, Fork(a) PROVE TailStatus'
  BY <1>17 DEF Fork, Fresh, Goto
<1>18. ASSUME NEW a \in Actors, ForkFails(a) PROVE TailStatus'
  BY <1>18 DEF ForkFails, Finish, Goto
<1>19. ASSUME NEW a \in Actors, Publish(a) PROVE TailStatus'
  <2>0. own[a] \in Record
    BY <1>19 DEF Publish, Equipped, Working
  <2>1. [own[a] EXCEPT !.status = "running", !.pid = child[a]].status = "running"
    BY <2>0 DEF Record
  <2>2. QED
    BY <1>19, <2>1 DEF Publish, SetContainer, Goto
<1>20. ASSUME NEW a \in Actors, Provision(a) PROVE TailStatus'
  BY <1>20 DEF Provision, Clobber, Intrudes, Background, Finish, Goto
<1>21. ASSUME NEW a \in Actors, ProvisionFails(a) PROVE TailStatus'
  <2>0. own[a] \in Record
    BY <1>21 DEF ProvisionFails, Equipped, Working
  <2>1. Dead(own[a], "err").status = "err"
    BY <2>0 DEF Dead, Record
  <2>2. QED
    BY <1>21, <2>1 DEF ProvisionFails, Reap, Clobber, Intrudes, Finish, Goto
<1>22. ASSUME NEW a \in Actors, WaitReturns(a) PROVE TailStatus'
  BY <1>22 DEF WaitReturns, Goto
<1>23. ASSUME NEW a \in Actors, ExitCleanup(a) PROVE TailStatus'
  BY <1>23 DEF ExitCleanup, CleanupResources, Clobber, Intrudes, Goto
<1>24. ASSUME NEW a \in Actors, ExitKill(a) PROVE TailStatus'
  <2>0. own[a] \in Record
    BY <1>24 DEF ExitKill, Equipped, Working
  <2>1. Dead(own[a], "killed").status = "killed"
    BY <2>0 DEF Dead, Record
  <2>2. QED
    BY <1>24, <2>1 DEF ExitKill, CleanupResources, Clobber, Intrudes, SetContainer, Goto
<1>25. ASSUME NEW a \in Actors, ExitRemove(a) PROVE TailStatus'
  BY <1>25 DEF ExitRemove, Clobber, Intrudes, Finish, Goto
<1>26. ASSUME NEW a \in Actors, ExitWrite(a) PROVE TailStatus'
  BY <1>26 DEF ExitWrite, Clobber, Intrudes, Finish, Goto
<1>27. ASSUME Tick PROVE TailStatus'
  BY <1>27 DEF Tick, Running, Goto
<1>28. ASSUME RecoverTry PROVE TailStatus'
  BY <1>28 DEF RecoverTry, Goto
<1>29. ASSUME RecoverRecheck PROVE TailStatus'
  BY <1>29 DEF RecoverRecheck, Unneeded, Running, GiveUp, Finish, Goto
<1>30. ASSUME RecoverKillOld PROVE TailStatus'
  BY <1>30 DEF RecoverKillOld, CleanupResources, Goto
<1>31. ASSUME RecoverStrays PROVE TailStatus'
  BY <1>31 DEF RecoverStrays, Targets, Running, Goto
<1>32. ASSUME RecoverStrayWait PROVE TailStatus'
  BY <1>32 DEF RecoverStrayWait, Goto
<1>33. ASSUME RecoverLatest PROVE TailStatus'
  BY <1>33 DEF RecoverLatest, Unneeded, Running, GiveUp, CleanupResources, Finish, Goto
<1>34. ASSUME NEW i \in Insts, Exit(i) PROVE TailStatus'
  BY <1>34 DEF Exit, Reap
<1>35. ASSUME NEW c \in CLIs, CLICrash(c) PROVE TailStatus'
  BY <1>35 DEF CLICrash, Dies, Finish, Goto
<1>36. ASSUME DaemonCrash PROVE TailStatus'
  BY <1>36 DEF DaemonCrash, Dies, Finish, Goto
<1>37. ASSUME DaemonStart PROVE TailStatus'
  BY <1>37 DEF DaemonStart
<1>38. CASE UNCHANGED vars
  BY <1>38 DEF vars, procVars, localVars
<1>39. QED
  BY <1>1, <1>2, <1>3, <1>4, <1>5, <1>6, <1>7, <1>8, <1>9, <1>10, <1>11, <1>12, <1>13, <1>14, <1>15, <1>16, <1>17, <1>18, <1>19, <1>20, <1>21, <1>22, <1>23, <1>24, <1>25, <1>26, <1>27, <1>28, <1>29, <1>30, <1>31, <1>32, <1>33, <1>34, <1>35, <1>36, <1>37, <1>38
     DEF Next, Command, Place, Recover, Environment

\* The three parts of Settled, one step at a time.
LEMMA WrittenStep ==
  ASSUME Typed, LockHeld, TailOwn, TailStatus, Written, StopIsKept,
         ~clobbered, ~clobbered', [Next]_vars
  PROVE  Written'
<1> USE LifecycleAssumption DEF Typed, TypeOK, procVars, localVars
<1>1. ASSUME NEW c \in CLIs, NEW o \in Ops, Start(c, o) PROVE Written'
  BY <1>1 DEF Start, Goto, Settle, Written, Unnamed, Replacing, Actors
<1>2. ASSUME NEW c \in CLIs, Acquire(c) PROVE Written'
  BY <1>2 DEF Acquire, Goto, Entry, Written, Unnamed, Replacing, Actors, Op, Equipped
<1>3. ASSUME NEW c \in CLIs, AcquireTimesOut(c) PROVE Written'
  BY <1>3 DEF AcquireTimesOut, Finish, Goto, Written, Unnamed, Replacing, Actors
<1>4. ASSUME NEW c \in CLIs, RunCheck(c) PROVE Written'
  BY <1>4 DEF RunCheck, Finish, Goto, Settle, Running, Written, Unnamed, Replacing, Actors
<1>5. ASSUME NEW c \in CLIs, RunRefused(c) PROVE Written'
  BY <1>5 DEF RunRefused, Finish, Goto, Written, Unnamed, Replacing, Actors
<1>6. ASSUME NEW c \in CLIs, NEW m \in Modes, RunSet(c, m) PROVE Written'
  <2>9. \A b \in Actors : pc[b] \in Locked => b = c
    BY <1>6, SoleHolder DEF RunSet, Locked, Actors
  <2>1. QED
    BY <1>6, <2>9 DEF RunSet, SetContainer, Finish, Goto, Written, Unnamed, Replacing, Actors, Locked
<1>7. ASSUME NEW c \in CLIs, CommandRead(c) PROVE Written'
  <2>9. \A b \in Actors : pc[b] \in Locked => b = c
    BY <1>7, SoleHolder DEF CommandRead, Locked, Actors
  <2>1. QED
    BY <1>7, <2>9 DEF CommandRead, Finish, Goto, Running, Written, Unnamed, Replacing, Actors, Locked
<1>8. ASSUME NEW c \in CLIs, KillDead(c) PROVE Written'
  <2>9. \A b \in Actors : pc[b] \in Locked => b = c
    BY <1>8, SoleHolder DEF KillDead, Locked, Actors
  <2>1. op[c] \in {"kill", "stop", "rerun"}
    BY <1>8 DEF KillDead, Equipped, Actors
  <2>2. pc'[c] \notin Unnamed \cup Replacing
    BY <1>8, <2>1, ZenonT(40) DEF KillDead, AfterKill, Goto, Unnamed, Replacing, Actors
  <2>3. \A b \in Actors : b # c => pc'[b] = pc[b]
    BY <1>8, <2>1 DEF KillDead, AfterKill, Goto
  <2>4. QED
    BY <2>2, <2>3, <2>9 DEF Written, Unnamed, Replacing, Locked
<1>9. ASSUME NEW c \in CLIs, KillSignal(c) PROVE Written'
  BY <1>9 DEF KillSignal, Running, Goto, Written, Unnamed, Replacing, Actors
<1>10. ASSUME NEW c \in CLIs, KillDone(c) PROVE Written'
  <2>9. \A b \in Actors : pc[b] \in Locked => b = c
    BY <1>10, SoleHolder DEF KillDone, Locked, Actors
  <2>1. op[c] \in {"kill", "stop", "rerun"}
    BY <1>10 DEF KillDone, Equipped, Actors
  <2>2. pc'[c] \notin Unnamed \cup Replacing
    BY <1>10, <2>1, ZenonT(40) DEF KillDone, AfterKill, Goto, Unnamed, Replacing, Actors
  <2>3. \A b \in Actors : b # c => pc'[b] = pc[b]
    BY <1>10, <2>1 DEF KillDone, AfterKill, Goto
  <2>4. QED
    BY <2>2, <2>3, <2>9 DEF Written, Unnamed, Replacing, Locked
<1>11. ASSUME NEW c \in CLIs, KillTimesOut(c) PROVE Written'
  BY <1>11 DEF KillTimesOut, Running, Finish, Goto, Written, Unnamed, Replacing, Actors
<1>12. ASSUME NEW c \in CLIs, StopWrite(c) PROVE Written'
  <2>9. \A b \in Actors : pc[b] \in Locked => b = c
    BY <1>12, SoleHolder DEF StopWrite, Locked, Actors
  <2>1. QED
    BY <1>12, <2>9 DEF StopWrite, Finish, Goto, Written, Unnamed, Replacing, Actors, Locked
<1>13. ASSUME NEW c \in CLIs, RmDeRun(c) PROVE Written'
  <2>9. \A b \in Actors : pc[b] \in Locked => b = c
    BY <1>13, SoleHolder DEF RmDeRun, Locked, Actors
  <2>1. QED
    BY <1>13, <2>9 DEF RmDeRun, CleanupResources, Goto, Written, Unnamed, Replacing, Actors, Locked
<1>14. ASSUME NEW c \in CLIs, RmRemove(c) PROVE Written'
  <2>9. \A b \in Actors : pc[b] \in Locked => b = c
    BY <1>14, SoleHolder DEF RmRemove, Locked, Actors
  <2>1. QED
    BY <1>14, <2>9 DEF RmRemove, Finish, Goto, Written, Unnamed, Replacing, Actors, Locked
<1>15. ASSUME NEW a \in Actors, Prepare(a) PROVE Written'
  <2>9. \A b \in Actors : pc[b] \in Locked => b = a
    BY <1>15, SoleHolder DEF Prepare, Locked, Actors
  <2>0. own[a] \in Record
    BY <1>15 DEF Prepare, Equipped, Working
  <2>1. Dead(own[a], "killed").pid = NoInst
    BY <2>0, DeadRecord DEF Status
  <2>2. QED
    BY <1>15, <2>9, <2>1 DEF Prepare, CleanupResources, SetContainer, Goto, Written, Unnamed, Replacing, Actors, Locked
<1>16. ASSUME NEW a \in Actors, PrepareFails(a) PROVE Written'
  <2>9. \A b \in Actors : pc[b] \in Locked => b = a
    BY <1>16, SoleHolder DEF PrepareFails, Locked, Actors
  <2>1. QED
    BY <1>16, <2>9 DEF PrepareFails, CleanupResources, Finish, Goto, Written, Unnamed, Replacing, Actors, Locked
<1>17. ASSUME NEW a \in Actors, Fork(a) PROVE Written'
  BY <1>17 DEF Fork, Fresh, Goto, Written, Unnamed, Replacing, Actors
<1>18. ASSUME NEW a \in Actors, ForkFails(a) PROVE Written'
  <2>9. \A b \in Actors : pc[b] \in Locked => b = a
    BY <1>18, SoleHolder DEF ForkFails, Locked, Actors
  <2>1. QED
    BY <1>18, <2>9 DEF ForkFails, Finish, Goto, Written, Unnamed, Replacing, Actors, Locked
<1>19. ASSUME NEW a \in Actors, Publish(a) PROVE Written'
  <2>9. \A b \in Actors : pc[b] \in Locked => b = a
    BY <1>19, SoleHolder DEF Publish, Locked, Actors
  <2>1. QED
    BY <1>19, <2>9 DEF Publish, SetContainer, Goto, Written, Unnamed, Replacing, Actors, Locked
<1>20. ASSUME NEW a \in Actors, Provision(a) PROVE Written'
  <2>1. rec' = rec
    BY <1>20 DEF Provision, Clobber, Intrudes
  <2>2. QED
    BY <1>20, <2>1 DEF Provision, Clobber, Intrudes, Background, Finish, Goto, Written, Unnamed, Replacing, Actors
<1>21. ASSUME NEW a \in Actors, ProvisionFails(a) PROVE Written'
  <2>0. own[a] \in Record
    BY <1>21 DEF ProvisionFails, Equipped, Working, Tail
  <2>1. rec'.pid = NoInst
    <3>1. Dead(own[a], "err").pid = NoInst
      BY <2>0, DeadRecord DEF Status
    <3>2. QED
      BY <1>21, <3>1 DEF ProvisionFails, SetContainer
  <2>2. QED
    BY <1>21, <2>1 DEF ProvisionFails, Reap, Finish, Goto, Written, Unnamed, Replacing, Actors
<1>22. ASSUME NEW a \in Actors, WaitReturns(a) PROVE Written'
  BY <1>22 DEF WaitReturns, Goto, Written, Unnamed, Replacing, Actors
<1>23. ASSUME NEW a \in Actors, ExitCleanup(a) PROVE Written'
  BY <1>23 DEF ExitCleanup, CleanupResources, Clobber, Intrudes, Goto, Written, Unnamed, Replacing, Actors
<1>24. ASSUME NEW a \in Actors, ExitKill(a) PROVE Written'
  <2>0. own[a] \in Record
    BY <1>24 DEF ExitKill, Equipped, Working, Tail
  <2>1. rec'.pid = NoInst
    <3>1. Dead(own[a], "killed").pid = NoInst
      BY <2>0, DeadRecord DEF Status
    <3>2. QED
      BY <1>24, <3>1 DEF ExitKill, SetContainer
  <2>2. QED
    BY <1>24, <2>1 DEF ExitKill, CleanupResources, SetContainer, Goto, Written, Unnamed, Replacing, Actors
<1>25. ASSUME NEW a \in Actors, ExitRemove(a) PROVE Written'
  BY <1>25 DEF ExitRemove, Clobber, Intrudes, Finish, Goto, Written, Unnamed, Replacing, Actors
<1>26. ASSUME NEW a \in Actors, ExitWrite(a) PROVE Written'
  <2>0. own[a] \in Record
    BY <1>26 DEF ExitWrite, Equipped, Working, Tail
  <2>1. rec'.pid = NoInst
    <3>1. own[a].pid = NoInst
      BY <1>26 DEF ExitWrite, TailOwn
    <3>2. QED
      BY <1>26, <2>0, <3>1 DEF ExitWrite, Record
  <2>2. QED
    BY <1>26, <2>1 DEF ExitWrite, Finish, Goto, Written, Unnamed, Replacing, Actors
<1>27. ASSUME Tick PROVE Written'
  BY <1>27 DEF Tick, Running, Goto, Written, Unnamed, Replacing, Actors
<1>28. ASSUME RecoverTry PROVE Written'
  BY <1>28 DEF RecoverTry, Goto, Written, Unnamed, Replacing, Actors
<1>29. ASSUME RecoverRecheck PROVE Written'
  BY <1>29 DEF RecoverRecheck, Unneeded, Running, GiveUp, Finish, Goto, Written, Unnamed, Replacing, Actors, StopIsKept
<1>30. ASSUME RecoverKillOld PROVE Written'
  <2>9. \A b \in Actors : pc[b] \in Locked => b = Recovery
    BY <1>30, SoleHolder DEF RecoverKillOld, Locked, Actors
  <2>1. QED
    BY <1>30, <2>9 DEF RecoverKillOld, CleanupResources, Goto, Written, Unnamed, Replacing, Actors, Locked
<1>31. ASSUME RecoverStrays PROVE Written'
  BY <1>31 DEF RecoverStrays, Targets, Running, Goto, Written, Unnamed, Replacing, Actors
<1>32. ASSUME RecoverStrayWait PROVE Written'
  BY <1>32 DEF RecoverStrayWait, Goto, Written, Unnamed, Replacing, Actors
<1>33. ASSUME RecoverLatest PROVE Written'
  BY <1>33 DEF RecoverLatest, Unneeded, Running, GiveUp, CleanupResources, Finish, Goto, Written, Unnamed, Replacing, Actors
<1>34. ASSUME NEW i \in Insts, Exit(i) PROVE Written'
  BY <1>34 DEF Exit, Reap, Written, Unnamed, Replacing, Actors
<1>35. ASSUME NEW c \in CLIs, CLICrash(c) PROVE Written'
  BY <1>35 DEF CLICrash, Dies, Finish, Goto, Written, Unnamed, Replacing, Actors
<1>36. ASSUME DaemonCrash PROVE Written'
  BY <1>36 DEF DaemonCrash, Dies, Finish, Goto, Written, Unnamed, Replacing, Actors
<1>37. ASSUME DaemonStart PROVE Written'
  BY <1>37 DEF DaemonStart, Written, Unnamed, Replacing, Actors
<1>38. CASE UNCHANGED vars
  BY <1>38 DEF vars, Written
<1>39. QED
  BY <1>1, <1>2, <1>3, <1>4, <1>5, <1>6, <1>7, <1>8, <1>9, <1>10, <1>11, <1>12, <1>13, <1>14, <1>15, <1>16, <1>17, <1>18, <1>19, <1>20, <1>21, <1>22, <1>23, <1>24, <1>25, <1>26, <1>27, <1>28, <1>29, <1>30, <1>31, <1>32, <1>33, <1>34, <1>35, <1>36, <1>37, <1>38
     DEF Next, Command, Place, Recover, Environment

\* Every step keeps a completed stop on record.
LEMMA StopStep ==
  ASSUME Typed, TailStatus, Written, StopIsKept,
         ~clobbered, ~clobbered', [Next]_vars
  PROVE  StopIsKept'
<1> USE LifecycleAssumption DEF Typed, TypeOK, StopIsKept, procVars, localVars
<1>1. ASSUME NEW c \in CLIs, NEW o \in Ops, Start(c, o) PROVE StopIsKept'
  BY <1>1 DEF Start
<1>2. ASSUME NEW c \in CLIs, Acquire(c) PROVE StopIsKept'
  BY <1>2 DEF Acquire
<1>3. ASSUME NEW c \in CLIs, AcquireTimesOut(c) PROVE StopIsKept'
  BY <1>3 DEF AcquireTimesOut
<1>4. ASSUME NEW c \in CLIs, RunCheck(c) PROVE StopIsKept'
  BY <1>4 DEF RunCheck
<1>5. ASSUME NEW c \in CLIs, RunRefused(c) PROVE StopIsKept'
  BY <1>5 DEF RunRefused
<1>6. ASSUME NEW c \in CLIs, NEW m \in Modes, RunSet(c, m) PROVE StopIsKept'
  BY <1>6 DEF RunSet
<1>7. ASSUME NEW c \in CLIs, CommandRead(c) PROVE StopIsKept'
  BY <1>7 DEF CommandRead
<1>8. ASSUME NEW c \in CLIs, KillDead(c) PROVE StopIsKept'
  BY <1>8 DEF KillDead
<1>9. ASSUME NEW c \in CLIs, KillSignal(c) PROVE StopIsKept'
  BY <1>9 DEF KillSignal
<1>10. ASSUME NEW c \in CLIs, KillDone(c) PROVE StopIsKept'
  BY <1>10 DEF KillDone
<1>11. ASSUME NEW c \in CLIs, KillTimesOut(c) PROVE StopIsKept'
  BY <1>11 DEF KillTimesOut
<1>12. ASSUME NEW c \in CLIs, StopWrite(c) PROVE StopIsKept'
  <2>1. own[c] \in Record
    BY <1>12 DEF StopWrite, Equipped, Working, Actors
  <2>2. rec' = [own[c] EXCEPT !.status = "stop"]
    BY <1>12 DEF StopWrite
  <2>3. rec' \in Record /\ rec'.status = "stop"
    BY <2>1, <2>2 DEF Record, Status
  <2>4. QED
    BY <2>3, NoRecAssumption
<1>13. ASSUME NEW c \in CLIs, RmDeRun(c) PROVE StopIsKept'
  BY <1>13 DEF RmDeRun
<1>14. ASSUME NEW c \in CLIs, RmRemove(c) PROVE StopIsKept'
  BY <1>14 DEF RmRemove, Written, Replacing, Actors
<1>15. ASSUME NEW a \in Actors, Prepare(a) PROVE StopIsKept'
  BY <1>15 DEF Prepare, Written, Replacing, Actors
<1>16. ASSUME NEW a \in Actors, PrepareFails(a) PROVE StopIsKept'
  BY <1>16 DEF PrepareFails, Written, Replacing, Actors
<1>17. ASSUME NEW a \in Actors, Fork(a) PROVE StopIsKept'
  BY <1>17 DEF Fork
<1>18. ASSUME NEW a \in Actors, ForkFails(a) PROVE StopIsKept'
  BY <1>18 DEF ForkFails, Written, Replacing, Actors
<1>19. ASSUME NEW a \in Actors, Publish(a) PROVE StopIsKept'
  BY <1>19 DEF Publish, Written, Replacing, Actors
<1>20. ASSUME NEW a \in Actors, Provision(a) PROVE StopIsKept'
  <2>1. rec = own[a] /\ own[a].status # "stop"
    BY <1>20 DEF Provision, Clobber, Intrudes, TailStatus, Tail
  <2>2. QED
    BY <1>20, <2>1 DEF Provision
<1>21. ASSUME NEW a \in Actors, ProvisionFails(a) PROVE StopIsKept'
  <2>1. rec = own[a] /\ own[a].status # "stop"
    BY <1>21 DEF ProvisionFails, Clobber, Intrudes, TailStatus, Tail
  <2>2. QED
    BY <1>21, <2>1 DEF ProvisionFails
<1>22. ASSUME NEW a \in Actors, WaitReturns(a) PROVE StopIsKept'
  BY <1>22 DEF WaitReturns
<1>23. ASSUME NEW a \in Actors, ExitCleanup(a) PROVE StopIsKept'
  BY <1>23 DEF ExitCleanup
<1>24. ASSUME NEW a \in Actors, ExitKill(a) PROVE StopIsKept'
  <2>1. rec = own[a] /\ own[a].status # "stop"
    BY <1>24 DEF ExitKill, Clobber, Intrudes, TailStatus, Tail
  <2>2. QED
    BY <1>24, <2>1 DEF ExitKill
<1>25. ASSUME NEW a \in Actors, ExitRemove(a) PROVE StopIsKept'
  <2>1. rec = own[a] /\ own[a].status # "stop"
    BY <1>25 DEF ExitRemove, Clobber, Intrudes, TailStatus, Tail
  <2>2. QED
    BY <1>25, <2>1 DEF ExitRemove
<1>26. ASSUME NEW a \in Actors, ExitWrite(a) PROVE StopIsKept'
  <2>1. rec = own[a] /\ own[a].status # "stop"
    BY <1>26 DEF ExitWrite, Clobber, Intrudes, TailStatus, Tail
  <2>2. QED
    BY <1>26, <2>1 DEF ExitWrite
<1>27. ASSUME Tick PROVE StopIsKept'
  BY <1>27 DEF Tick
<1>28. ASSUME RecoverTry PROVE StopIsKept'
  BY <1>28 DEF RecoverTry
<1>29. ASSUME RecoverRecheck PROVE StopIsKept'
  BY <1>29 DEF RecoverRecheck
<1>30. ASSUME RecoverKillOld PROVE StopIsKept'
  BY <1>30 DEF RecoverKillOld, Written, Replacing, Actors
<1>31. ASSUME RecoverStrays PROVE StopIsKept'
  BY <1>31 DEF RecoverStrays
<1>32. ASSUME RecoverStrayWait PROVE StopIsKept'
  BY <1>32 DEF RecoverStrayWait
<1>33. ASSUME RecoverLatest PROVE StopIsKept'
  BY <1>33 DEF RecoverLatest
<1>34. ASSUME NEW i \in Insts, Exit(i) PROVE StopIsKept'
  BY <1>34 DEF Exit
<1>35. ASSUME NEW c \in CLIs, CLICrash(c) PROVE StopIsKept'
  BY <1>35 DEF CLICrash
<1>36. ASSUME DaemonCrash PROVE StopIsKept'
  BY <1>36 DEF DaemonCrash
<1>37. ASSUME DaemonStart PROVE StopIsKept'
  BY <1>37 DEF DaemonStart
<1>38. CASE UNCHANGED vars
  BY <1>38 DEF vars
<1>39. QED
  BY <1>1, <1>2, <1>3, <1>4, <1>5, <1>6, <1>7, <1>8, <1>9, <1>10, <1>11, <1>12, <1>13, <1>14, <1>15, <1>16, <1>17, <1>18, <1>19, <1>20, <1>21, <1>22, <1>23, <1>24, <1>25, <1>26, <1>27, <1>28, <1>29, <1>30, <1>31, <1>32, <1>33, <1>34, <1>35, <1>36, <1>37, <1>38
     DEF Next, Command, Place, Recover, Environment

\* No step tears down what a live container uses.
LEMMA ResourcesStep ==
  ASSUME Typed, LockHeld, TailOwn, OnRecord, HolderKnows, Written, ResourcesAreKept,
         ~clobbered, ~clobbered', [Next]_vars
  PROVE  ResourcesAreKept'
<1> USE LifecycleAssumption DEF Typed, TypeOK, ResourcesAreKept, procVars, localVars
<1>1. ASSUME NEW c \in CLIs, NEW o \in Ops, Start(c, o) PROVE ResourcesAreKept'
  BY <1>1 DEF Start, Dies, Reap, Goto, Finish
<1>2. ASSUME NEW c \in CLIs, Acquire(c) PROVE ResourcesAreKept'
  BY <1>2 DEF Acquire, Dies, Reap, Goto, Finish
<1>3. ASSUME NEW c \in CLIs, AcquireTimesOut(c) PROVE ResourcesAreKept'
  BY <1>3 DEF AcquireTimesOut, Dies, Reap, Goto, Finish
<1>4. ASSUME NEW c \in CLIs, RunCheck(c) PROVE ResourcesAreKept'
  BY <1>4 DEF RunCheck, Dies, Reap, Goto, Finish
<1>5. ASSUME NEW c \in CLIs, RunRefused(c) PROVE ResourcesAreKept'
  BY <1>5 DEF RunRefused, Dies, Reap, Goto, Finish
<1>6. ASSUME NEW c \in CLIs, NEW m \in Modes, RunSet(c, m) PROVE ResourcesAreKept'
  BY <1>6 DEF RunSet, Dies, Reap, Goto, Finish
<1>7. ASSUME NEW c \in CLIs, CommandRead(c) PROVE ResourcesAreKept'
  BY <1>7 DEF CommandRead, Dies, Reap, Goto, Finish
<1>8. ASSUME NEW c \in CLIs, KillDead(c) PROVE ResourcesAreKept'
  <2>1. \A i \in Unorphaned : rec # NoRec /\ i = rec.pid
    BY <1>8, HolderReads DEF KillDead, Locked, Actors
  <2>2. own[c] \in Record /\ own[c] # NoRec
    BY <1>8, NoRecAssumption DEF KillDead, Equipped, Working, Actors
  <2>3. own[c].pid \notin alive
    BY <1>8, <2>2 DEF KillDead, Running
  <2>4. Unorphaned = {}
    <3>1. CASE op[c] = "rerun"
      BY <1>8, <2>1, <2>3, <3>1 DEF KillDead, KillClobbers, Intrudes, Unorphaned
    <3>2. CASE op[c] # "rerun"
      BY <1>8, <2>3, <3>2 DEF KillDead, HolderKnows, Unorphaned, Actors
    <3>3. QED
      BY <3>1, <3>2
  <2>5. QED
    BY <1>8, <2>4 DEF KillDead, CleanupResources, Unorphaned
<1>9. ASSUME NEW c \in CLIs, KillSignal(c) PROVE ResourcesAreKept'
  BY <1>9 DEF KillSignal, Dies, Reap, Goto, Finish
<1>10. ASSUME NEW c \in CLIs, KillDone(c) PROVE ResourcesAreKept'
  <2>1. \A i \in Unorphaned : rec # NoRec /\ i = rec.pid
    BY <1>10, HolderReads DEF KillDone, Locked, Actors
  <2>2. own[c] \in Record /\ own[c] # NoRec
    BY <1>10, NoRecAssumption DEF KillDone, Equipped, Working, Actors
  <2>3. own[c].pid \notin alive
    BY <1>10, <2>2 DEF KillDone, Running
  <2>4. Unorphaned = {}
    <3>1. CASE op[c] = "rerun"
      BY <1>10, <2>1, <2>3, <3>1 DEF KillDone, KillClobbers, Intrudes, Unorphaned
    <3>2. CASE op[c] # "rerun"
      BY <1>10, <2>3, <3>2 DEF KillDone, HolderKnows, Unorphaned, Actors
    <3>3. QED
      BY <3>1, <3>2
  <2>5. QED
    BY <1>10, <2>4 DEF KillDone, CleanupResources, Unorphaned
<1>11. ASSUME NEW c \in CLIs, KillTimesOut(c) PROVE ResourcesAreKept'
  BY <1>11 DEF KillTimesOut, Dies, Reap, Goto, Finish
<1>12. ASSUME NEW c \in CLIs, StopWrite(c) PROVE ResourcesAreKept'
  BY <1>12 DEF StopWrite, Dies, Reap, Goto, Finish
<1>13. ASSUME NEW c \in CLIs, RmDeRun(c) PROVE ResourcesAreKept'
  <2>1. Unorphaned = {}
    BY <1>13 DEF RmDeRun, HolderKnows, Quiet, Actors
  <2>2. QED
    BY <1>13, <2>1 DEF RmDeRun, CleanupResources, Unorphaned
<1>14. ASSUME NEW c \in CLIs, RmRemove(c) PROVE ResourcesAreKept'
  BY <1>14 DEF RmRemove, Dies, Reap, Goto, Finish
<1>15. ASSUME NEW a \in Actors, Prepare(a) PROVE ResourcesAreKept'
  <2>1. Unorphaned = {}
    BY <1>15 DEF Prepare, HolderKnows, Quiet, Actors
  <2>2. QED
    BY <1>15, <2>1 DEF Prepare, CleanupResources, Unorphaned
<1>16. ASSUME NEW a \in Actors, PrepareFails(a) PROVE ResourcesAreKept'
  <2>1. Unorphaned = {}
    BY <1>16 DEF PrepareFails, HolderKnows, Quiet, Actors
  <2>2. QED
    BY <1>16, <2>1 DEF PrepareFails, CleanupResources, Unorphaned
<1>17. ASSUME NEW a \in Actors, Fork(a) PROVE ResourcesAreKept'
  BY <1>17 DEF Fork, Dies, Reap, Goto, Finish
<1>18. ASSUME NEW a \in Actors, ForkFails(a) PROVE ResourcesAreKept'
  BY <1>18 DEF ForkFails, Dies, Reap, Goto, Finish
<1>19. ASSUME NEW a \in Actors, Publish(a) PROVE ResourcesAreKept'
  BY <1>19 DEF Publish, Dies, Reap, Goto, Finish
<1>20. ASSUME NEW a \in Actors, Provision(a) PROVE ResourcesAreKept'
  BY <1>20 DEF Provision, Dies, Reap, Goto, Finish
<1>21. ASSUME NEW a \in Actors, ProvisionFails(a) PROVE ResourcesAreKept'
  BY <1>21 DEF ProvisionFails, Dies, Reap, Goto, Finish
<1>22. ASSUME NEW a \in Actors, WaitReturns(a) PROVE ResourcesAreKept'
  BY <1>22 DEF WaitReturns, Dies, Reap, Goto, Finish
<1>23. ASSUME NEW a \in Actors, ExitCleanup(a) PROVE ResourcesAreKept'
  <2>1. rec = own[a] /\ own[a] \in Record
    BY <1>23 DEF ExitCleanup, Clobber, Intrudes, Equipped, Working, Tail
  <2>2. rec.pid \in Insts /\ rec.pid \notin alive
    BY <1>23, <2>1 DEF ExitCleanup, TailOwn, Equipped, WithChild, Tail
  <2>3. \A b \in Actors : pc[b] # "publish"
    BY <2>1, <2>2, NoRecAssumption DEF Written, Unnamed
  <2>4. Unorphaned = {}
    BY <2>2, <2>3 DEF OnRecord, Unorphaned
  <2>5. QED
    BY <1>23, <2>4 DEF ExitCleanup, CleanupResources, Unorphaned
<1>24. ASSUME NEW a \in Actors, ExitKill(a) PROVE ResourcesAreKept'
  <2>1. rec = own[a] /\ own[a] \in Record
    BY <1>24 DEF ExitKill, Clobber, Intrudes, Equipped, Working, Tail
  <2>2. rec.pid \in Insts /\ rec.pid \notin alive
    BY <1>24, <2>1 DEF ExitKill, TailOwn, Equipped, WithChild, Tail
  <2>3. \A b \in Actors : pc[b] # "publish"
    BY <2>1, <2>2, NoRecAssumption DEF Written, Unnamed
  <2>4. Unorphaned = {}
    BY <2>2, <2>3 DEF OnRecord, Unorphaned
  <2>5. QED
    BY <1>24, <2>4 DEF ExitKill, CleanupResources, Unorphaned
<1>25. ASSUME NEW a \in Actors, ExitRemove(a) PROVE ResourcesAreKept'
  BY <1>25 DEF ExitRemove, Dies, Reap, Goto, Finish
<1>26. ASSUME NEW a \in Actors, ExitWrite(a) PROVE ResourcesAreKept'
  BY <1>26 DEF ExitWrite, Dies, Reap, Goto, Finish
<1>27. ASSUME Tick PROVE ResourcesAreKept'
  BY <1>27 DEF Tick, Dies, Reap, Goto, Finish
<1>28. ASSUME RecoverTry PROVE ResourcesAreKept'
  BY <1>28 DEF RecoverTry, Dies, Reap, Goto, Finish
<1>29. ASSUME RecoverRecheck PROVE ResourcesAreKept'
  BY <1>29 DEF RecoverRecheck, Dies, Reap, Goto, Finish
<1>30. ASSUME RecoverKillOld PROVE ResourcesAreKept'
  <2>1. Unorphaned = {}
    BY <1>30 DEF RecoverKillOld, HolderKnows, Quiet, Actors
  <2>2. QED
    BY <1>30, <2>1 DEF RecoverKillOld, CleanupResources, Unorphaned
<1>31. ASSUME RecoverStrays PROVE ResourcesAreKept'
  BY <1>31 DEF RecoverStrays, Dies, Reap, Goto, Finish
<1>32. ASSUME RecoverStrayWait PROVE ResourcesAreKept'
  BY <1>32 DEF RecoverStrayWait, Dies, Reap, Goto, Finish
<1>33. ASSUME RecoverLatest PROVE ResourcesAreKept'
  <2>1. Unorphaned = {}
    BY <1>33 DEF RecoverLatest, HolderKnows, Quiet, Actors
  <2>2. QED
    BY <1>33, <2>1 DEF RecoverLatest, CleanupResources, Unorphaned
<1>34. ASSUME NEW i \in Insts, Exit(i) PROVE ResourcesAreKept'
  BY <1>34 DEF Exit, Dies, Reap, Goto, Finish
<1>35. ASSUME NEW c \in CLIs, CLICrash(c) PROVE ResourcesAreKept'
  BY <1>35 DEF CLICrash, Dies, Reap, Goto, Finish
<1>36. ASSUME DaemonCrash PROVE ResourcesAreKept'
  BY <1>36 DEF DaemonCrash, Dies, Reap, Goto, Finish
<1>37. ASSUME DaemonStart PROVE ResourcesAreKept'
  BY <1>37 DEF DaemonStart, Dies, Reap, Goto, Finish
<1>38. CASE UNCHANGED vars
  BY <1>38 DEF vars
<1>39. QED
  BY <1>1, <1>2, <1>3, <1>4, <1>5, <1>6, <1>7, <1>8, <1>9, <1>10, <1>11, <1>12, <1>13, <1>14, <1>15, <1>16, <1>17, <1>18, <1>19, <1>20, <1>21, <1>22, <1>23, <1>24, <1>25, <1>26, <1>27, <1>28, <1>29, <1>30, <1>31, <1>32, <1>33, <1>34, <1>35, <1>36, <1>37, <1>38
     DEF Next, Command, Place, Recover, Environment

FullInv == Inv /\ TailStatus /\ Settled

\* The stronger inductive invariant holds in every behaviour.
THEOREM FullInvariance == Spec => []FullInv
<1>1. Init => FullInv
  <2>1. SUFFICES ASSUME Init PROVE TailStatus /\ Settled
    BY InvInit DEF FullInv
  <2>2. QED
    BY <2>1 DEF Init, TailStatus, Tail, Settled, Written, Unnamed, Replacing,
              StopIsKept, ResourcesAreKept
<1>2. FullInv /\ [Next]_vars => FullInv'
  <2>1. SUFFICES ASSUME FullInv, [Next]_vars PROVE FullInv'
    OBVIOUS
  <2>2. Typed /\ LockHeld /\ TailOwn /\ TailStatus
    BY <2>1 DEF FullInv, Inv, Typed
  <2>3. Inv' /\ TailStatus'
    BY <2>1, <2>2, InvStep, TailStatusStep DEF FullInv
  <2>4. ASSUME ~clobbered' PROVE (Written /\ StopIsKept /\ ResourcesAreKept)'
    <3>1. ~clobbered
      BY <2>1, <2>2, <2>4, ClobberedStays
    <3>2. /\ OnRecord /\ HolderKnows
          /\ Written /\ StopIsKept /\ ResourcesAreKept
      BY <2>1, <3>1 DEF FullInv, Inv, Guarded, Settled
    <3>3. Written'
      BY <2>1, <2>2, <2>4, <3>1, <3>2, WrittenStep
    <3>4. StopIsKept'
      BY <2>1, <2>2, <2>4, <3>1, <3>2, StopStep
    <3>5. ResourcesAreKept'
      BY <2>1, <2>2, <2>4, <3>1, <3>2, ResourcesStep
    <3>6. QED
      BY <3>3, <3>4, <3>5
  <2>5. QED
    BY <2>3, <2>4 DEF FullInv, Settled
<1>3. QED
  BY <1>1, <1>2, PTL DEF Spec

\* A completed stop is what the record says until the next command, so that
\* contRecover leaves the container down, as long as no writer has hit a record
\* not its own (stopContainer, contRecover).
THEOREM StopsStick == Spec => []StopSticks
<1>1. FullInv => StopSticks
  BY DEF FullInv, Settled, StopSticks
<1>2. QED
  BY <1>1, FullInvariance, PTL

\* Nobody tears down the mounts, links and console of a live container, as long
\* as no writer has hit a record not its own (CleanupResources).
THEOREM ResourcesStay == Spec => []ResourcesKept
<1>1. FullInv => ResourcesKept
  BY DEF FullInv, Settled, ResourcesKept
<1>2. QED
  BY <1>1, FullInvariance, PTL

-------------------------------------------------------------------------------
(* The processes of the daemon.                                            *)

\* No run of the name is given -rm, so that no record is removed but under the
\* lock.
NoneRemoves ==
    /\ rec # NoRec => rec.mode # "fgrm"
    /\ \A a \in Actors : own[a] # NoRec => own[a].mode # "fgrm"
    /\ \A a \in Actors : pc[a] # "fgremove"

\* What a recovery knows about the registry: the record it works from names no
\* process of the daemon, KillStrays has found them all, and they are gone when
\* it starts the next one.
RecoveryKnows ==
    /\ \A c \in CLIs : child[c] \notin registry
    /\ pc[Recovery] \in {"killold", "strays"} => rec # NoRec /\ rec.pid \notin registry
    /\ pc[Recovery] = "straywait" => registry \subseteq strays
    /\ pc[Recovery] \in {"latest", "prepare", "fork"} => registry = {}

DaemonInv == NoneRemoves /\ RecoveryKnows /\ DaemonRunsOne

\* Without -rm no record asks to be removed.
LEMMA NoneRemovesStep ==
  ASSUME Typed, "fgrm" \notin Modes, NoneRemoves, [Next]_vars
  PROVE  NoneRemoves'
<1> USE LifecycleAssumption, NoRecAssumption DEF Typed, TypeOK, procVars, localVars, Actors
<1>1. ASSUME NEW c \in CLIs, NEW o \in Ops, Start(c, o) PROVE NoneRemoves'
  BY <1>1 DEF Start, Goto, Settle, NoneRemoves, Equipped, Working, Tail, Record, Dead
<1>2. ASSUME NEW c \in CLIs, Acquire(c) PROVE NoneRemoves'
  BY <1>2 DEF Acquire, Goto, Entry, Op, Equipped, NoneRemoves, Equipped, Working, Tail, Record, Dead
<1>3. ASSUME NEW c \in CLIs, AcquireTimesOut(c) PROVE NoneRemoves'
  BY <1>3 DEF AcquireTimesOut, Finish, Goto, NoneRemoves, Equipped, Working, Tail, Record, Dead
<1>4. ASSUME NEW c \in CLIs, RunCheck(c) PROVE NoneRemoves'
  BY <1>4 DEF RunCheck, Finish, Goto, Settle, Running, NoneRemoves, Equipped, Working, Tail, Record, Dead
<1>5. ASSUME NEW c \in CLIs, RunRefused(c) PROVE NoneRemoves'
  BY <1>5 DEF RunRefused, Finish, Goto, NoneRemoves, Equipped, Working, Tail, Record, Dead
<1>6. ASSUME NEW c \in CLIs, NEW m \in Modes, RunSet(c, m) PROVE NoneRemoves'
  BY <1>6 DEF RunSet, SetContainer, Finish, Goto, NoneRemoves, Equipped, Working, Tail, Record, Dead
<1>7. ASSUME NEW c \in CLIs, CommandRead(c) PROVE NoneRemoves'
  BY <1>7 DEF CommandRead, Finish, Goto, Running, NoneRemoves, Equipped, Working, Tail, Record, Dead
<1>8. ASSUME NEW c \in CLIs, KillDead(c) PROVE NoneRemoves'
  <2>2. op[c] \in {"kill", "stop", "rerun"}
    BY <1>8 DEF KillDead, Equipped
  <2>3. CASE op[c] = "kill"
    BY <1>8, <2>3 DEF KillDead, CleanupResources, KillClobbers, Intrudes, AfterKill, Running, Goto, NoneRemoves, Equipped, Working, Tail, Record, Dead
  <2>4. CASE op[c] = "stop"
    BY <1>8, <2>4 DEF KillDead, CleanupResources, KillClobbers, Intrudes, AfterKill, Running, Goto, NoneRemoves, Equipped, Working, Tail, Record, Dead
  <2>5. CASE op[c] = "rerun"
    BY <1>8, <2>5 DEF KillDead, CleanupResources, KillClobbers, Intrudes, AfterKill, Running, Goto, NoneRemoves, Equipped, Working, Tail, Record, Dead
  <2>6. QED
    BY <2>2, <2>3, <2>4, <2>5
<1>9. ASSUME NEW c \in CLIs, KillSignal(c) PROVE NoneRemoves'
  BY <1>9 DEF KillSignal, Running, Goto, NoneRemoves, Equipped, Working, Tail, Record, Dead
<1>10. ASSUME NEW c \in CLIs, KillDone(c) PROVE NoneRemoves'
  <2>2. op[c] \in {"kill", "stop", "rerun"}
    BY <1>10 DEF KillDone, Equipped
  <2>3. CASE op[c] = "kill"
    BY <1>10, <2>3 DEF KillDone, CleanupResources, SetContainer, KillClobbers, Intrudes, AfterKill, Running, Goto, NoneRemoves, Equipped, Working, Tail, Record, Dead
  <2>4. CASE op[c] = "stop"
    BY <1>10, <2>4 DEF KillDone, CleanupResources, SetContainer, KillClobbers, Intrudes, AfterKill, Running, Goto, NoneRemoves, Equipped, Working, Tail, Record, Dead
  <2>5. CASE op[c] = "rerun"
    BY <1>10, <2>5 DEF KillDone, CleanupResources, SetContainer, KillClobbers, Intrudes, AfterKill, Running, Goto, NoneRemoves, Equipped, Working, Tail, Record, Dead
  <2>6. QED
    BY <2>2, <2>3, <2>4, <2>5
<1>11. ASSUME NEW c \in CLIs, KillTimesOut(c) PROVE NoneRemoves'
  BY <1>11 DEF KillTimesOut, Running, Finish, Goto, NoneRemoves, Equipped, Working, Tail, Record, Dead
<1>12. ASSUME NEW c \in CLIs, StopWrite(c) PROVE NoneRemoves'
  BY <1>12 DEF StopWrite, Finish, Goto, NoneRemoves, Equipped, Working, Tail, Record, Dead
<1>13. ASSUME NEW c \in CLIs, RmDeRun(c) PROVE NoneRemoves'
  BY <1>13 DEF RmDeRun, CleanupResources, Goto, NoneRemoves, Equipped, Working, Tail, Record, Dead
<1>14. ASSUME NEW c \in CLIs, RmRemove(c) PROVE NoneRemoves'
  BY <1>14 DEF RmRemove, Finish, Goto, NoneRemoves, Equipped, Working, Tail, Record, Dead
<1>15. ASSUME NEW a \in Actors, Prepare(a) PROVE NoneRemoves'
  BY <1>15 DEF Prepare, CleanupResources, SetContainer, Goto, NoneRemoves, Equipped, Working, Tail, Record, Dead
<1>16. ASSUME NEW a \in Actors, PrepareFails(a) PROVE NoneRemoves'
  BY <1>16 DEF PrepareFails, CleanupResources, Finish, Goto, NoneRemoves, Equipped, Working, Tail, Record, Dead
<1>17. ASSUME NEW a \in Actors, Fork(a) PROVE NoneRemoves'
  BY <1>17 DEF Fork, Fresh, Goto, NoneRemoves, Equipped, Working, Tail, Record, Dead
<1>18. ASSUME NEW a \in Actors, ForkFails(a) PROVE NoneRemoves'
  BY <1>18 DEF ForkFails, Finish, Goto, NoneRemoves, Equipped, Working, Tail, Record, Dead
<1>19. ASSUME NEW a \in Actors, Publish(a) PROVE NoneRemoves'
  BY <1>19 DEF Publish, SetContainer, Goto, NoneRemoves, Equipped, Working, Tail, Record, Dead
<1>20. ASSUME NEW a \in Actors, Provision(a) PROVE NoneRemoves'
  BY <1>20 DEF Provision, Clobber, Intrudes, Background, Finish, Goto, NoneRemoves, Equipped, Working, Tail, Record, Dead
<1>21. ASSUME NEW a \in Actors, ProvisionFails(a) PROVE NoneRemoves'
  <2>0. own[a] \in Record
    BY <1>21 DEF ProvisionFails, Equipped, Working, Tail
  <2>1. Dead(own[a], "err").mode = own[a].mode /\ Dead(own[a], "err") # NoRec
    BY <2>0 DEF Dead, Record, Status
  <2>2. QED
    BY <1>21, <2>0, <2>1 DEF ProvisionFails, Finish, Goto, NoneRemoves
<1>22. ASSUME NEW a \in Actors, WaitReturns(a) PROVE NoneRemoves'
  BY <1>22 DEF WaitReturns, Goto, NoneRemoves, Equipped, Working, Tail, Record, Dead
<1>23. ASSUME NEW a \in Actors, ExitCleanup(a) PROVE NoneRemoves'
  BY <1>23 DEF ExitCleanup, CleanupResources, Clobber, Intrudes, Goto, NoneRemoves, Equipped, Working, Tail, Record, Dead
<1>24. ASSUME NEW a \in Actors, ExitKill(a) PROVE NoneRemoves'
  BY <1>24 DEF ExitKill, CleanupResources, Clobber, Intrudes, SetContainer, Goto, NoneRemoves, Equipped, Working, Tail, Record, Dead
<1>25. ASSUME NEW a \in Actors, ExitRemove(a) PROVE NoneRemoves'
  BY <1>25 DEF ExitRemove, Clobber, Intrudes, Finish, Goto, NoneRemoves, Equipped, Working, Tail, Record, Dead
<1>26. ASSUME NEW a \in Actors, ExitWrite(a) PROVE NoneRemoves'
  BY <1>26 DEF ExitWrite, Clobber, Intrudes, Finish, Goto, NoneRemoves, Equipped, Working, Tail, Record, Dead
<1>27. ASSUME Tick PROVE NoneRemoves'
  BY <1>27 DEF Tick, Running, Goto, NoneRemoves, Equipped, Working, Tail, Record, Dead
<1>28. ASSUME RecoverTry PROVE NoneRemoves'
  BY <1>28 DEF RecoverTry, Goto, NoneRemoves, Equipped, Working, Tail, Record, Dead
<1>29. ASSUME RecoverRecheck PROVE NoneRemoves'
  BY <1>29 DEF RecoverRecheck, Unneeded, Running, GiveUp, Finish, Goto, NoneRemoves, Equipped, Working, Tail, Record, Dead
<1>30. ASSUME RecoverKillOld PROVE NoneRemoves'
  BY <1>30 DEF RecoverKillOld, CleanupResources, Goto, NoneRemoves, Equipped, Working, Tail, Record, Dead
<1>31. ASSUME RecoverStrays PROVE NoneRemoves'
  BY <1>31 DEF RecoverStrays, Targets, Running, Goto, NoneRemoves, Equipped, Working, Tail, Record, Dead
<1>32. ASSUME RecoverStrayWait PROVE NoneRemoves'
  BY <1>32 DEF RecoverStrayWait, Goto, NoneRemoves, Equipped, Working, Tail, Record, Dead
<1>33. ASSUME RecoverLatest PROVE NoneRemoves'
  BY <1>33 DEF RecoverLatest, Unneeded, Running, GiveUp, CleanupResources, Finish, Goto, NoneRemoves, Equipped, Working, Tail, Record, Dead
<1>34. ASSUME NEW i \in Insts, Exit(i) PROVE NoneRemoves'
  BY <1>34 DEF Exit, Reap, NoneRemoves, Equipped, Working, Tail, Record, Dead
<1>35. ASSUME NEW c \in CLIs, CLICrash(c) PROVE NoneRemoves'
  BY <1>35 DEF CLICrash, Dies, Finish, Goto, NoneRemoves, Equipped, Working, Tail, Record, Dead
<1>36. ASSUME DaemonCrash PROVE NoneRemoves'
  BY <1>36 DEF DaemonCrash, Dies, Finish, Goto, NoneRemoves, Equipped, Working, Tail, Record, Dead
<1>37. ASSUME DaemonStart PROVE NoneRemoves'
  BY <1>37 DEF DaemonStart, NoneRemoves, Equipped, Working, Tail, Record, Dead
<1>38. CASE UNCHANGED vars
  BY <1>38 DEF vars, procVars, localVars, NoneRemoves, Equipped, Working, Tail, Record, Dead
<1>39. QED
  BY <1>1, <1>2, <1>3, <1>4, <1>5, <1>6, <1>7, <1>8, <1>9, <1>10, <1>11, <1>12, <1>13, <1>14, <1>15, <1>16, <1>17, <1>18, <1>19, <1>20, <1>21, <1>22, <1>23, <1>24, <1>25, <1>26, <1>27, <1>28, <1>29, <1>30, <1>31, <1>32, <1>33, <1>34, <1>35, <1>36, <1>37, <1>38
     DEF Next, Command, Place, Recover, Environment

\* KillStrays leaves no process of the daemon behind.
LEMMA RecoveryKnowsStep ==
  ASSUME Typed, LockHeld, TailOwn, NoneRemoves, RecoveryKnows, ~MayHang, [Next]_vars
  PROVE  RecoveryKnows'
<1> USE LifecycleAssumption, NoRecAssumption DEF Typed, TypeOK, procVars, localVars, Actors
<1>1. ASSUME NEW c \in CLIs, NEW o \in Ops, Start(c, o) PROVE RecoveryKnows'
  BY <1>1 DEF Start, Goto, Settle, RecoveryKnows, NoneRemoves, LockHeld, Locked, TailOwn, Equipped, Working, WithChild, Tail, Dead
<1>2. ASSUME NEW c \in CLIs, Acquire(c) PROVE RecoveryKnows'
  BY <1>2 DEF Acquire, Goto, Entry, Op, Equipped, RecoveryKnows, NoneRemoves, LockHeld, Locked, TailOwn, Equipped, Working, WithChild, Tail, Dead
<1>3. ASSUME NEW c \in CLIs, AcquireTimesOut(c) PROVE RecoveryKnows'
  BY <1>3 DEF AcquireTimesOut, Finish, Goto, RecoveryKnows, NoneRemoves, LockHeld, Locked, TailOwn, Equipped, Working, WithChild, Tail, Dead
<1>4. ASSUME NEW c \in CLIs, RunCheck(c) PROVE RecoveryKnows'
  BY <1>4 DEF RunCheck, Finish, Goto, Settle, Running, RecoveryKnows, NoneRemoves, LockHeld, Locked, TailOwn, Equipped, Working, WithChild, Tail, Dead
<1>5. ASSUME NEW c \in CLIs, RunRefused(c) PROVE RecoveryKnows'
  BY <1>5 DEF RunRefused, Finish, Goto, RecoveryKnows, NoneRemoves, LockHeld, Locked, TailOwn, Equipped, Working, WithChild, Tail, Dead
<1>6. ASSUME NEW c \in CLIs, NEW m \in Modes, RunSet(c, m) PROVE RecoveryKnows'
  BY <1>6 DEF RunSet, SetContainer, Finish, Goto, RecoveryKnows, NoneRemoves, LockHeld, Locked, TailOwn, Equipped, Working, WithChild, Tail, Dead
<1>7. ASSUME NEW c \in CLIs, CommandRead(c) PROVE RecoveryKnows'
  BY <1>7 DEF CommandRead, Finish, Goto, Running, RecoveryKnows, NoneRemoves, LockHeld, Locked, TailOwn, Equipped, Working, WithChild, Tail, Dead
<1>8. ASSUME NEW c \in CLIs, KillDead(c) PROVE RecoveryKnows'
  <2>2. op[c] \in {"kill", "stop", "rerun"}
    BY <1>8 DEF KillDead, Equipped
  <2>3. CASE op[c] = "kill"
    BY <1>8, <2>3 DEF KillDead, CleanupResources, KillClobbers, Intrudes, AfterKill, Running, Goto, RecoveryKnows, NoneRemoves, LockHeld, Locked, TailOwn, Equipped, Working, WithChild, Tail, Dead
  <2>4. CASE op[c] = "stop"
    BY <1>8, <2>4 DEF KillDead, CleanupResources, KillClobbers, Intrudes, AfterKill, Running, Goto, RecoveryKnows, NoneRemoves, LockHeld, Locked, TailOwn, Equipped, Working, WithChild, Tail, Dead
  <2>5. CASE op[c] = "rerun"
    BY <1>8, <2>5 DEF KillDead, CleanupResources, KillClobbers, Intrudes, AfterKill, Running, Goto, RecoveryKnows, NoneRemoves, LockHeld, Locked, TailOwn, Equipped, Working, WithChild, Tail, Dead
  <2>6. QED
    BY <2>2, <2>3, <2>4, <2>5
<1>9. ASSUME NEW c \in CLIs, KillSignal(c) PROVE RecoveryKnows'
  BY <1>9 DEF KillSignal, Running, Goto, RecoveryKnows, NoneRemoves, LockHeld, Locked, TailOwn, Equipped, Working, WithChild, Tail, Dead
<1>10. ASSUME NEW c \in CLIs, KillDone(c) PROVE RecoveryKnows'
  <2>2. op[c] \in {"kill", "stop", "rerun"}
    BY <1>10 DEF KillDone, Equipped
  <2>3. CASE op[c] = "kill"
    BY <1>10, <2>3 DEF KillDone, CleanupResources, SetContainer, KillClobbers, Intrudes, AfterKill, Running, Goto, RecoveryKnows, NoneRemoves, LockHeld, Locked, TailOwn, Equipped, Working, WithChild, Tail, Dead
  <2>4. CASE op[c] = "stop"
    BY <1>10, <2>4 DEF KillDone, CleanupResources, SetContainer, KillClobbers, Intrudes, AfterKill, Running, Goto, RecoveryKnows, NoneRemoves, LockHeld, Locked, TailOwn, Equipped, Working, WithChild, Tail, Dead
  <2>5. CASE op[c] = "rerun"
    BY <1>10, <2>5 DEF KillDone, CleanupResources, SetContainer, KillClobbers, Intrudes, AfterKill, Running, Goto, RecoveryKnows, NoneRemoves, LockHeld, Locked, TailOwn, Equipped, Working, WithChild, Tail, Dead
  <2>6. QED
    BY <2>2, <2>3, <2>4, <2>5
<1>11. ASSUME NEW c \in CLIs, KillTimesOut(c) PROVE RecoveryKnows'
  BY <1>11 DEF KillTimesOut, Running, Finish, Goto, RecoveryKnows, NoneRemoves, LockHeld, Locked, TailOwn, Equipped, Working, WithChild, Tail, Dead
<1>12. ASSUME NEW c \in CLIs, StopWrite(c) PROVE RecoveryKnows'
  BY <1>12 DEF StopWrite, Finish, Goto, RecoveryKnows, NoneRemoves, LockHeld, Locked, TailOwn, Equipped, Working, WithChild, Tail, Dead
<1>13. ASSUME NEW c \in CLIs, RmDeRun(c) PROVE RecoveryKnows'
  BY <1>13 DEF RmDeRun, CleanupResources, Goto, RecoveryKnows, NoneRemoves, LockHeld, Locked, TailOwn, Equipped, Working, WithChild, Tail, Dead
<1>14. ASSUME NEW c \in CLIs, RmRemove(c) PROVE RecoveryKnows'
  BY <1>14 DEF RmRemove, Finish, Goto, RecoveryKnows, NoneRemoves, LockHeld, Locked, TailOwn, Equipped, Working, WithChild, Tail, Dead
<1>15. ASSUME NEW a \in Actors, Prepare(a) PROVE RecoveryKnows'
  BY <1>15 DEF Prepare, CleanupResources, SetContainer, Goto, RecoveryKnows, NoneRemoves, LockHeld, Locked, TailOwn, Equipped, Working, WithChild, Tail, Dead
<1>16. ASSUME NEW a \in Actors, PrepareFails(a) PROVE RecoveryKnows'
  BY <1>16 DEF PrepareFails, CleanupResources, Finish, Goto, RecoveryKnows, NoneRemoves, LockHeld, Locked, TailOwn, Equipped, Working, WithChild, Tail, Dead
<1>17. ASSUME NEW a \in Actors, Fork(a) PROVE RecoveryKnows'
  BY <1>17 DEF Fork, Fresh, Goto, RecoveryKnows, NoneRemoves, LockHeld, Locked, TailOwn, Equipped, Working, WithChild, Tail, Dead
<1>18. ASSUME NEW a \in Actors, ForkFails(a) PROVE RecoveryKnows'
  BY <1>18 DEF ForkFails, Finish, Goto, RecoveryKnows, NoneRemoves, LockHeld, Locked, TailOwn, Equipped, Working, WithChild, Tail, Dead
<1>19. ASSUME NEW a \in Actors, Publish(a) PROVE RecoveryKnows'
  BY <1>19 DEF Publish, SetContainer, Goto, RecoveryKnows, NoneRemoves, LockHeld, Locked, TailOwn, Equipped, Working, WithChild, Tail, Dead
<1>20. ASSUME NEW a \in Actors, Provision(a) PROVE RecoveryKnows'
  BY <1>20 DEF Provision, Clobber, Intrudes, Background, Finish, Goto, RecoveryKnows, NoneRemoves, LockHeld, Locked, TailOwn, Equipped, Working, WithChild, Tail, Dead
<1>21. ASSUME NEW a \in Actors, ProvisionFails(a) PROVE RecoveryKnows'
  <2>0. own[a] \in Record
    BY <1>21 DEF ProvisionFails, Equipped, Working, Tail
  <2>1. Dead(own[a], "err").pid = NoInst /\ Dead(own[a], "err") # NoRec
    BY <2>0 DEF Dead, Record, Status
  <2>2. QED
    BY <1>21, <2>0, <2>1 DEF ProvisionFails, Reap, Finish, Goto, RecoveryKnows
<1>22. ASSUME NEW a \in Actors, WaitReturns(a) PROVE RecoveryKnows'
  BY <1>22 DEF WaitReturns, Goto, RecoveryKnows, NoneRemoves, LockHeld, Locked, TailOwn, Equipped, Working, WithChild, Tail, Dead
<1>23. ASSUME NEW a \in Actors, ExitCleanup(a) PROVE RecoveryKnows'
  BY <1>23 DEF ExitCleanup, CleanupResources, Clobber, Intrudes, Goto, RecoveryKnows, NoneRemoves, LockHeld, Locked, TailOwn, Equipped, Working, WithChild, Tail, Dead
<1>24. ASSUME NEW a \in Actors, ExitKill(a) PROVE RecoveryKnows'
  <2>0. own[a] \in Record /\ own[a].mode # "fgrm"
    BY <1>24 DEF ExitKill, Equipped, Working, Tail, NoneRemoves
  <2>1. Dead(own[a], "killed").pid = NoInst /\ Dead(own[a], "killed") # NoRec
    BY <2>0 DEF Dead, Record, Status
  <2>2. QED
    BY <1>24, <2>0, <2>1 DEF ExitKill, SetContainer, Goto, RecoveryKnows
<1>25. ASSUME NEW a \in Actors, ExitRemove(a) PROVE RecoveryKnows'
  BY <1>25 DEF ExitRemove, Clobber, Intrudes, Finish, Goto, RecoveryKnows, NoneRemoves, LockHeld, Locked, TailOwn, Equipped, Working, WithChild, Tail, Dead
<1>26. ASSUME NEW a \in Actors, ExitWrite(a) PROVE RecoveryKnows'
  <2>0. own[a] \in Record /\ own[a].pid = NoInst
    BY <1>26 DEF ExitWrite, Equipped, Working, Tail, TailOwn
  <2>1. rec' # NoRec /\ rec'.pid = NoInst
    BY <1>26, <2>0 DEF ExitWrite, Record, Status
  <2>2. QED
    BY <1>26, <2>1 DEF ExitWrite, Finish, Goto, RecoveryKnows
<1>27. ASSUME Tick PROVE RecoveryKnows'
  BY <1>27 DEF Tick, Running, Goto, RecoveryKnows, NoneRemoves, LockHeld, Locked, TailOwn, Equipped, Working, WithChild, Tail, Dead
<1>28. ASSUME RecoverTry PROVE RecoveryKnows'
  BY <1>28 DEF RecoverTry, Goto, RecoveryKnows, NoneRemoves, LockHeld, Locked, TailOwn, Equipped, Working, WithChild, Tail, Dead
<1>29. ASSUME RecoverRecheck PROVE RecoveryKnows'
  BY <1>29 DEF RecoverRecheck, Unneeded, Running, GiveUp, Finish, Goto, RecoveryKnows, NoneRemoves, LockHeld, Locked, TailOwn, Equipped, Working, WithChild, Tail, Dead
<1>30. ASSUME RecoverKillOld PROVE RecoveryKnows'
  <2>0. own[Recovery] \in Record
    BY <1>30 DEF RecoverKillOld, Equipped, Working
  <2>1. Dead(own[Recovery], "killed").pid = NoInst /\ Dead(own[Recovery], "killed") # NoRec
    BY <2>0 DEF Dead, Record, Status
  <2>2. QED
    BY <1>30, <2>1 DEF RecoverKillOld, Goto, RecoveryKnows
<1>31. ASSUME RecoverStrays PROVE RecoveryKnows'
  BY <1>31 DEF RecoverStrays, Targets, Running, Goto, RecoveryKnows, NoneRemoves, LockHeld, Locked, TailOwn, Equipped, Working, WithChild, Tail, Dead
<1>32. ASSUME RecoverStrayWait PROVE RecoveryKnows'
  BY <1>32 DEF RecoverStrayWait, Goto, RecoveryKnows, NoneRemoves, LockHeld, Locked, TailOwn, Equipped, Working, WithChild, Tail, Dead
<1>33. ASSUME RecoverLatest PROVE RecoveryKnows'
  BY <1>33 DEF RecoverLatest, Unneeded, Running, GiveUp, CleanupResources, Finish, Goto, RecoveryKnows, NoneRemoves, LockHeld, Locked, TailOwn, Equipped, Working, WithChild, Tail, Dead
<1>34. ASSUME NEW i \in Insts, Exit(i) PROVE RecoveryKnows'
  BY <1>34 DEF Exit, Reap, RecoveryKnows, NoneRemoves, LockHeld, Locked, TailOwn, Equipped, Working, WithChild, Tail, Dead
<1>35. ASSUME NEW c \in CLIs, CLICrash(c) PROVE RecoveryKnows'
  BY <1>35 DEF CLICrash, Dies, Finish, Goto, RecoveryKnows, NoneRemoves, LockHeld, Locked, TailOwn, Equipped, Working, WithChild, Tail, Dead
<1>36. ASSUME DaemonCrash PROVE RecoveryKnows'
  BY <1>36 DEF DaemonCrash, Dies, Finish, Goto, RecoveryKnows, NoneRemoves, LockHeld, Locked, TailOwn, Equipped, Working, WithChild, Tail, Dead
<1>37. ASSUME DaemonStart PROVE RecoveryKnows'
  BY <1>37 DEF DaemonStart, RecoveryKnows, NoneRemoves, LockHeld, Locked, TailOwn, Equipped, Working, WithChild, Tail, Dead
<1>38. CASE UNCHANGED vars
  BY <1>38 DEF vars, procVars, localVars, RecoveryKnows, NoneRemoves, LockHeld, Locked, TailOwn, Equipped, Working, WithChild, Tail, Dead
<1>39. QED
  BY <1>1, <1>2, <1>3, <1>4, <1>5, <1>6, <1>7, <1>8, <1>9, <1>10, <1>11, <1>12, <1>13, <1>14, <1>15, <1>16, <1>17, <1>18, <1>19, <1>20, <1>21, <1>22, <1>23, <1>24, <1>25, <1>26, <1>27, <1>28, <1>29, <1>30, <1>31, <1>32, <1>33, <1>34, <1>35, <1>36, <1>37, <1>38
     DEF Next, Command, Place, Recover, Environment

\* A recovery that starts a process has found the daemon without one.
LEMMA DaemonRunsOneStep ==
  ASSUME Typed, RecoveryKnows, DaemonRunsOne, [Next]_vars
  PROVE  DaemonRunsOne'
<1> USE LifecycleAssumption DEF procVars, localVars
<1>1. ASSUME NEW c \in CLIs, NEW o \in Ops, Start(c, o) PROVE DaemonRunsOne'
  BY <1>1 DEF Start, Goto, Settle, RecoveryKnows, DaemonRunsOne
<1>2. ASSUME NEW c \in CLIs, Acquire(c) PROVE DaemonRunsOne'
  BY <1>2 DEF Acquire, Goto, Entry, Op, Equipped, RecoveryKnows, DaemonRunsOne
<1>3. ASSUME NEW c \in CLIs, AcquireTimesOut(c) PROVE DaemonRunsOne'
  BY <1>3 DEF AcquireTimesOut, Finish, Goto, RecoveryKnows, DaemonRunsOne
<1>4. ASSUME NEW c \in CLIs, RunCheck(c) PROVE DaemonRunsOne'
  BY <1>4 DEF RunCheck, Finish, Goto, Settle, Running, RecoveryKnows, DaemonRunsOne
<1>5. ASSUME NEW c \in CLIs, RunRefused(c) PROVE DaemonRunsOne'
  BY <1>5 DEF RunRefused, Finish, Goto, RecoveryKnows, DaemonRunsOne
<1>6. ASSUME NEW c \in CLIs, NEW m \in Modes, RunSet(c, m) PROVE DaemonRunsOne'
  BY <1>6 DEF RunSet, SetContainer, Finish, Goto, RecoveryKnows, DaemonRunsOne
<1>7. ASSUME NEW c \in CLIs, CommandRead(c) PROVE DaemonRunsOne'
  BY <1>7 DEF CommandRead, Finish, Goto, Running, RecoveryKnows, DaemonRunsOne
<1>8. ASSUME NEW c \in CLIs, KillDead(c) PROVE DaemonRunsOne'
  BY <1>8 DEF KillDead, DaemonRunsOne
<1>9. ASSUME NEW c \in CLIs, KillSignal(c) PROVE DaemonRunsOne'
  BY <1>9 DEF KillSignal, Running, Goto, RecoveryKnows, DaemonRunsOne
<1>10. ASSUME NEW c \in CLIs, KillDone(c) PROVE DaemonRunsOne'
  BY <1>10 DEF KillDone, DaemonRunsOne
<1>11. ASSUME NEW c \in CLIs, KillTimesOut(c) PROVE DaemonRunsOne'
  BY <1>11 DEF KillTimesOut, Running, Finish, Goto, RecoveryKnows, DaemonRunsOne
<1>12. ASSUME NEW c \in CLIs, StopWrite(c) PROVE DaemonRunsOne'
  BY <1>12 DEF StopWrite, Finish, Goto, RecoveryKnows, DaemonRunsOne
<1>13. ASSUME NEW c \in CLIs, RmDeRun(c) PROVE DaemonRunsOne'
  BY <1>13 DEF RmDeRun, CleanupResources, Goto, RecoveryKnows, DaemonRunsOne
<1>14. ASSUME NEW c \in CLIs, RmRemove(c) PROVE DaemonRunsOne'
  BY <1>14 DEF RmRemove, Finish, Goto, RecoveryKnows, DaemonRunsOne
<1>15. ASSUME NEW a \in Actors, Prepare(a) PROVE DaemonRunsOne'
  BY <1>15 DEF Prepare, CleanupResources, SetContainer, Goto, RecoveryKnows, DaemonRunsOne
<1>16. ASSUME NEW a \in Actors, PrepareFails(a) PROVE DaemonRunsOne'
  BY <1>16 DEF PrepareFails, CleanupResources, Finish, Goto, RecoveryKnows, DaemonRunsOne
<1>17. ASSUME NEW a \in Actors, Fork(a) PROVE DaemonRunsOne'
  BY <1>17 DEF Fork, Fresh, Goto, RecoveryKnows, DaemonRunsOne
<1>18. ASSUME NEW a \in Actors, ForkFails(a) PROVE DaemonRunsOne'
  BY <1>18 DEF ForkFails, Finish, Goto, RecoveryKnows, DaemonRunsOne
<1>19. ASSUME NEW a \in Actors, Publish(a) PROVE DaemonRunsOne'
  BY <1>19 DEF Publish, SetContainer, Goto, RecoveryKnows, DaemonRunsOne
<1>20. ASSUME NEW a \in Actors, Provision(a) PROVE DaemonRunsOne'
  BY <1>20 DEF Provision, Clobber, Intrudes, Background, Finish, Goto, RecoveryKnows, DaemonRunsOne
<1>21. ASSUME NEW a \in Actors, ProvisionFails(a) PROVE DaemonRunsOne'
  BY <1>21 DEF ProvisionFails, Reap, Clobber, Intrudes, Finish, Goto, RecoveryKnows, DaemonRunsOne
<1>22. ASSUME NEW a \in Actors, WaitReturns(a) PROVE DaemonRunsOne'
  BY <1>22 DEF WaitReturns, Goto, RecoveryKnows, DaemonRunsOne
<1>23. ASSUME NEW a \in Actors, ExitCleanup(a) PROVE DaemonRunsOne'
  BY <1>23 DEF ExitCleanup, CleanupResources, Clobber, Intrudes, Goto, RecoveryKnows, DaemonRunsOne
<1>24. ASSUME NEW a \in Actors, ExitKill(a) PROVE DaemonRunsOne'
  BY <1>24 DEF ExitKill, CleanupResources, Clobber, Intrudes, SetContainer, Goto, RecoveryKnows, DaemonRunsOne
<1>25. ASSUME NEW a \in Actors, ExitRemove(a) PROVE DaemonRunsOne'
  BY <1>25 DEF ExitRemove, Clobber, Intrudes, Finish, Goto, RecoveryKnows, DaemonRunsOne
<1>26. ASSUME NEW a \in Actors, ExitWrite(a) PROVE DaemonRunsOne'
  BY <1>26 DEF ExitWrite, Clobber, Intrudes, Finish, Goto, RecoveryKnows, DaemonRunsOne
<1>27. ASSUME Tick PROVE DaemonRunsOne'
  BY <1>27 DEF Tick, Running, Goto, RecoveryKnows, DaemonRunsOne
<1>28. ASSUME RecoverTry PROVE DaemonRunsOne'
  BY <1>28 DEF RecoverTry, Goto, RecoveryKnows, DaemonRunsOne
<1>29. ASSUME RecoverRecheck PROVE DaemonRunsOne'
  BY <1>29 DEF RecoverRecheck, Unneeded, Running, GiveUp, Finish, Goto, RecoveryKnows, DaemonRunsOne
<1>30. ASSUME RecoverKillOld PROVE DaemonRunsOne'
  BY <1>30 DEF RecoverKillOld, CleanupResources, Goto, RecoveryKnows, DaemonRunsOne
<1>31. ASSUME RecoverStrays PROVE DaemonRunsOne'
  BY <1>31 DEF RecoverStrays, Targets, Running, Goto, RecoveryKnows, DaemonRunsOne
<1>32. ASSUME RecoverStrayWait PROVE DaemonRunsOne'
  BY <1>32 DEF RecoverStrayWait, Goto, RecoveryKnows, DaemonRunsOne
<1>33. ASSUME RecoverLatest PROVE DaemonRunsOne'
  BY <1>33 DEF RecoverLatest, Unneeded, Running, GiveUp, CleanupResources, Finish, Goto, RecoveryKnows, DaemonRunsOne
<1>34. ASSUME NEW i \in Insts, Exit(i) PROVE DaemonRunsOne'
  BY <1>34 DEF Exit, Reap, RecoveryKnows, DaemonRunsOne
<1>35. ASSUME NEW c \in CLIs, CLICrash(c) PROVE DaemonRunsOne'
  BY <1>35 DEF CLICrash, Dies, Finish, Goto, RecoveryKnows, DaemonRunsOne
<1>36. ASSUME DaemonCrash PROVE DaemonRunsOne'
  BY <1>36 DEF DaemonCrash, Dies, Finish, Goto, RecoveryKnows, DaemonRunsOne
<1>37. ASSUME DaemonStart PROVE DaemonRunsOne'
  BY <1>37 DEF DaemonStart, RecoveryKnows, DaemonRunsOne
<1>38. CASE UNCHANGED vars
  BY <1>38 DEF vars, procVars, localVars, RecoveryKnows, DaemonRunsOne
<1>39. QED
  BY <1>1, <1>2, <1>3, <1>4, <1>5, <1>6, <1>7, <1>8, <1>9, <1>10, <1>11, <1>12, <1>13, <1>14, <1>15, <1>16, <1>17, <1>18, <1>19, <1>20, <1>21, <1>22, <1>23, <1>24, <1>25, <1>26, <1>27, <1>28, <1>29, <1>30, <1>31, <1>32, <1>33, <1>34, <1>35, <1>36, <1>37, <1>38
     DEF Next, Command, Place, Recover, Environment

\* Of the processes it started the daemon never has two alive, however many
\* commands, crashes and failures there are and whatever they write to the record
\* (contRecover, KillStrays).  The two hypotheses are what KillStrays depends on:
\* it gives up on a process that survives its SIGKILL, and it checks nothing while
\* the record is away, which only the removal at the end of a -rm run can do
\* behind its back.
THEOREM DaemonHasOne ==
  ASSUME ~MayHang, "fgrm" \notin Modes
  PROVE  Spec => []DaemonRunsOne
<1>1. Init => Inv /\ DaemonInv
  <2>1. SUFFICES ASSUME Init PROVE DaemonInv
    BY InvInit
  <2>2. QED
    BY <2>1, LifecycleAssumption DEF Init, DaemonInv, NoneRemoves, RecoveryKnows, DaemonRunsOne, Actors
<1>2. Inv /\ DaemonInv /\ [Next]_vars => (Inv /\ DaemonInv)'
  <2>1. SUFFICES ASSUME Inv, DaemonInv, [Next]_vars PROVE Inv' /\ DaemonInv'
    OBVIOUS
  <2>2. Typed /\ LockHeld /\ TailOwn /\ NoneRemoves /\ RecoveryKnows /\ DaemonRunsOne
    BY <2>1 DEF Inv, Typed, DaemonInv
  <2>3. QED
    BY <2>1, <2>2, InvStep, NoneRemovesStep, RecoveryKnowsStep, DaemonRunsOneStep DEF DaemonInv
<1>3. DaemonInv => DaemonRunsOne
  BY DEF DaemonInv
<1>4. QED
  BY <1>1, <1>2, <1>3, PTL DEF Spec

===============================================================================
