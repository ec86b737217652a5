--------------------------- MODULE VMLifecycleProofs --------------------------
(***************************************************************************)
(* Theorems about VMLifecycle: one VM of a name, on record, a stop that is *)
(* kept, and no record that comes back but by a run.                       *)
(***************************************************************************)
EXTENDS VMLifecycle, TLAPS

\* Points at which an actor has the lock, works on a Config, has a child, and
\* at which a CLI process is, or is about to be, the VMM of its own run.
Locked == {"check", "prepare", "place", "publish", "await", "waitexit", "fgrecord",
           "read", "kill", "killwait", "killwait9", "stopwrite", "remove",
           "recheck", "killold", "latest"}
Working == {"check", "prepare", "place", "publish", "await", "waitexit", "vm",
            "fgexit", "fgrecord", "kill", "killwait", "killwait9", "stopwrite",
            "remove", "killold"}
WithChild == {"publish", "await", "waitexit"}
OwnRun == {"check", "prepare", "place", "vm", "fgexit", "fgrecord"}
Killing == {"kill", "killwait", "killwait9"}
CLIOnly == Killing \cup {"stopwrite", "remove", "vm", "fgexit", "fgrecord", "placed",
                         "read", "done"}
RecoveryOnly == {"try", "recheck", "killold", "latest"}

\* The Config and the child that a step uses exist, and the command is one that
\* gets there.
Equipped ==
    \A a \in Actors :
        /\ pc[a] \in Working => own[a] \in Record
        /\ pc[a] \in WithChild => child[a] \in Insts
        /\ pc[a] = "acquire" => op[a] \in Op /\ (op[a] = "run" => own[a] \in Record)
        /\ a # Recovery => pc[a] \notin RecoveryOnly
        /\ a = Recovery => pc[a] \notin CLIOnly
        /\ a = Recovery /\ pc[a] = "acquire" => op[a] = "run"
        /\ a = Recovery /\ pc[a] \in {"acquire", "check"} => own[a].status # "stop"
        /\ a # Recovery /\ (pc[a] \in OwnRun \/ (pc[a] = "acquire" /\ op[a] = "run"))
             => own[a].pid = a
        /\ pc[a] = "stopwrite" => own[a].pid = NoPid

\* The lock is held where the code is between acquiring and releasing it.
LockHeld ==
    /\ \A a \in Actors : lock = a <=> pc[a] \in Locked
    /\ \A i \in Insts : lock = i <=> vmm[i] = "record"
    /\ \A i \in Insts : wpc[i] \in {"lread", "lwrite"} => lock = Waiter
    /\ \A i, j \in Insts : wpc[i] \in {"lread", "lwrite"} /\ wpc[j] \in {"lread", "lwrite"}
         => i = j

\* A VMM has one parent that places it; a wait goroutine has a Config, and has
\* seen its VMM dead once it is past the wait.
Forked ==
    /\ \A a, b \in Actors : child[a] = child[b] /\ child[a] # NoPid => a = b
    /\ \A a \in Actors : pc[a] = "publish" => wpc[child[a]] = "none"
    /\ \A i \in Insts :
         /\ wpc[i] \notin {"none", "done"} => wread[i] \in Record /\ wread[i].pid = i
         /\ wpc[i] \notin {"none", "wait"} => vmm[i] = "none"

\* VMs of the name that nobody has lost: forked VMMs that are to boot or have
\* booted, and foreground runs until they have recorded their end.
Present == ({i \in Insts : vmm[i] \in {"start", "boot", "up"}}
              \cup {c \in CLIs : pc[c] \in {"vm", "fgexit", "fgrecord"}}) \ orphans

\* The VM present is the one on record, or about to be published.
OnRecord ==
    \A p \in Present :
        \/ rec # NoRec /\ rec.pid = p
        \/ \E a \in Actors : pc[a] = "publish" /\ child[a] = p

\* A wait goroutine that is about to write the record under a lock, its own or
\* that of the actor that places the VMM.
Writes(i) == wpc[i] = "lwrite" \/ (wpc[i] = "write" /\ Placing(i))

\* What the holder of the lock knows.
HolderKnows ==
    /\ \A a \in Actors :
         /\ pc[a] \in {"prepare", "place", "remove", "stopwrite", "killold", "latest"}
              => Present = {}
         /\ pc[a] = "publish" => Present \subseteq {child[a]}
         /\ pc[a] \in Killing => Present \subseteq {own[a].pid}
         /\ pc[a] \in Killing \cup {"stopwrite", "killold"} => rec # NoRec
         /\ pc[a] \in {"await", "waitexit"} => rec = NoRec \/ rec.pid = child[a]
    /\ \A i \in Insts : Writes(i) =>
         Present = {} /\ (~Removes(wread[i]) => rec # NoRec)

Guarded == ~unguarded => OnRecord /\ HolderKnows

\* Who may write over a record does not find one that was stopped.
StopKept ==
    ~unguarded /\ ~reverted =>
        /\ stopped => rec # NoRec /\ rec.status = "stop" /\ rec.pid = NoPid
        /\ pc[Recovery] \in {"prepare", "place", "publish", "killold", "latest"} => ~stopped
        /\ \A i \in Insts : Writes(i) => ~stopped

\* The inductive invariant.
Inv == TypeOK /\ Equipped /\ LockHeld /\ Forked /\ Guarded /\ StopKept

-------------------------------------------------------------------------------
(* Records.                                                                *)

\* What is written to a record keeps it one; a status leaves its pid alone.
LEMMA RecordFacts ==
  ASSUME NEW r \in Record, NEW s \in Status, NEW p \in Procs \cup {NoPid}
  PROVE  /\ [r EXCEPT !.status = s] \in Record
         /\ [r EXCEPT !.status = s].pid = r.pid
         /\ [r EXCEPT !.status = s].mode = r.mode
         /\ [r EXCEPT !.status = s].status = s
         /\ [r EXCEPT !.status = s, !.pid = p] \in Record
         /\ [r EXCEPT !.status = s, !.pid = p].pid = p
         /\ [r EXCEPT !.status = s, !.pid = p].mode = r.mode
         /\ Ended(r, s) \in Record \cup {NoRec}
         /\ Ended(r, s) = NoRec \/ Ended(r, s).pid = r.pid
         /\ Ended(r, s) = NoRec <=> Removes(r)
  BY NoRecAssumption DEF Record, Ended

-------------------------------------------------------------------------------
(* Finish.                                                                 *)

\* A command that ends leaves everything well typed.
LEMMA FinishTypes ==
  ASSUME TypeOK, NEW a \in Actors, Finish(a), vmm' = vmm
  PROVE  /\ lock' \in Actors \cup Insts \cup {Waiter, Free}
         /\ ready' \in [Insts -> {"no", "ok", "err"}]
         /\ parent' \in [Insts -> Actors]
         /\ wpc' \in [Insts -> WPC] /\ wread' \in [Insts -> Record \cup {NoRec}]
         /\ pc' \in [Actors -> PC] /\ op' \in [Actors -> Op \cup {"none"}]
         /\ own' \in [Actors -> Record \cup {NoRec}]
         /\ child' \in [Actors -> Insts \cup {NoPid}]
         /\ server' \in [Actors -> BOOLEAN]
         /\ asked' \subseteq Live' /\ killed' \subseteq Live'
         /\ orphans \cap Insts \subseteq Live'
<1>1. /\ lock' \in Actors \cup Insts \cup {Waiter, Free}
      /\ ready' \in [Insts -> {"no", "ok", "err"}]
      /\ pc' \in [Actors -> PC] /\ op' \in [Actors -> Op \cup {"none"}]
      /\ own' \in [Actors -> Record \cup {NoRec}]
      /\ child' \in [Actors -> Insts \cup {NoPid}]
  BY DEF Finish, Goto, TypeOK, PC
<1>2. server' \in [Actors -> BOOLEAN]
  BY Zenon DEF Finish, TypeOK
<1>3. /\ wpc' \in [Insts -> WPC] /\ wread' \in [Insts -> Record \cup {NoRec}]
      /\ parent' \in [Insts -> Actors]
  BY DEF Finish, Lose, TypeOK, WPC, Actors
<1>4. /\ \A i \in Insts : i \in Live <=> i \in Live'
      /\ \A c \in CLIs : c # a /\ c \in Live => c \in Live'
  <2>1. \A b \in Actors : b # a => pc'[b] = pc[b]
    BY DEF Finish, Goto, TypeOK
  <2> QED
    BY <2>1, VMLifecycleAssumption DEF Live, Actors, Procs
<1>5. asked' = asked \ {a} /\ killed' = killed \ {a} /\ orphans \subseteq Insts
      /\ asked \subseteq Live /\ killed \subseteq Live /\ Live \subseteq Insts \cup CLIs
      /\ orphans \subseteq Live
  BY DEF Finish, TypeOK, Live
<1>6. /\ asked' \subseteq Live' /\ killed' \subseteq Live'
      /\ orphans \cap Insts \subseteq Live'
  BY <1>4, <1>5
<1> QED
  BY <1>1, <1>2, <1>3, <1>6

\* It leaves the lock free, or with whoever else has it.
LEMMA FinishLock ==
  ASSUME TypeOK, LockHeld, NEW a \in Actors, Finish(a), vmm' = vmm
  PROVE  LockHeld'
<1> USE VMLifecycleAssumption
<1> DEFINE W == IF a = Recovery THEN {} ELSE WaitersOf(a)
<1>1. /\ \A b \in Actors \ {a} : pc'[b] = pc[b]
      /\ pc'[a] \in {"idle", "done"}
  BY DEF Finish, Goto, TypeOK
<1>2. lock' = IF lock = a \/ (lock = Waiter /\ Held(W)) THEN Free ELSE lock
  BY Zenon DEF Finish
<1>3. \A i \in Insts : wpc'[i] = IF i \in W THEN "none" ELSE wpc[i]
  BY DEF Finish, Lose
<1> HIDE DEF W
<1>4. /\ Free \notin Actors \cup Insts /\ Waiter \notin Actors \cup Insts
      /\ a \notin Insts
  BY DEF Actors, Procs, Recovery, Waiter
<1>5. \A b \in Actors : lock' = b <=> pc'[b] \in Locked
  BY <1>1, <1>2, <1>4 DEF LockHeld, Locked
<1>6. \A i \in Insts : lock' = i <=> vmm'[i] = "record"
  BY <1>2, <1>4 DEF LockHeld
<1>7. ASSUME NEW i \in Insts, wpc'[i] \in {"lread", "lwrite"}
      PROVE  lock' = Waiter /\ wpc[i] \in {"lread", "lwrite"}
  <2>1. i \notin W /\ wpc[i] \in {"lread", "lwrite"} /\ lock = Waiter
    BY <1>3, <1>7 DEF LockHeld
  <2>2. W \subseteq Insts
    BY DEF W, WaitersOf
  <2>3. ~Held(W)
    BY <2>1, <2>2 DEF Held, LockHeld
  <2> QED
    BY <1>2, <1>4, <2>1, <2>3
<1> QED
  BY <1>5, <1>6, <1>7 DEF LockHeld

\* While an actor has the lock, no other actor, VMM or wait goroutine does, and
\* the only VMM that is being placed is its own.
LEMMA LockAlone ==
  ASSUME LockHeld, NEW a \in Actors, pc[a] \in Locked
  PROVE  /\ \A b \in Actors : pc[b] \in Locked => b = a
         /\ \A i \in Insts : wpc[i] \notin {"lread", "lwrite"}
         /\ \A i \in Insts : Placing(i) => child[a] = i /\ pc[a] \in WithChild
<1>1. lock = a
  BY DEF LockHeld
<1>2. a # Waiter
  BY VMLifecycleAssumption DEF Actors, Procs, Recovery, Waiter
<1>3. \A b \in Actors : pc[b] \in Locked => b = a
  BY <1>1 DEF LockHeld
<1> QED
  BY <1>1, <1>2, <1>3 DEF LockHeld, Placing, WithChild, Locked

\* Every step keeps the types.
LEMMA TypeOKStep ==
  ASSUME Inv, [Next]_vars
  PROVE  TypeOK'
<1> USE VMLifecycleAssumption, NoRecAssumption
<1> USE DEF Inv, vmmVars, waitVars, sigVars, localVars, history, Goto
<1>1. ASSUME NEW c \in CLIs, NEW o \in Ops, Start(c, o) PROVE TypeOK'
  BY <1>1 DEF Start, TypeOK, Equipped, Live, PC, Phase, WPC, Procs, Actors, Working, WithChild, Status, Record
<1>2. ASSUME NEW a \in Actors, Acquire(a) PROVE TypeOK'
  BY <1>2 DEF Acquire, Entry, TypeOK, Equipped, Live, PC, Phase, WPC, Procs, Actors, Working, WithChild
<1>3. ASSUME NEW a \in Actors, AcquireTimesOut(a) PROVE TypeOK'
  <2>2. CASE Finish(a)
    <3>1. rec' \in Record \cup {NoRec} /\ orphans' \subseteq orphans
          /\ UNCHANGED <<conf, up, vmm, faults>>
      BY <1>3, <2>2 DEF AcquireTimesOut, TypeOK
    <3>2. {unguarded', reverted', stopped'} \subseteq BOOLEAN
      BY <1>3, <2>2, Zenon DEF AcquireTimesOut, TypeOK
    <3>3. orphans \subseteq Insts
      BY <1>3 DEF TypeOK
    <3> QED
      BY <2>2, <3>1, <3>2, <3>3, FinishTypes DEF TypeOK
  <2> QED
    BY <1>3, <2>2 DEF AcquireTimesOut
<1>4. ASSUME NEW a \in Actors, RunCheck(a) PROVE TypeOK'
  <2>2. CASE Finish(a)
    <3>1. rec' \in Record \cup {NoRec} /\ orphans' \subseteq orphans
          /\ UNCHANGED <<conf, up, vmm, faults>>
      BY <1>4, <2>2 DEF RunCheck, TypeOK
    <3>2. {unguarded', reverted', stopped'} \subseteq BOOLEAN
      BY <1>4, <2>2, Zenon DEF RunCheck, TypeOK
    <3>3. orphans \subseteq Insts
      BY <1>4 DEF TypeOK
    <3> QED
      BY <2>2, <3>1, <3>2, <3>3, FinishTypes DEF TypeOK
  <2>3. CASE ~Finish(a)
    <3>5. /\ rec' \in Record \cup {NoRec} /\ lock' \in Actors \cup Insts \cup {Waiter, Free}
         /\ own' \in [Actors -> Record \cup {NoRec}]
         /\ wread' \in [Insts -> Record \cup {NoRec}]
      BY <1>4, <2>3 DEF RunCheck, TypeOK, Equipped, Live, PC, Phase, WPC, Procs, Actors, Working, WithChild, Killing, Op
    <3>6. /\ vmm' \in [Insts -> Phase] /\ ready' \in [Insts -> {"no", "ok", "err"}]
         /\ parent' \in [Insts -> Actors] /\ wpc' \in [Insts -> WPC]
         /\ pc' \in [Actors -> PC] /\ op' \in [Actors -> Op \cup {"none"}]
         /\ child' \in [Actors -> Insts \cup {NoPid}] /\ faults' \in 0..MaxFaults
      BY <1>4, <2>3 DEF RunCheck, TypeOK, Equipped, Live, PC, Phase, WPC, Procs, Actors, Working, WithChild, Killing, Op
    <3>7. /\ asked' \subseteq Live' /\ killed' \subseteq Live'
         /\ orphans' \subseteq Live' \cap Insts
      BY <1>4, <2>3 DEF RunCheck, TypeOK, Equipped, Live, PC, Phase, WPC, Procs, Actors, Working, WithChild, Killing, Op
    <3>8. conf' \in BOOLEAN /\ up' \in BOOLEAN /\ server' \in [Actors -> BOOLEAN]
      BY <1>4, <2>3, Zenon DEF RunCheck, TypeOK
    <3>9. {unguarded', reverted', stopped'} \subseteq BOOLEAN
      BY <1>4, <2>3, Zenon DEF RunCheck, TypeOK
    <3> QED
      BY <3>5, <3>6, <3>7, <3>8, <3>9 DEF TypeOK
  <2> QED
    BY <2>2, <2>3
<1>5. ASSUME NEW a \in Actors, Prepare(a) PROVE TypeOK'
  BY <1>5 DEF Prepare, TypeOK, Equipped, Live, PC, Phase, WPC, Procs, Actors, Working, WithChild
<1>6. ASSUME NEW a \in Actors, PlacementFails(a) PROVE TypeOK'
  <2>2. CASE Finish(a)
    <3>1. rec' \in Record \cup {NoRec} /\ orphans' \subseteq orphans
          /\ UNCHANGED <<conf, up, vmm, faults>>
      BY <1>6, <2>2 DEF PlacementFails, TypeOK
    <3>2. {unguarded', reverted', stopped'} \subseteq BOOLEAN
      BY <1>6, <2>2, Zenon DEF PlacementFails, TypeOK
    <3>3. orphans \subseteq Insts
      BY <1>6 DEF TypeOK
    <3> QED
      BY <2>2, <3>1, <3>2, <3>3, FinishTypes DEF TypeOK
  <2> QED
    BY <1>6, <2>2 DEF PlacementFails
<1>7. ASSUME NEW a \in Actors, Delegate(a) PROVE TypeOK'
  BY <1>7 DEF Delegate, TypeOK, Equipped, Live, PC, Phase, WPC, Procs, Actors, Working, WithChild
<1>8. ASSUME NEW a \in Actors, Fork(a) PROVE TypeOK'
  BY <1>8 DEF Fork, Fresh, TypeOK, Equipped, Live, PC, Phase, WPC, Procs, Actors, Working, WithChild
<1>9. ASSUME NEW a \in Actors, Publish(a) PROVE TypeOK'
  <2> DEFINE r == [own[a] EXCEPT !.status = "running", !.pid = child[a]]
  <2>1. own[a] \in Record /\ child[a] \in Insts
    BY <1>9 DEF Publish, Equipped, Working, WithChild
  <2>2. r \in Record
    BY <2>1, RecordFacts DEF Status, Procs
  <2>3. rec' = r /\ own' = [own EXCEPT ![a] = r] /\ wread' = [wread EXCEPT ![child[a]] = r]
    BY <1>9 DEF Publish
  <2> HIDE DEF r
  <2>5. /\ rec' \in Record \cup {NoRec} /\ lock' \in Actors \cup Insts \cup {Waiter, Free}
       /\ own' \in [Actors -> Record \cup {NoRec}]
       /\ wread' \in [Insts -> Record \cup {NoRec}]
    BY <1>9, <2>1, <2>2, <2>3 DEF Publish, TypeOK, Equipped, Live, PC, Phase, WPC, Procs, Actors, Working, WithChild, Killing, Op
  <2>6. /\ vmm' \in [Insts -> Phase] /\ ready' \in [Insts -> {"no", "ok", "err"}]
       /\ parent' \in [Insts -> Actors] /\ wpc' \in [Insts -> WPC]
       /\ pc' \in [Actors -> PC] /\ op' \in [Actors -> Op \cup {"none"}]
       /\ child' \in [Actors -> Insts \cup {NoPid}] /\ faults' \in 0..MaxFaults
    BY <1>9, <2>1 DEF Publish, TypeOK, Equipped, Live, PC, Phase, WPC, Procs, Actors, Working, WithChild, Killing, Op
  <2>7. /\ asked' \subseteq Live' /\ killed' \subseteq Live'
       /\ orphans' \subseteq Live' \cap Insts
    BY <1>9, <2>1 DEF Publish, TypeOK, Equipped, Live, PC, Phase, WPC, Procs, Actors, Working, WithChild, Killing, Op
  <2>8. conf' \in BOOLEAN /\ up' \in BOOLEAN /\ server' \in [Actors -> BOOLEAN]
    BY <1>9, <2>1, Zenon DEF Publish, TypeOK
  <2>9. {unguarded', reverted', stopped'} \subseteq BOOLEAN
    BY <1>9, <2>1, Zenon DEF Publish, TypeOK
  <2> QED
    BY <2>5, <2>6, <2>7, <2>8, <2>9 DEF TypeOK
<1>10. ASSUME NEW a \in Actors, AwaitReady(a) PROVE TypeOK'
  <2>2. CASE Finish(a)
    <3>1. rec' \in Record \cup {NoRec} /\ orphans' \subseteq orphans
          /\ UNCHANGED <<conf, up, vmm, faults>>
      BY <1>10, <2>2 DEF AwaitReady, Placed, TypeOK
    <3>2. {unguarded', reverted', stopped'} \subseteq BOOLEAN
      BY <1>10, <2>2, Zenon DEF AwaitReady, Placed, TypeOK
    <3>3. orphans \subseteq Insts
      BY <1>10 DEF TypeOK
    <3> QED
      BY <2>2, <3>1, <3>2, <3>3, FinishTypes DEF TypeOK
  <2>3. CASE ~Finish(a)
    <3>5. /\ rec' \in Record \cup {NoRec} /\ lock' \in Actors \cup Insts \cup {Waiter, Free}
         /\ own' \in [Actors -> Record \cup {NoRec}]
         /\ wread' \in [Insts -> Record \cup {NoRec}]
      BY <1>10, <2>3 DEF AwaitReady, Placed, TypeOK, Equipped, Live, PC, Phase, WPC, Procs, Actors, Working, WithChild, Killing, Op
    <3>6. /\ vmm' \in [Insts -> Phase] /\ ready' \in [Insts -> {"no", "ok", "err"}]
         /\ parent' \in [Insts -> Actors] /\ wpc' \in [Insts -> WPC]
         /\ pc' \in [Actors -> PC] /\ op' \in [Actors -> Op \cup {"none"}]
         /\ child' \in [Actors -> Insts \cup {NoPid}] /\ faults' \in 0..MaxFaults
      BY <1>10, <2>3 DEF AwaitReady, Placed, TypeOK, Equipped, Live, PC, Phase, WPC, Procs, Actors, Working, WithChild, Killing, Op
    <3>7. /\ asked' \subseteq Live' /\ killed' \subseteq Live'
         /\ orphans' \subseteq Live' \cap Insts
      BY <1>10, <2>3 DEF AwaitReady, Placed, TypeOK, Equipped, Live, PC, Phase, WPC, Procs, Actors, Working, WithChild, Killing, Op
    <3>8. conf' \in BOOLEAN /\ up' \in BOOLEAN /\ server' \in [Actors -> BOOLEAN]
      BY <1>10, <2>3, Zenon DEF AwaitReady, Placed, TypeOK
    <3>9. {unguarded', reverted', stopped'} \subseteq BOOLEAN
      BY <1>10, <2>3, Zenon DEF AwaitReady, Placed, TypeOK
    <3> QED
      BY <3>5, <3>6, <3>7, <3>8, <3>9 DEF TypeOK
  <2> QED
    BY <2>2, <2>3
<1>11. ASSUME NEW a \in Actors, AwaitFails(a) PROVE TypeOK'
  BY <1>11 DEF AwaitFails, TypeOK, Equipped, Live, PC, Phase, WPC, Procs, Actors, Working, WithChild
<1>12. ASSUME NEW a \in Actors, AwaitTimesOut(a) PROVE TypeOK'
  BY <1>12 DEF AwaitTimesOut, TypeOK, Equipped, Live, PC, Phase, WPC, Procs, Actors, Working, WithChild
<1>13. ASSUME NEW a \in Actors, WaitExit(a) PROVE TypeOK'
  <2>2. CASE Finish(a)
    <3>1. rec' \in Record \cup {NoRec} /\ orphans' \subseteq orphans
          /\ UNCHANGED <<conf, up, vmm, faults>>
      BY <1>13, <2>2 DEF WaitExit, Placed, TypeOK
    <3>2. {unguarded', reverted', stopped'} \subseteq BOOLEAN
      BY <1>13, <2>2, Zenon DEF WaitExit, Placed, TypeOK
    <3>3. orphans \subseteq Insts
      BY <1>13 DEF TypeOK
    <3> QED
      BY <2>2, <3>1, <3>2, <3>3, FinishTypes DEF TypeOK
  <2>3. CASE ~Finish(a)
    <3>5. /\ rec' \in Record \cup {NoRec} /\ lock' \in Actors \cup Insts \cup {Waiter, Free}
         /\ own' \in [Actors -> Record \cup {NoRec}]
         /\ wread' \in [Insts -> Record \cup {NoRec}]
      BY <1>13, <2>3 DEF WaitExit, Placed, TypeOK, Equipped, Live, PC, Phase, WPC, Procs, Actors, Working, WithChild, Killing, Op
    <3>6. /\ vmm' \in [Insts -> Phase] /\ ready' \in [Insts -> {"no", "ok", "err"}]
         /\ parent' \in [Insts -> Actors] /\ wpc' \in [Insts -> WPC]
         /\ pc' \in [Actors -> PC] /\ op' \in [Actors -> Op \cup {"none"}]
         /\ child' \in [Actors -> Insts \cup {NoPid}] /\ faults' \in 0..MaxFaults
      BY <1>13, <2>3 DEF WaitExit, Placed, TypeOK, Equipped, Live, PC, Phase, WPC, Procs, Actors, Working, WithChild, Killing, Op
    <3>7. /\ asked' \subseteq Live' /\ killed' \subseteq Live'
         /\ orphans' \subseteq Live' \cap Insts
      BY <1>13, <2>3 DEF WaitExit, Placed, TypeOK, Equipped, Live, PC, Phase, WPC, Procs, Actors, Working, WithChild, Killing, Op
    <3>8. conf' \in BOOLEAN /\ up' \in BOOLEAN /\ server' \in [Actors -> BOOLEAN]
      BY <1>13, <2>3, Zenon DEF WaitExit, Placed, TypeOK
    <3>9. {unguarded', reverted', stopped'} \subseteq BOOLEAN
      BY <1>13, <2>3, Zenon DEF WaitExit, Placed, TypeOK
    <3> QED
      BY <3>5, <3>6, <3>7, <3>8, <3>9 DEF TypeOK
  <2> QED
    BY <2>2, <2>3
<1>14. ASSUME NEW c \in CLIs, CLIExit(c) PROVE TypeOK'
  <2>1. c \in Actors
    BY DEF Actors
  <2>2. CASE Finish(c)
    <3>1. rec' \in Record \cup {NoRec} /\ orphans' \subseteq orphans
          /\ UNCHANGED <<conf, up, vmm, faults>>
      BY <1>14, <2>2 DEF CLIExit, TypeOK
    <3>2. {unguarded', reverted', stopped'} \subseteq BOOLEAN
      BY <1>14, <2>2, Zenon DEF CLIExit, TypeOK
    <3>3. orphans \subseteq Insts
      BY <1>14 DEF TypeOK
    <3> QED
      BY <2>2, <2>1, <3>1, <3>2, <3>3, FinishTypes DEF TypeOK
  <2> QED
    BY <1>14, <2>2 DEF CLIExit
<1>15. ASSUME NEW c \in CLIs, Foreground(c) PROVE TypeOK'
  <2> DEFINE r == [own[c] EXCEPT !.status = "running"]
  <2>1. own[c] \in Record
    BY <1>15 DEF Foreground, Equipped, Working, Actors
  <2>2. r \in Record
    BY <2>1, RecordFacts DEF Status
  <2>3. rec' = r /\ own' = [own EXCEPT ![c] = r]
    BY <1>15 DEF Foreground
  <2> HIDE DEF r
  <2>5. /\ rec' \in Record \cup {NoRec} /\ lock' \in Actors \cup Insts \cup {Waiter, Free}
       /\ own' \in [Actors -> Record \cup {NoRec}]
       /\ wread' \in [Insts -> Record \cup {NoRec}]
    BY <1>15, <2>2, <2>3 DEF Foreground, TypeOK, Equipped, Live, PC, Phase, WPC, Procs, Actors, Working, WithChild, Killing, Op
  <2>6. /\ vmm' \in [Insts -> Phase] /\ ready' \in [Insts -> {"no", "ok", "err"}]
       /\ parent' \in [Insts -> Actors] /\ wpc' \in [Insts -> WPC]
       /\ pc' \in [Actors -> PC] /\ op' \in [Actors -> Op \cup {"none"}]
       /\ child' \in [Actors -> Insts \cup {NoPid}] /\ faults' \in 0..MaxFaults
    BY <1>15 DEF Foreground, TypeOK, Equipped, Live, PC, Phase, WPC, Procs, Actors, Working, WithChild, Killing, Op
  <2>7. /\ asked' \subseteq Live' /\ killed' \subseteq Live'
       /\ orphans' \subseteq Live' \cap Insts
    BY <1>15 DEF Foreground, TypeOK, Equipped, Live, PC, Phase, WPC, Procs, Actors, Working, WithChild, Killing, Op
  <2>8. conf' \in BOOLEAN /\ up' \in BOOLEAN /\ server' \in [Actors -> BOOLEAN]
    BY <1>15, Zenon DEF Foreground, TypeOK
  <2>9. {unguarded', reverted', stopped'} \subseteq BOOLEAN
    BY <1>15, Zenon DEF Foreground, TypeOK
  <2> QED
    BY <2>5, <2>6, <2>7, <2>8, <2>9 DEF TypeOK
<1>16. ASSUME NEW c \in CLIs, ForegroundTry(c) PROVE TypeOK'
  <2>5. /\ rec' \in Record \cup {NoRec} /\ lock' \in Actors \cup Insts \cup {Waiter, Free}
       /\ own' \in [Actors -> Record \cup {NoRec}]
       /\ wread' \in [Insts -> Record \cup {NoRec}]
    BY <1>16 DEF ForegroundTry, TypeOK, Equipped, Live, PC, Phase, WPC, Procs, Actors, Working, WithChild, Killing, Op
  <2>6. /\ vmm' \in [Insts -> Phase] /\ ready' \in [Insts -> {"no", "ok", "err"}]
       /\ parent' \in [Insts -> Actors] /\ wpc' \in [Insts -> WPC]
       /\ pc' \in [Actors -> PC] /\ op' \in [Actors -> Op \cup {"none"}]
       /\ child' \in [Actors -> Insts \cup {NoPid}] /\ faults' \in 0..MaxFaults
    BY <1>16 DEF ForegroundTry, TypeOK, Equipped, Live, PC, Phase, WPC, Procs, Actors, Working, WithChild, Killing, Op
  <2>7. /\ asked' \subseteq Live' /\ killed' \subseteq Live'
       /\ orphans' \subseteq Live' \cap Insts
    BY <1>16 DEF ForegroundTry, TypeOK, Equipped, Live, PC, Phase, WPC, Procs, Actors, Working, WithChild, Killing, Op
  <2>8. conf' \in BOOLEAN /\ up' \in BOOLEAN /\ server' \in [Actors -> BOOLEAN]
    BY <1>16, Zenon DEF ForegroundTry, TypeOK
  <2>9. {unguarded', reverted', stopped'} \subseteq BOOLEAN
    BY <1>16, Zenon DEF ForegroundTry, TypeOK
  <2> QED
    BY <2>5, <2>6, <2>7, <2>8, <2>9 DEF TypeOK
<1>17. ASSUME NEW c \in CLIs, ForegroundRecord(c) PROVE TypeOK'
  <2>1. Ended(own[c], "exit") \in Record \cup {NoRec}
    BY <1>17, RecordFacts DEF ForegroundRecord, Equipped, Working, Actors, Status
  <2>5. /\ rec' \in Record \cup {NoRec} /\ lock' \in Actors \cup Insts \cup {Waiter, Free}
       /\ own' \in [Actors -> Record \cup {NoRec}]
       /\ wread' \in [Insts -> Record \cup {NoRec}]
    BY <1>17, <2>1 DEF ForegroundRecord, TypeOK, Equipped, Live, PC, Phase, WPC, Procs, Actors, Working, WithChild, Killing, Op
  <2>6. /\ vmm' \in [Insts -> Phase] /\ ready' \in [Insts -> {"no", "ok", "err"}]
       /\ parent' \in [Insts -> Actors] /\ wpc' \in [Insts -> WPC]
       /\ pc' \in [Actors -> PC] /\ op' \in [Actors -> Op \cup {"none"}]
       /\ child' \in [Actors -> Insts \cup {NoPid}] /\ faults' \in 0..MaxFaults
    BY <1>17 DEF ForegroundRecord, TypeOK, Equipped, Live, PC, Phase, WPC, Procs, Actors, Working, WithChild, Killing, Op
  <2>7. /\ asked' \subseteq Live' /\ killed' \subseteq Live'
       /\ orphans' \subseteq Live' \cap Insts
    BY <1>17 DEF ForegroundRecord, TypeOK, Equipped, Live, PC, Phase, WPC, Procs, Actors, Working, WithChild, Killing, Op
  <2>8. conf' \in BOOLEAN /\ up' \in BOOLEAN /\ server' \in [Actors -> BOOLEAN]
    BY <1>17, Zenon DEF ForegroundRecord, TypeOK
  <2>9. {unguarded', reverted', stopped'} \subseteq BOOLEAN
    BY <1>17, Zenon DEF ForegroundRecord, TypeOK
  <2> QED
    BY <2>5, <2>6, <2>7, <2>8, <2>9 DEF TypeOK
<1>18. ASSUME NEW c \in CLIs, CommandRead(c) PROVE TypeOK'
  <2>1. c \in Actors
    BY DEF Actors
  <2>2. CASE Finish(c)
    <3>1. rec' \in Record \cup {NoRec} /\ orphans' \subseteq orphans
          /\ UNCHANGED <<conf, up, vmm, faults>>
      BY <1>18, <2>2 DEF CommandRead, TypeOK
    <3>2. {unguarded', reverted', stopped'} \subseteq BOOLEAN
      BY <1>18, <2>2, Zenon DEF CommandRead, TypeOK
    <3>3. orphans \subseteq Insts
      BY <1>18 DEF TypeOK
    <3> QED
      BY <2>2, <2>1, <3>1, <3>2, <3>3, FinishTypes DEF TypeOK
  <2>3. CASE ~Finish(c)
    <3>5. /\ rec' \in Record \cup {NoRec} /\ lock' \in Actors \cup Insts \cup {Waiter, Free}
         /\ own' \in [Actors -> Record \cup {NoRec}]
         /\ wread' \in [Insts -> Record \cup {NoRec}]
      BY <1>18, <2>3, <2>1 DEF CommandRead, TypeOK, Equipped, Live, PC, Phase, WPC, Procs, Actors, Working, WithChild, Killing, Op
    <3>6. /\ vmm' \in [Insts -> Phase] /\ ready' \in [Insts -> {"no", "ok", "err"}]
         /\ parent' \in [Insts -> Actors] /\ wpc' \in [Insts -> WPC]
         /\ pc' \in [Actors -> PC] /\ op' \in [Actors -> Op \cup {"none"}]
         /\ child' \in [Actors -> Insts \cup {NoPid}] /\ faults' \in 0..MaxFaults
      BY <1>18, <2>3, <2>1 DEF CommandRead, TypeOK, Equipped, Live, PC, Phase, WPC, Procs, Actors, Working, WithChild, Killing, Op
    <3>7. /\ asked' \subseteq Live' /\ killed' \subseteq Live'
         /\ orphans' \subseteq Live' \cap Insts
      BY <1>18, <2>3, <2>1 DEF CommandRead, TypeOK, Equipped, Live, PC, Phase, WPC, Procs, Actors, Working, WithChild, Killing, Op
    <3>8. conf' \in BOOLEAN /\ up' \in BOOLEAN /\ server' \in [Actors -> BOOLEAN]
      BY <1>18, <2>3, <2>1, Zenon DEF CommandRead, TypeOK
    <3>9. {unguarded', reverted', stopped'} \subseteq BOOLEAN
      BY <1>18, <2>3, <2>1, Zenon DEF CommandRead, TypeOK
    <3> QED
      BY <3>5, <3>6, <3>7, <3>8, <3>9 DEF TypeOK
  <2> QED
    BY <2>2, <2>3
<1>19. ASSUME NEW c \in CLIs, RmRemove(c) PROVE TypeOK'
  <2>1. c \in Actors
    BY DEF Actors
  <2>2. CASE Finish(c)
    <3>1. rec' \in Record \cup {NoRec} /\ orphans' \subseteq orphans
          /\ UNCHANGED <<conf, up, vmm, faults>>
      BY <1>19, <2>2 DEF RmRemove, TypeOK
    <3>2. {unguarded', reverted', stopped'} \subseteq BOOLEAN
      BY <1>19, <2>2, Zenon DEF RmRemove, TypeOK
    <3>3. orphans \subseteq Insts
      BY <1>19 DEF TypeOK
    <3> QED
      BY <2>2, <2>1, <3>1, <3>2, <3>3, FinishTypes DEF TypeOK
  <2> QED
    BY <1>19, <2>2 DEF RmRemove
<1>20. ASSUME NEW c \in CLIs, KillGuest(c) PROVE TypeOK'
  BY <1>20 DEF KillGuest, HasGuest, TypeOK, Equipped, Live, PC, Phase, WPC, Procs, Actors, Working, WithChild
<1>21. ASSUME NEW c \in CLIs, KillHost(c) PROVE TypeOK'
  BY <1>21 DEF KillHost, TypeOK, Equipped, Live, PC, Phase, WPC, Procs, Actors, Working, WithChild
<1>22. ASSUME NEW c \in CLIs, KillReap(c) PROVE TypeOK'
  <2> DEFINE r == [own[c] EXCEPT !.status = "killed", !.pid = NoPid]
  <2>1. c \in Actors
    BY DEF Actors
  <2>0. own[c] \in Record
    BY <1>22, <2>1 DEF KillReap, Equipped, Working
  <2>4. r \in Record /\ Ended(r, "killed") \in Record \cup {NoRec}
    <3>1. r \in Record
      BY <2>0, RecordFacts DEF Status
    <3> HIDE DEF r
    <3> QED
      BY <3>1, RecordFacts DEF Status
  <2>5. /\ rec' = IF own[c].pid = NoPid THEN r ELSE Ended(r, "killed")
        /\ Finish(c) \/ own' = [own EXCEPT ![c] = r]
    BY <1>22 DEF KillReap, AfterKill
  <2> HIDE DEF r
  <2>2. CASE Finish(c)
    <3>1. rec' \in Record \cup {NoRec} /\ orphans' \subseteq orphans
          /\ UNCHANGED <<conf, up, vmm, faults>>
      BY <1>22, <2>2, <2>4, <2>5 DEF KillReap, AfterKill, TypeOK
    <3>2. {unguarded', reverted', stopped'} \subseteq BOOLEAN
      BY <1>22, <2>2, Zenon DEF KillReap, AfterKill, TypeOK
    <3>3. orphans \subseteq Insts
      BY <1>22 DEF TypeOK
    <3> QED
      BY <2>2, <2>1, <3>1, <3>2, <3>3, FinishTypes DEF TypeOK
  <2>3. CASE ~Finish(c)
    <3>5. /\ rec' \in Record \cup {NoRec} /\ lock' \in Actors \cup Insts \cup {Waiter, Free}
         /\ own' \in [Actors -> Record \cup {NoRec}]
         /\ wread' \in [Insts -> Record \cup {NoRec}]
      BY <1>22, <2>3, <2>1, <2>4, <2>5 DEF KillReap, AfterKill, TypeOK, Equipped, Live, PC, Phase, WPC, Procs, Actors, Working, WithChild, Killing, Op
    <3>6. /\ vmm' \in [Insts -> Phase] /\ ready' \in [Insts -> {"no", "ok", "err"}]
         /\ parent' \in [Insts -> Actors] /\ wpc' \in [Insts -> WPC]
         /\ pc' \in [Actors -> PC] /\ op' \in [Actors -> Op \cup {"none"}]
         /\ child' \in [Actors -> Insts \cup {NoPid}] /\ faults' \in 0..MaxFaults
      BY <1>22, <2>3, <2>1 DEF KillReap, AfterKill, TypeOK, Equipped, Live, PC, Phase, WPC, Procs, Actors, Working, WithChild, Killing, Op
    <3>7. /\ asked' \subseteq Live' /\ killed' \subseteq Live'
         /\ orphans' \subseteq Live' \cap Insts
      BY <1>22, <2>3, <2>1 DEF KillReap, AfterKill, TypeOK, Equipped, Live, PC, Phase, WPC, Procs, Actors, Working, WithChild, Killing, Op
    <3>8. conf' \in BOOLEAN /\ up' \in BOOLEAN /\ server' \in [Actors -> BOOLEAN]
      BY <1>22, <2>3, <2>1, Zenon DEF KillReap, AfterKill, TypeOK
    <3>9. {unguarded', reverted', stopped'} \subseteq BOOLEAN
      BY <1>22, <2>3, <2>1, Zenon DEF KillReap, AfterKill, TypeOK
    <3> QED
      BY <3>5, <3>6, <3>7, <3>8, <3>9 DEF TypeOK
  <2> QED
    BY <2>2, <2>3
<1>23. ASSUME NEW c \in CLIs, KillTimesOut(c) PROVE TypeOK'
  <2>1. c \in Actors
    BY DEF Actors
  <2>2. CASE Finish(c)
    <3>1. rec' \in Record \cup {NoRec} /\ orphans' \subseteq orphans
          /\ UNCHANGED <<conf, up, vmm, faults>>
      BY <1>23, <2>2 DEF KillTimesOut, TypeOK
    <3>2. {unguarded', reverted', stopped'} \subseteq BOOLEAN
      BY <1>23, <2>2, Zenon DEF KillTimesOut, TypeOK
    <3>3. orphans \subseteq Insts
      BY <1>23 DEF TypeOK
    <3> QED
      BY <2>2, <2>1, <3>1, <3>2, <3>3, FinishTypes DEF TypeOK
  <2>3. CASE ~Finish(c)
    <3>5. /\ rec' \in Record \cup {NoRec} /\ lock' \in Actors \cup Insts \cup {Waiter, Free}
         /\ own' \in [Actors -> Record \cup {NoRec}]
         /\ wread' \in [Insts -> Record \cup {NoRec}]
      BY <1>23, <2>3, <2>1 DEF KillTimesOut, TypeOK, Equipped, Live, PC, Phase, WPC, Procs, Actors, Working, WithChild, Killing, Op
    <3>6. /\ vmm' \in [Insts -> Phase] /\ ready' \in [Insts -> {"no", "ok", "err"}]
         /\ parent' \in [Insts -> Actors] /\ wpc' \in [Insts -> WPC]
         /\ pc' \in [Actors -> PC] /\ op' \in [Actors -> Op \cup {"none"}]
         /\ child' \in [Actors -> Insts \cup {NoPid}] /\ faults' \in 0..MaxFaults
      BY <1>23, <2>3, <2>1 DEF KillTimesOut, TypeOK, Equipped, Live, PC, Phase, WPC, Procs, Actors, Working, WithChild, Killing, Op
    <3>7. /\ asked' \subseteq Live' /\ killed' \subseteq Live'
         /\ orphans' \subseteq Live' \cap Insts
      BY <1>23, <2>3, <2>1 DEF KillTimesOut, TypeOK, Equipped, Live, PC, Phase, WPC, Procs, Actors, Working, WithChild, Killing, Op
    <3>8. conf' \in BOOLEAN /\ up' \in BOOLEAN /\ server' \in [Actors -> BOOLEAN]
      BY <1>23, <2>3, <2>1, Zenon DEF KillTimesOut, TypeOK
    <3>9. {unguarded', reverted', stopped'} \subseteq BOOLEAN
      BY <1>23, <2>3, <2>1, Zenon DEF KillTimesOut, TypeOK
    <3> QED
      BY <3>5, <3>6, <3>7, <3>8, <3>9 DEF TypeOK
  <2> QED
    BY <2>2, <2>3
<1>24. ASSUME NEW c \in CLIs, StopWrite(c) PROVE TypeOK'
  <2>4. [own[c] EXCEPT !.status = "stop"] \in Record
    BY <1>24, RecordFacts DEF StopWrite, Equipped, Working, Actors, Status
  <2>1. c \in Actors
    BY DEF Actors
  <2>2. CASE Finish(c)
    <3>1. rec' \in Record \cup {NoRec} /\ orphans' \subseteq orphans
          /\ UNCHANGED <<conf, up, vmm, faults>>
      BY <1>24, <2>2, <2>4 DEF StopWrite, TypeOK
    <3>2. {unguarded', reverted', stopped'} \subseteq BOOLEAN
      BY <1>24, <2>2, Zenon DEF StopWrite, TypeOK
    <3>3. orphans \subseteq Insts
      BY <1>24 DEF TypeOK
    <3> QED
      BY <2>2, <2>1, <3>1, <3>2, <3>3, FinishTypes DEF TypeOK
  <2> QED
    BY <1>24, <2>2 DEF StopWrite
<1>25. ASSUME NEW c \in CLIs, ForegroundEnds(c) PROVE TypeOK'
  BY <1>25 DEF ForegroundEnds, PowerOff, Fault, TypeOK, Equipped, Live, PC, Phase, WPC, Procs, Actors, Working, WithChild
<1>26. ASSUME NEW c \in CLIs, CLICrash(c) PROVE TypeOK'
  BY <1>26 DEF CLICrash, Finish, Lose, Held, WaitersOf, Fault, Orphan, TypeOK, Equipped, Live, PC, Phase, WPC, Procs, Actors, Working, WithChild
<1>27. ASSUME NEW i \in Insts, VMMLoad(i) PROVE TypeOK'
  BY <1>27 DEF VMMLoad, Phases, vmmOnly, Reports, TypeOK, Equipped, Live, PC, Phase, WPC, Procs, Actors, Working, WithChild
<1>28. ASSUME NEW i \in Insts, VMMReady(i) PROVE TypeOK'
  BY <1>28 DEF VMMReady, Phases, vmmOnly, Reports, TypeOK, Equipped, Live, PC, Phase, WPC, Procs, Actors, Working, WithChild
<1>29. ASSUME NEW i \in Insts, VMMFails(i) PROVE TypeOK'
  BY <1>29 DEF VMMFails, Phases, vmmOnly, Reports, TypeOK, Equipped, Live, PC, Phase, WPC, Procs, Actors, Working, WithChild
<1>30. ASSUME NEW i \in Insts, VMMEnds(i) PROVE TypeOK'
  BY <1>30 DEF VMMEnds, Phases, vmmOnly, PowerOff, Fault, TypeOK, Equipped, Live, PC, Phase, WPC, Procs, Actors, Working, WithChild
<1>31. ASSUME NEW i \in Insts, VMMTry(i) PROVE TypeOK'
  BY <1>31 DEF VMMTry, Phases, vmmOnly, TypeOK, Equipped, Live, PC, Phase, WPC, Procs, Actors, Working, WithChild
<1>32. ASSUME NEW i \in Insts, VMMRecord(i) PROVE TypeOK'
  <2>1. rec # NoRec => Ended(rec, "exit") \in Record \cup {NoRec}
    BY <1>32, RecordFacts DEF TypeOK, Status
  <2>5. /\ rec' \in Record \cup {NoRec} /\ lock' \in Actors \cup Insts \cup {Waiter, Free}
       /\ own' \in [Actors -> Record \cup {NoRec}]
       /\ wread' \in [Insts -> Record \cup {NoRec}]
    BY <1>32, <2>1 DEF VMMRecord, Phases, vmmOnly, TypeOK, Equipped, Live, PC, Phase, WPC, Procs, Actors, Working, WithChild, Killing, Op
  <2>6. /\ vmm' \in [Insts -> Phase] /\ ready' \in [Insts -> {"no", "ok", "err"}]
       /\ parent' \in [Insts -> Actors] /\ wpc' \in [Insts -> WPC]
       /\ pc' \in [Actors -> PC] /\ op' \in [Actors -> Op \cup {"none"}]
       /\ child' \in [Actors -> Insts \cup {NoPid}] /\ faults' \in 0..MaxFaults
    BY <1>32 DEF VMMRecord, Phases, vmmOnly, TypeOK, Equipped, Live, PC, Phase, WPC, Procs, Actors, Working, WithChild, Killing, Op
  <2>7. /\ asked' \subseteq Live' /\ killed' \subseteq Live'
       /\ orphans' \subseteq Live' \cap Insts
    BY <1>32 DEF VMMRecord, Phases, vmmOnly, TypeOK, Equipped, Live, PC, Phase, WPC, Procs, Actors, Working, WithChild, Killing, Op
  <2>8. conf' \in BOOLEAN /\ up' \in BOOLEAN /\ server' \in [Actors -> BOOLEAN]
    BY <1>32, Zenon DEF VMMRecord, Phases, vmmOnly, TypeOK
  <2>9. {unguarded', reverted', stopped'} \subseteq BOOLEAN
    BY <1>32, Zenon DEF VMMRecord, Phases, vmmOnly, TypeOK
  <2> QED
    BY <2>5, <2>6, <2>7, <2>8, <2>9 DEF TypeOK
<1>33. ASSUME NEW i \in Insts, VMMExit(i) PROVE TypeOK'
  BY <1>33 DEF VMMExit, Phases, vmmOnly, Fault, TypeOK, Equipped, Live, PC, Phase, WPC, Procs, Actors, Working, WithChild
<1>34. ASSUME NEW i \in Insts, WaiterReturns(i) PROVE TypeOK'
  BY <1>34 DEF WaiterReturns, Waits, TypeOK, Equipped, Live, PC, Phase, WPC, Procs, Actors, Working, WithChild
<1>35. ASSUME NEW i \in Insts, WaiterSelect(i) PROVE TypeOK'
  BY <1>35 DEF WaiterSelect, Waits, TypeOK, Equipped, Live, PC, Phase, WPC, Procs, Actors, Working, WithChild
<1>36. ASSUME NEW i \in Insts, WaiterAcquire(i) PROVE TypeOK'
  BY <1>36 DEF WaiterAcquire, Waits, TypeOK, Equipped, Live, PC, Phase, WPC, Procs, Actors, Working, WithChild
<1>37. ASSUME NEW i \in Insts, WaiterTimesOut(i) PROVE TypeOK'
  BY <1>37 DEF WaiterTimesOut, Waits, WaiterEnds, TypeOK, Equipped, Live, PC, Phase, WPC, Procs, Actors, Working, WithChild
<1>38. ASSUME NEW i \in Insts, WaiterRead(i) PROVE TypeOK'
  <2>5. /\ rec' \in Record \cup {NoRec} /\ lock' \in Actors \cup Insts \cup {Waiter, Free}
       /\ own' \in [Actors -> Record \cup {NoRec}]
       /\ wread' \in [Insts -> Record \cup {NoRec}]
    BY <1>38 DEF WaiterRead, Waits, WaiterEnds, Owed, Owns, TypeOK, Equipped, Live, PC, Phase, WPC, Procs, Actors, Working, WithChild, Killing, Op
  <2>6. /\ vmm' \in [Insts -> Phase] /\ ready' \in [Insts -> {"no", "ok", "err"}]
       /\ parent' \in [Insts -> Actors] /\ wpc' \in [Insts -> WPC]
       /\ pc' \in [Actors -> PC] /\ op' \in [Actors -> Op \cup {"none"}]
       /\ child' \in [Actors -> Insts \cup {NoPid}] /\ faults' \in 0..MaxFaults
    BY <1>38 DEF WaiterRead, Waits, WaiterEnds, Owed, Owns, TypeOK, Equipped, Live, PC, Phase, WPC, Procs, Actors, Working, WithChild, Killing, Op
  <2>7. /\ asked' \subseteq Live' /\ killed' \subseteq Live'
       /\ orphans' \subseteq Live' \cap Insts
    BY <1>38 DEF WaiterRead, Waits, WaiterEnds, Owed, Owns, TypeOK, Equipped, Live, PC, Phase, WPC, Procs, Actors, Working, WithChild, Killing, Op
  <2>8. conf' \in BOOLEAN /\ up' \in BOOLEAN /\ server' \in [Actors -> BOOLEAN]
    BY <1>38, Zenon DEF WaiterRead, Waits, WaiterEnds, Owed, Owns, TypeOK
  <2>9. {unguarded', reverted', stopped'} \subseteq BOOLEAN
    BY <1>38, Zenon DEF WaiterRead, Waits, WaiterEnds, Owed, Owns, TypeOK
  <2> QED
    BY <2>5, <2>6, <2>7, <2>8, <2>9 DEF TypeOK
<1>39. ASSUME NEW i \in Insts, WaiterWrite(i) PROVE TypeOK'
  <2>1. Ended(wread[i], "exit") \in Record \cup {NoRec}
    BY <1>39, RecordFacts DEF WaiterWrite, Forked, Status
  <2>5. /\ rec' \in Record \cup {NoRec} /\ lock' \in Actors \cup Insts \cup {Waiter, Free}
       /\ own' \in [Actors -> Record \cup {NoRec}]
       /\ wread' \in [Insts -> Record \cup {NoRec}]
    BY <1>39, <2>1 DEF WaiterWrite, Waits, WaiterEnds, TypeOK, Equipped, Live, PC, Phase, WPC, Procs, Actors, Working, WithChild, Killing, Op
  <2>6. /\ vmm' \in [Insts -> Phase] /\ ready' \in [Insts -> {"no", "ok", "err"}]
       /\ parent' \in [Insts -> Actors] /\ wpc' \in [Insts -> WPC]
       /\ pc' \in [Actors -> PC] /\ op' \in [Actors -> Op \cup {"none"}]
       /\ child' \in [Actors -> Insts \cup {NoPid}] /\ faults' \in 0..MaxFaults
    BY <1>39 DEF WaiterWrite, Waits, WaiterEnds, TypeOK, Equipped, Live, PC, Phase, WPC, Procs, Actors, Working, WithChild, Killing, Op
  <2>7. /\ asked' \subseteq Live' /\ killed' \subseteq Live'
       /\ orphans' \subseteq Live' \cap Insts
    BY <1>39 DEF WaiterWrite, Waits, WaiterEnds, TypeOK, Equipped, Live, PC, Phase, WPC, Procs, Actors, Working, WithChild, Killing, Op
  <2>8. conf' \in BOOLEAN /\ up' \in BOOLEAN /\ server' \in [Actors -> BOOLEAN]
    BY <1>39, Zenon DEF WaiterWrite, Waits, WaiterEnds, TypeOK
  <2>9. {unguarded', reverted', stopped'} \subseteq BOOLEAN
    BY <1>39, Zenon DEF WaiterWrite, Waits, WaiterEnds, TypeOK
  <2> QED
    BY <2>5, <2>6, <2>7, <2>8, <2>9 DEF TypeOK
<1>40. ASSUME Tick PROVE TypeOK'
  BY <1>40 DEF Tick, Down, Running, TypeOK, Equipped, Live, PC, Phase, WPC, Procs, Actors, Working, WithChild
<1>41. ASSUME RecoverTry PROVE TypeOK'
  BY <1>41 DEF RecoverTry, TypeOK, Equipped, Live, PC, Phase, WPC, Procs, Actors, Working, WithChild
<1>42. ASSUME RecoverRecheck PROVE TypeOK'
  <2>1. Recovery \in Actors
    BY DEF Actors
  <2>2. CASE Finish(Recovery)
    <3>1. rec' \in Record \cup {NoRec} /\ orphans' \subseteq orphans
          /\ UNCHANGED <<conf, up, vmm, faults>>
      BY <1>42, <2>2 DEF RecoverRecheck, TypeOK
    <3>2. {unguarded', reverted', stopped'} \subseteq BOOLEAN
      BY <1>42, <2>2, Zenon DEF RecoverRecheck, TypeOK
    <3>3. orphans \subseteq Insts
      BY <1>42 DEF TypeOK
    <3> QED
      BY <2>2, <2>1, <3>1, <3>2, <3>3, FinishTypes DEF TypeOK
  <2>3. CASE ~Finish(Recovery)
    <3>5. /\ rec' \in Record \cup {NoRec} /\ lock' \in Actors \cup Insts \cup {Waiter, Free}
         /\ own' \in [Actors -> Record \cup {NoRec}]
         /\ wread' \in [Insts -> Record \cup {NoRec}]
      BY <1>42, <2>3, <2>1 DEF RecoverRecheck, TypeOK, Equipped, Live, PC, Phase, WPC, Procs, Actors, Working, WithChild, Killing, Op
    <3>6. /\ vmm' \in [Insts -> Phase] /\ ready' \in [Insts -> {"no", "ok", "err"}]
         /\ parent' \in [Insts -> Actors] /\ wpc' \in [Insts -> WPC]
         /\ pc' \in [Actors -> PC] /\ op' \in [Actors -> Op \cup {"none"}]
         /\ child' \in [Actors -> Insts \cup {NoPid}] /\ faults' \in 0..MaxFaults
      BY <1>42, <2>3, <2>1 DEF RecoverRecheck, TypeOK, Equipped, Live, PC, Phase, WPC, Procs, Actors, Working, WithChild, Killing, Op
    <3>7. /\ asked' \subseteq Live' /\ killed' \subseteq Live'
         /\ orphans' \subseteq Live' \cap Insts
      BY <1>42, <2>3, <2>1 DEF RecoverRecheck, TypeOK, Equipped, Live, PC, Phase, WPC, Procs, Actors, Working, WithChild, Killing, Op
    <3>8. conf' \in BOOLEAN /\ up' \in BOOLEAN /\ server' \in [Actors -> BOOLEAN]
      BY <1>42, <2>3, <2>1, Zenon DEF RecoverRecheck, TypeOK
    <3>9. {unguarded', reverted', stopped'} \subseteq BOOLEAN
      BY <1>42, <2>3, <2>1, Zenon DEF RecoverRecheck, TypeOK
    <3> QED
      BY <3>5, <3>6, <3>7, <3>8, <3>9 DEF TypeOK
  <2> QED
    BY <2>2, <2>3
<1>43. ASSUME RecoverKillOld PROVE TypeOK'
  <2>1. [own[Recovery] EXCEPT !.status = "killed"] \in Record
    BY <1>43, RecordFacts DEF RecoverKillOld, Equipped, Working, Actors, Status
  <2>5. /\ rec' \in Record \cup {NoRec} /\ lock' \in Actors \cup Insts \cup {Waiter, Free}
       /\ own' \in [Actors -> Record \cup {NoRec}]
       /\ wread' \in [Insts -> Record \cup {NoRec}]
    BY <1>43, <2>1 DEF RecoverKillOld, TypeOK, Equipped, Live, PC, Phase, WPC, Procs, Actors, Working, WithChild, Killing, Op
  <2>6. /\ vmm' \in [Insts -> Phase] /\ ready' \in [Insts -> {"no", "ok", "err"}]
       /\ parent' \in [Insts -> Actors] /\ wpc' \in [Insts -> WPC]
       /\ pc' \in [Actors -> PC] /\ op' \in [Actors -> Op \cup {"none"}]
       /\ child' \in [Actors -> Insts \cup {NoPid}] /\ faults' \in 0..MaxFaults
    BY <1>43 DEF RecoverKillOld, TypeOK, Equipped, Live, PC, Phase, WPC, Procs, Actors, Working, WithChild, Killing, Op
  <2>7. /\ asked' \subseteq Live' /\ killed' \subseteq Live'
       /\ orphans' \subseteq Live' \cap Insts
    BY <1>43 DEF RecoverKillOld, TypeOK, Equipped, Live, PC, Phase, WPC, Procs, Actors, Working, WithChild, Killing, Op
  <2>8. conf' \in BOOLEAN /\ up' \in BOOLEAN /\ server' \in [Actors -> BOOLEAN]
    BY <1>43, Zenon DEF RecoverKillOld, TypeOK
  <2>9. {unguarded', reverted', stopped'} \subseteq BOOLEAN
    BY <1>43, Zenon DEF RecoverKillOld, TypeOK
  <2> QED
    BY <2>5, <2>6, <2>7, <2>8, <2>9 DEF TypeOK
<1>44. ASSUME RecoverLatest PROVE TypeOK'
  <2>1. Recovery \in Actors
    BY DEF Actors
  <2>2. CASE Finish(Recovery)
    <3>1. rec' \in Record \cup {NoRec} /\ orphans' \subseteq orphans
          /\ UNCHANGED <<conf, up, vmm, faults>>
      BY <1>44, <2>2 DEF RecoverLatest, TypeOK
    <3>2. {unguarded', reverted', stopped'} \subseteq BOOLEAN
      BY <1>44, <2>2, Zenon DEF RecoverLatest, TypeOK
    <3>3. orphans \subseteq Insts
      BY <1>44 DEF TypeOK
    <3> QED
      BY <2>2, <2>1, <3>1, <3>2, <3>3, FinishTypes DEF TypeOK
  <2>3. CASE ~Finish(Recovery)
    <3>5. /\ rec' \in Record \cup {NoRec} /\ lock' \in Actors \cup Insts \cup {Waiter, Free}
         /\ own' \in [Actors -> Record \cup {NoRec}]
         /\ wread' \in [Insts -> Record \cup {NoRec}]
      BY <1>44, <2>3, <2>1 DEF RecoverLatest, TypeOK, Equipped, Live, PC, Phase, WPC, Procs, Actors, Working, WithChild, Killing, Op
    <3>6. /\ vmm' \in [Insts -> Phase] /\ ready' \in [Insts -> {"no", "ok", "err"}]
         /\ parent' \in [Insts -> Actors] /\ wpc' \in [Insts -> WPC]
         /\ pc' \in [Actors -> PC] /\ op' \in [Actors -> Op \cup {"none"}]
         /\ child' \in [Actors -> Insts \cup {NoPid}] /\ faults' \in 0..MaxFaults
      BY <1>44, <2>3, <2>1 DEF RecoverLatest, TypeOK, Equipped, Live, PC, Phase, WPC, Procs, Actors, Working, WithChild, Killing, Op
    <3>7. /\ asked' \subseteq Live' /\ killed' \subseteq Live'
         /\ orphans' \subseteq Live' \cap Insts
      BY <1>44, <2>3, <2>1 DEF RecoverLatest, TypeOK, Equipped, Live, PC, Phase, WPC, Procs, Actors, Working, WithChild, Killing, Op
    <3>8. conf' \in BOOLEAN /\ up' \in BOOLEAN /\ server' \in [Actors -> BOOLEAN]
      BY <1>44, <2>3, <2>1, Zenon DEF RecoverLatest, TypeOK
    <3>9. {unguarded', reverted', stopped'} \subseteq BOOLEAN
      BY <1>44, <2>3, <2>1, Zenon DEF RecoverLatest, TypeOK
    <3> QED
      BY <3>5, <3>6, <3>7, <3>8, <3>9 DEF TypeOK
  <2> QED
    BY <2>2, <2>3
<1>45. ASSUME DaemonCrash PROVE TypeOK'
  <2>5. /\ rec' \in Record \cup {NoRec} /\ lock' \in Actors \cup Insts \cup {Waiter, Free}
       /\ own' \in [Actors -> Record \cup {NoRec}]
       /\ wread' \in [Insts -> Record \cup {NoRec}]
    BY <1>45 DEF DaemonCrash, Lose, Held, WaitersOf, Fault, Orphan, TypeOK, Equipped, Live, PC, Phase, WPC, Procs, Actors, Working, WithChild, Killing, Op
  <2>6. /\ vmm' \in [Insts -> Phase] /\ ready' \in [Insts -> {"no", "ok", "err"}]
       /\ parent' \in [Insts -> Actors] /\ wpc' \in [Insts -> WPC]
       /\ pc' \in [Actors -> PC] /\ op' \in [Actors -> Op \cup {"none"}]
       /\ child' \in [Actors -> Insts \cup {NoPid}] /\ faults' \in 0..MaxFaults
    BY <1>45 DEF DaemonCrash, Lose, Held, WaitersOf, Fault, Orphan, TypeOK, Equipped, Live, PC, Phase, WPC, Procs, Actors, Working, WithChild, Killing, Op
  <2>7. /\ asked' \subseteq Live' /\ killed' \subseteq Live'
       /\ orphans' \subseteq Live' \cap Insts
    BY <1>45 DEF DaemonCrash, Lose, Held, WaitersOf, Fault, Orphan, TypeOK, Equipped, Live, PC, Phase, WPC, Procs, Actors, Working, WithChild, Killing, Op
  <2>8. conf' \in BOOLEAN /\ up' \in BOOLEAN /\ server' \in [Actors -> BOOLEAN]
    BY <1>45, Zenon DEF DaemonCrash, Lose, Held, WaitersOf, Fault, Orphan, TypeOK
  <2>9. {unguarded', reverted', stopped'} \subseteq BOOLEAN
    BY <1>45, Zenon DEF DaemonCrash, Lose, Held, WaitersOf, Fault, Orphan, TypeOK
  <2> QED
    BY <2>5, <2>6, <2>7, <2>8, <2>9 DEF TypeOK
<1>46. ASSUME DaemonStart PROVE TypeOK'
  BY <1>46 DEF DaemonStart, TypeOK, Equipped, Live, PC, Phase, WPC, Procs, Actors, Working, WithChild
<1>47. ASSUME UNCHANGED vars PROVE TypeOK'
  BY <1>47 DEF vars, TypeOK, Equipped, Live, PC, Phase, WPC, Procs, Actors, Working, WithChild
<1> HIDE DEF TypeOK, Inv
<1> QED
  BY <1>1, <1>2, <1>3, <1>4, <1>5, <1>6, <1>7, <1>8, <1>9, <1>10, <1>11, <1>12, <1>13, <1>14, <1>15, <1>16, <1>17, <1>18, <1>19, <1>20, <1>21, <1>22, <1>23, <1>24, <1>25, <1>26, <1>27, <1>28, <1>29, <1>30, <1>31, <1>32, <1>33, <1>34, <1>35, <1>36, <1>37, <1>38, <1>39, <1>40, <1>41, <1>42, <1>43, <1>44, <1>45, <1>46, <1>47, Zenon
  DEF Next, Place, Command, VMMStep, WaiterStep, Recover

\* An actor has what its next step needs.
LEMMA EquippedStep ==
  ASSUME Inv, [Next]_vars
  PROVE  Equipped'
<1> USE VMLifecycleAssumption, NoRecAssumption
<1> USE DEF Inv, vmmVars, waitVars, sigVars, localVars, history, Goto
<1>1. ASSUME NEW c \in CLIs, NEW o \in Ops, Start(c, o) PROVE Equipped'
  <2>1. o = "run" => \E r \in Record : r.pid = c /\ own' = [own EXCEPT ![c] = r]
    <3>1. ASSUME NEW m \in Modes
          PROVE  [status |-> "new", pid |-> c, mode |-> m] \in Record
      BY DEF Record, Status, Procs
    <3> QED
      BY <1>1, <3>1 DEF Start
  <2>2. o # "run" => own' = own
    BY <1>1 DEF Start
  <2> QED
    BY <1>1, <2>1, <2>2 DEF Start, TypeOK, Equipped, Actors, Procs, Op, Working, WithChild, OwnRun, Killing, CLIOnly, RecoveryOnly
<1>2. ASSUME NEW a \in Actors, Acquire(a) PROVE Equipped'
  BY <1>2 DEF Acquire, Entry, TypeOK, Equipped, Actors, Procs, Op, Working, WithChild, OwnRun, Killing, CLIOnly, RecoveryOnly
<1>3. ASSUME NEW a \in Actors, AcquireTimesOut(a) PROVE Equipped'
  BY <1>3 DEF AcquireTimesOut, Finish, Lose, Held, WaitersOf, TypeOK, Equipped, Actors, Procs, Op, Working, WithChild, OwnRun, Killing, CLIOnly, RecoveryOnly
<1>4. ASSUME NEW a \in Actors, RunCheck(a) PROVE Equipped'
  BY <1>4 DEF RunCheck, Finish, Lose, Held, WaitersOf, Running, TypeOK, Equipped, Actors, Procs, Op, Working, WithChild, OwnRun, Killing, CLIOnly, RecoveryOnly
<1>5. ASSUME NEW a \in Actors, Prepare(a) PROVE Equipped'
  BY <1>5 DEF Prepare, TypeOK, Equipped, Actors, Procs, Op, Working, WithChild, OwnRun, Killing, CLIOnly, RecoveryOnly
<1>6. ASSUME NEW a \in Actors, PlacementFails(a) PROVE Equipped'
  BY <1>6 DEF PlacementFails, Finish, Lose, Held, WaitersOf, TypeOK, Equipped, Actors, Procs, Op, Working, WithChild, OwnRun, Killing, CLIOnly, RecoveryOnly
<1>7. ASSUME NEW a \in Actors, Delegate(a) PROVE Equipped'
  BY <1>7 DEF Delegate, TypeOK, Equipped, Actors, Procs, Op, Working, WithChild, OwnRun, Killing, CLIOnly, RecoveryOnly
<1>8. ASSUME NEW a \in Actors, Fork(a) PROVE Equipped'
  BY <1>8 DEF Fork, Fresh, TypeOK, Equipped, Actors, Procs, Op, Working, WithChild, OwnRun, Killing, CLIOnly, RecoveryOnly
<1>9. ASSUME NEW a \in Actors, Publish(a) PROVE Equipped'
  <2> DEFINE r == [own[a] EXCEPT !.status = "running", !.pid = child[a]]
  <2>1. own[a] \in Record /\ child[a] \in Insts
    BY <1>9 DEF Publish, Equipped, Working, WithChild
  <2>2. r \in Record
    BY <2>1, RecordFacts DEF Status, Procs
  <2>3. own' = [own EXCEPT ![a] = r] /\ pc' = [pc EXCEPT ![a] = "await"]
        /\ UNCHANGED <<op, child>>
    BY <1>9 DEF Publish
  <2> HIDE DEF r
  <2> QED
    BY <1>9, <2>1, <2>2, <2>3 DEF TypeOK, Equipped, Actors, Procs, Op, Working, WithChild, OwnRun, Killing, CLIOnly, RecoveryOnly
<1>10. ASSUME NEW a \in Actors, AwaitReady(a) PROVE Equipped'
  BY <1>10 DEF AwaitReady, Finish, Lose, Held, WaitersOf, Placed, TypeOK, Equipped, Actors, Procs, Op, Working, WithChild, OwnRun, Killing, CLIOnly, RecoveryOnly
<1>11. ASSUME NEW a \in Actors, AwaitFails(a) PROVE Equipped'
  BY <1>11 DEF AwaitFails, TypeOK, Equipped, Actors, Procs, Op, Working, WithChild, OwnRun, Killing, CLIOnly, RecoveryOnly
<1>12. ASSUME NEW a \in Actors, AwaitTimesOut(a) PROVE Equipped'
  BY <1>12 DEF AwaitTimesOut, TypeOK, Equipped, Actors, Procs, Op, Working, WithChild, OwnRun, Killing, CLIOnly, RecoveryOnly
<1>13. ASSUME NEW a \in Actors, WaitExit(a) PROVE Equipped'
  BY <1>13 DEF WaitExit, Finish, Lose, Held, WaitersOf, Placed, TypeOK, Equipped, Actors, Procs, Op, Working, WithChild, OwnRun, Killing, CLIOnly, RecoveryOnly
<1>14. ASSUME NEW c \in CLIs, CLIExit(c) PROVE Equipped'
  BY <1>14 DEF CLIExit, Finish, Lose, Held, WaitersOf, TypeOK, Equipped, Actors, Procs, Op, Working, WithChild, OwnRun, Killing, CLIOnly, RecoveryOnly
<1>15. ASSUME NEW c \in CLIs, Foreground(c) PROVE Equipped'
  <2> DEFINE r == [own[c] EXCEPT !.status = "running"]
  <2>1. own[c] \in Record /\ own[c].pid = c
    BY <1>15 DEF Foreground, Equipped, Working, OwnRun, Actors
  <2>2. r \in Record /\ r.pid = c
    BY <2>1, RecordFacts DEF Status
  <2>3. own' = [own EXCEPT ![c] = r] /\ pc' = [pc EXCEPT ![c] = "vm"]
        /\ UNCHANGED <<op, child>> /\ c # Recovery
    BY <1>15 DEF Foreground
  <2> HIDE DEF r
  <2> QED
    BY <1>15, <2>1, <2>2, <2>3 DEF TypeOK, Equipped, Actors, Procs, Op, Working, WithChild, OwnRun, Killing, CLIOnly, RecoveryOnly
<1>16. ASSUME NEW c \in CLIs, ForegroundTry(c) PROVE Equipped'
  BY <1>16 DEF ForegroundTry, TypeOK, Equipped, Actors, Procs, Op, Working, WithChild, OwnRun, Killing, CLIOnly, RecoveryOnly
<1>17. ASSUME NEW c \in CLIs, ForegroundRecord(c) PROVE Equipped'
  BY <1>17 DEF ForegroundRecord, TypeOK, Equipped, Actors, Procs, Op, Working, WithChild, OwnRun, Killing, CLIOnly, RecoveryOnly
<1>18. ASSUME NEW c \in CLIs, CommandRead(c) PROVE Equipped'
  BY <1>18 DEF CommandRead, Finish, Lose, Held, WaitersOf, Running, TypeOK, Equipped, Actors, Procs, Op, Working, WithChild, OwnRun, Killing, CLIOnly, RecoveryOnly
<1>19. ASSUME NEW c \in CLIs, RmRemove(c) PROVE Equipped'
  BY <1>19 DEF RmRemove, Finish, Lose, Held, WaitersOf, TypeOK, Equipped, Actors, Procs, Op, Working, WithChild, OwnRun, Killing, CLIOnly, RecoveryOnly
<1>20. ASSUME NEW c \in CLIs, KillGuest(c) PROVE Equipped'
  BY <1>20 DEF KillGuest, HasGuest, TypeOK, Equipped, Actors, Procs, Op, Working, WithChild, OwnRun, Killing, CLIOnly, RecoveryOnly
<1>21. ASSUME NEW c \in CLIs, KillHost(c) PROVE Equipped'
  BY <1>21 DEF KillHost, TypeOK, Equipped, Actors, Procs, Op, Working, WithChild, OwnRun, Killing, CLIOnly, RecoveryOnly
<1>22. ASSUME NEW c \in CLIs, KillReap(c) PROVE Equipped'
  <2> DEFINE r == [own[c] EXCEPT !.status = "killed", !.pid = NoPid]
  <2>1. c \in Actors /\ c # Recovery /\ own[c] \in Record
    BY <1>22 DEF KillReap, Equipped, Working, Actors, Procs
  <2>2. r \in Record /\ r.pid = NoPid
    BY <2>1 DEF Record, Status
  <2>3. CASE Finish(c)
    BY <1>22, <2>1, <2>3 DEF Finish, TypeOK, Equipped, Actors, Procs, Op, Working, WithChild, OwnRun, Killing, CLIOnly, RecoveryOnly
  <2>4. CASE ~Finish(c)
    <3>1. own' = [own EXCEPT ![c] = r] /\ pc' = [pc EXCEPT ![c] = "stopwrite"]
          /\ UNCHANGED <<op, child>>
      BY <1>22, <2>4 DEF KillReap, AfterKill
    <3> HIDE DEF r
    <3> QED
      BY <2>1, <2>2, <3>1 DEF TypeOK, Equipped, Actors, Procs, Op, Working, WithChild, OwnRun, Killing, CLIOnly, RecoveryOnly
  <2> QED
    BY <2>3, <2>4
<1>23. ASSUME NEW c \in CLIs, KillTimesOut(c) PROVE Equipped'
  BY <1>23 DEF KillTimesOut, Finish, Lose, Held, WaitersOf, TypeOK, Equipped, Actors, Procs, Op, Working, WithChild, OwnRun, Killing, CLIOnly, RecoveryOnly
<1>24. ASSUME NEW c \in CLIs, StopWrite(c) PROVE Equipped'
  BY <1>24 DEF StopWrite, Finish, TypeOK, Equipped, Actors, Procs, Op, Working, WithChild, OwnRun, Killing, CLIOnly, RecoveryOnly
<1>25. ASSUME NEW c \in CLIs, ForegroundEnds(c) PROVE Equipped'
  BY <1>25 DEF ForegroundEnds, PowerOff, Fault, TypeOK, Equipped, Actors, Procs, Op, Working, WithChild, OwnRun, Killing, CLIOnly, RecoveryOnly
<1>26. ASSUME NEW c \in CLIs, CLICrash(c) PROVE Equipped'
  BY <1>26 DEF CLICrash, Finish, Lose, Held, WaitersOf, Fault, Orphan, TypeOK, Equipped, Actors, Procs, Op, Working, WithChild, OwnRun, Killing, CLIOnly, RecoveryOnly
<1>27. ASSUME NEW i \in Insts, VMMLoad(i) PROVE Equipped'
  BY <1>27 DEF VMMLoad, Phases, vmmOnly, Reports, TypeOK, Equipped, Actors, Procs, Op, Working, WithChild, OwnRun, Killing, CLIOnly, RecoveryOnly
<1>28. ASSUME NEW i \in Insts, VMMReady(i) PROVE Equipped'
  BY <1>28 DEF VMMReady, Phases, vmmOnly, Reports, TypeOK, Equipped, Actors, Procs, Op, Working, WithChild, OwnRun, Killing, CLIOnly, RecoveryOnly
<1>29. ASSUME NEW i \in Insts, VMMFails(i) PROVE Equipped'
  BY <1>29 DEF VMMFails, Phases, vmmOnly, Reports, TypeOK, Equipped, Actors, Procs, Op, Working, WithChild, OwnRun, Killing, CLIOnly, RecoveryOnly
<1>30. ASSUME NEW i \in Insts, VMMEnds(i) PROVE Equipped'
  BY <1>30 DEF VMMEnds, Phases, vmmOnly, PowerOff, Fault, TypeOK, Equipped, Actors, Procs, Op, Working, WithChild, OwnRun, Killing, CLIOnly, RecoveryOnly
<1>31. ASSUME NEW i \in Insts, VMMTry(i) PROVE Equipped'
  BY <1>31 DEF VMMTry, Phases, vmmOnly, TypeOK, Equipped, Actors, Procs, Op, Working, WithChild, OwnRun, Killing, CLIOnly, RecoveryOnly
<1>32. ASSUME NEW i \in Insts, VMMRecord(i) PROVE Equipped'
  BY <1>32, RecordFacts DEF VMMRecord, Phases, vmmOnly, TypeOK, Equipped, Actors, Procs, Op, Working, WithChild, OwnRun, Killing, CLIOnly, RecoveryOnly
<1>33. ASSUME NEW i \in Insts, VMMExit(i) PROVE Equipped'
  BY <1>33 DEF VMMExit, Phases, vmmOnly, Fault, TypeOK, Equipped, Actors, Procs, Op, Working, WithChild, OwnRun, Killing, CLIOnly, RecoveryOnly
<1>34. ASSUME NEW i \in Insts, WaiterReturns(i) PROVE Equipped'
  BY <1>34 DEF WaiterReturns, Waits, TypeOK, Equipped, Actors, Procs, Op, Working, WithChild, OwnRun, Killing, CLIOnly, RecoveryOnly
<1>35. ASSUME NEW i \in Insts, WaiterSelect(i) PROVE Equipped'
  BY <1>35 DEF WaiterSelect, Waits, TypeOK, Equipped, Actors, Procs, Op, Working, WithChild, OwnRun, Killing, CLIOnly, RecoveryOnly
<1>36. ASSUME NEW i \in Insts, WaiterAcquire(i) PROVE Equipped'
  BY <1>36 DEF WaiterAcquire, Waits, TypeOK, Equipped, Actors, Procs, Op, Working, WithChild, OwnRun, Killing, CLIOnly, RecoveryOnly
<1>37. ASSUME NEW i \in Insts, WaiterTimesOut(i) PROVE Equipped'
  BY <1>37 DEF WaiterTimesOut, Waits, WaiterEnds, TypeOK, Equipped, Actors, Procs, Op, Working, WithChild, OwnRun, Killing, CLIOnly, RecoveryOnly
<1>38. ASSUME NEW i \in Insts, WaiterRead(i) PROVE Equipped'
  BY <1>38 DEF WaiterRead, Waits, WaiterEnds, Owed, Owns, TypeOK, Equipped, Actors, Procs, Op, Working, WithChild, OwnRun, Killing, CLIOnly, RecoveryOnly
<1>39. ASSUME NEW i \in Insts, WaiterWrite(i) PROVE Equipped'
  BY <1>39, RecordFacts DEF WaiterWrite, Waits, WaiterEnds, TypeOK, Equipped, Actors, Procs, Op, Working, WithChild, OwnRun, Killing, CLIOnly, RecoveryOnly
<1>40. ASSUME Tick PROVE Equipped'
  BY <1>40 DEF Tick, Down, Running, TypeOK, Equipped, Actors, Procs, Op, Working, WithChild, OwnRun, Killing, CLIOnly, RecoveryOnly
<1>41. ASSUME RecoverTry PROVE Equipped'
  BY <1>41 DEF RecoverTry, TypeOK, Equipped, Actors, Procs, Op, Working, WithChild, OwnRun, Killing, CLIOnly, RecoveryOnly
<1>42. ASSUME RecoverRecheck PROVE Equipped'
  BY <1>42 DEF RecoverRecheck, Finish, Lose, Held, WaitersOf, Unneeded, Running, TypeOK, Equipped, Actors, Procs, Op, Working, WithChild, OwnRun, Killing, CLIOnly, RecoveryOnly
<1>43. ASSUME RecoverKillOld PROVE Equipped'
  BY <1>43, RecordFacts DEF RecoverKillOld, TypeOK, Equipped, Actors, Procs, Op, Working, WithChild, OwnRun, Killing, CLIOnly, RecoveryOnly
<1>44. ASSUME RecoverLatest PROVE Equipped'
  BY <1>44 DEF RecoverLatest, Finish, Lose, Held, WaitersOf, Unneeded, Running, TypeOK, Equipped, Actors, Procs, Op, Working, WithChild, OwnRun, Killing, CLIOnly, RecoveryOnly
<1>45. ASSUME DaemonCrash PROVE Equipped'
  BY <1>45 DEF DaemonCrash, Lose, Held, WaitersOf, Fault, Orphan, TypeOK, Equipped, Actors, Procs, Op, Working, WithChild, OwnRun, Killing, CLIOnly, RecoveryOnly
<1>46. ASSUME DaemonStart PROVE Equipped'
  BY <1>46 DEF DaemonStart, TypeOK, Equipped, Actors, Procs, Op, Working, WithChild, OwnRun, Killing, CLIOnly, RecoveryOnly
<1>47. ASSUME UNCHANGED vars PROVE Equipped'
  BY <1>47 DEF vars, TypeOK, Equipped, Actors, Procs, Op, Working, WithChild, OwnRun, Killing, CLIOnly, RecoveryOnly
<1> HIDE DEF Equipped, Inv
<1> QED
  BY <1>1, <1>2, <1>3, <1>4, <1>5, <1>6, <1>7, <1>8, <1>9, <1>10, <1>11, <1>12, <1>13, <1>14, <1>15, <1>16, <1>17, <1>18, <1>19, <1>20, <1>21, <1>22, <1>23, <1>24, <1>25, <1>26, <1>27, <1>28, <1>29, <1>30, <1>31, <1>32, <1>33, <1>34, <1>35, <1>36, <1>37, <1>38, <1>39, <1>40, <1>41, <1>42, <1>43, <1>44, <1>45, <1>46, <1>47, Zenon
  DEF Next, Place, Command, VMMStep, WaiterStep, Recover

\* The lock is held where it should be.
LEMMA LockHeldStep ==
  ASSUME Inv, [Next]_vars
  PROVE  LockHeld'
<1> USE VMLifecycleAssumption, NoRecAssumption
<1> USE DEF Inv, vmmVars, waitVars, sigVars, localVars, history, Goto
<1>1. ASSUME NEW c \in CLIs, NEW o \in Ops, Start(c, o) PROVE LockHeld'
  BY <1>1 DEF Start, TypeOK, Equipped, LockHeld, Actors, Procs, Recovery, Waiter, Locked, CLIOnly, RecoveryOnly, Killing
<1>2. ASSUME NEW a \in Actors, Acquire(a) PROVE LockHeld'
  BY <1>2 DEF Acquire, Entry, TypeOK, Equipped, LockHeld, Actors, Procs, Recovery, Waiter, Locked, CLIOnly, RecoveryOnly, Killing
<1>3. ASSUME NEW a \in Actors, AcquireTimesOut(a) PROVE LockHeld'
  <2>2. CASE Finish(a)
    BY <1>3, <2>2, FinishLock DEF AcquireTimesOut
  <2> QED
    BY <1>3, <2>2 DEF AcquireTimesOut
<1>4. ASSUME NEW a \in Actors, RunCheck(a) PROVE LockHeld'
  <2>2. CASE Finish(a)
    BY <1>4, <2>2, FinishLock DEF RunCheck
  <2>3. CASE ~Finish(a)
    BY <1>4, <2>3 DEF RunCheck, TypeOK, Equipped, LockHeld, Actors, Procs, Recovery, Waiter, Locked,
       CLIOnly, RecoveryOnly, Killing
  <2> QED
    BY <2>2, <2>3
<1>5. ASSUME NEW a \in Actors, Prepare(a) PROVE LockHeld'
  BY <1>5 DEF Prepare, TypeOK, Equipped, LockHeld, Actors, Procs, Recovery, Waiter, Locked, CLIOnly, RecoveryOnly, Killing
<1>6. ASSUME NEW a \in Actors, PlacementFails(a) PROVE LockHeld'
  <2>2. CASE Finish(a)
    BY <1>6, <2>2, FinishLock DEF PlacementFails
  <2> QED
    BY <1>6, <2>2 DEF PlacementFails
<1>7. ASSUME NEW a \in Actors, Delegate(a) PROVE LockHeld'
  BY <1>7 DEF Delegate, TypeOK, Equipped, LockHeld, Actors, Procs, Recovery, Waiter, Locked, CLIOnly, RecoveryOnly, Killing
<1>8. ASSUME NEW a \in Actors, Fork(a) PROVE LockHeld'
  BY <1>8 DEF Fork, Fresh, TypeOK, Equipped, LockHeld, Actors, Procs, Recovery, Waiter, Locked, CLIOnly, RecoveryOnly, Killing
<1>9. ASSUME NEW a \in Actors, Publish(a) PROVE LockHeld'
  BY <1>9 DEF Publish, TypeOK, Equipped, LockHeld, Actors, Procs, Recovery, Waiter, Locked, CLIOnly, RecoveryOnly, Killing
<1>10. ASSUME NEW a \in Actors, AwaitReady(a) PROVE LockHeld'
  <2>2. CASE Finish(a)
    BY <1>10, <2>2, FinishLock DEF AwaitReady, Placed
  <2>3. CASE ~Finish(a)
    BY <1>10, <2>3 DEF AwaitReady, Placed, TypeOK, Equipped, LockHeld, Actors, Procs, Recovery, Waiter, Locked,
       CLIOnly, RecoveryOnly, Killing
  <2> QED
    BY <2>2, <2>3
<1>11. ASSUME NEW a \in Actors, AwaitFails(a) PROVE LockHeld'
  BY <1>11 DEF AwaitFails, TypeOK, Equipped, LockHeld, Actors, Procs, Recovery, Waiter, Locked, CLIOnly, RecoveryOnly, Killing
<1>12. ASSUME NEW a \in Actors, AwaitTimesOut(a) PROVE LockHeld'
  BY <1>12 DEF AwaitTimesOut, TypeOK, Equipped, LockHeld, Actors, Procs, Recovery, Waiter, Locked, CLIOnly, RecoveryOnly, Killing
<1>13. ASSUME NEW a \in Actors, WaitExit(a) PROVE LockHeld'
  <2>2. CASE Finish(a)
    BY <1>13, <2>2, FinishLock DEF WaitExit, Placed
  <2>3. CASE ~Finish(a)
    BY <1>13, <2>3 DEF WaitExit, Placed, TypeOK, Equipped, LockHeld, Actors, Procs, Recovery, Waiter, Locked,
       CLIOnly, RecoveryOnly, Killing
  <2> QED
    BY <2>2, <2>3
<1>14. ASSUME NEW c \in CLIs, CLIExit(c) PROVE LockHeld'
  <2>1. c \in Actors
    BY DEF Actors
  <2>2. CASE Finish(c)
    BY <1>14, <2>2, <2>1, FinishLock DEF CLIExit
  <2> QED
    BY <1>14, <2>2 DEF CLIExit
<1>15. ASSUME NEW c \in CLIs, Foreground(c) PROVE LockHeld'
  BY <1>15 DEF Foreground, TypeOK, Equipped, LockHeld, Actors, Procs, Recovery, Waiter, Locked, CLIOnly, RecoveryOnly, Killing
<1>16. ASSUME NEW c \in CLIs, ForegroundTry(c) PROVE LockHeld'
  BY <1>16 DEF ForegroundTry, TypeOK, Equipped, LockHeld, Actors, Procs, Recovery, Waiter, Locked, CLIOnly, RecoveryOnly, Killing
<1>17. ASSUME NEW c \in CLIs, ForegroundRecord(c) PROVE LockHeld'
  BY <1>17 DEF ForegroundRecord, TypeOK, Equipped, LockHeld, Actors, Procs, Recovery, Waiter, Locked, CLIOnly, RecoveryOnly, Killing
<1>18. ASSUME NEW c \in CLIs, CommandRead(c) PROVE LockHeld'
  <2>1. c \in Actors
    BY DEF Actors
  <2>2. CASE Finish(c)
    BY <1>18, <2>2, <2>1, FinishLock DEF CommandRead
  <2>3. CASE ~Finish(c)
    BY <1>18, <2>3, <2>1 DEF CommandRead, TypeOK, Equipped, LockHeld, Actors, Procs, Recovery, Waiter, Locked,
       CLIOnly, RecoveryOnly, Killing
  <2> QED
    BY <2>2, <2>3
<1>19. ASSUME NEW c \in CLIs, RmRemove(c) PROVE LockHeld'
  <2>1. c \in Actors
    BY DEF Actors
  <2>2. CASE Finish(c)
    BY <1>19, <2>2, <2>1, FinishLock DEF RmRemove
  <2> QED
    BY <1>19, <2>2 DEF RmRemove
<1>20. ASSUME NEW c \in CLIs, KillGuest(c) PROVE LockHeld'
  BY <1>20 DEF KillGuest, HasGuest, TypeOK, Equipped, LockHeld, Actors, Procs, Recovery, Waiter, Locked, CLIOnly, RecoveryOnly, Killing
<1>21. ASSUME NEW c \in CLIs, KillHost(c) PROVE LockHeld'
  BY <1>21 DEF KillHost, TypeOK, Equipped, LockHeld, Actors, Procs, Recovery, Waiter, Locked, CLIOnly, RecoveryOnly, Killing
<1>22. ASSUME NEW c \in CLIs, KillReap(c) PROVE LockHeld'
  <2>1. c \in Actors
    BY DEF Actors
  <2>2. CASE Finish(c)
    BY <1>22, <2>2, <2>1, FinishLock DEF KillReap, AfterKill
  <2>3. CASE ~Finish(c)
    BY <1>22, <2>3, <2>1 DEF KillReap, AfterKill, TypeOK, Equipped, LockHeld, Actors, Procs, Recovery, Waiter, Locked,
       CLIOnly, RecoveryOnly, Killing
  <2> QED
    BY <2>2, <2>3
<1>23. ASSUME NEW c \in CLIs, KillTimesOut(c) PROVE LockHeld'
  <2>1. c \in Actors
    BY DEF Actors
  <2>2. CASE Finish(c)
    BY <1>23, <2>2, <2>1, FinishLock DEF KillTimesOut
  <2>3. CASE ~Finish(c)
    BY <1>23, <2>3, <2>1 DEF KillTimesOut, TypeOK, Equipped, LockHeld, Actors, Procs, Recovery, Waiter, Locked,
       CLIOnly, RecoveryOnly, Killing
  <2> QED
    BY <2>2, <2>3
<1>24. ASSUME NEW c \in CLIs, StopWrite(c) PROVE LockHeld'
  <2>1. c \in Actors
    BY DEF Actors
  <2>2. CASE Finish(c)
    BY <1>24, <2>2, <2>1, FinishLock DEF StopWrite
  <2> QED
    BY <1>24, <2>2 DEF StopWrite
<1>25. ASSUME NEW c \in CLIs, ForegroundEnds(c) PROVE LockHeld'
  BY <1>25 DEF ForegroundEnds, PowerOff, Fault, TypeOK, Equipped, LockHeld, Actors, Procs, Recovery, Waiter, Locked, CLIOnly, RecoveryOnly, Killing
<1>26. ASSUME NEW c \in CLIs, CLICrash(c) PROVE LockHeld'
  <2>1. c \in Actors
    BY DEF Actors
  <2>2. CASE Finish(c)
    BY <1>26, <2>2, <2>1, FinishLock DEF CLICrash
  <2> QED
    BY <1>26, <2>2 DEF CLICrash
<1>27. ASSUME NEW i \in Insts, VMMLoad(i) PROVE LockHeld'
  BY <1>27 DEF VMMLoad, Phases, vmmOnly, Reports, TypeOK, Equipped, LockHeld, Actors, Procs, Recovery, Waiter, Locked, CLIOnly, RecoveryOnly, Killing
<1>28. ASSUME NEW i \in Insts, VMMReady(i) PROVE LockHeld'
  BY <1>28 DEF VMMReady, Phases, vmmOnly, Reports, TypeOK, Equipped, LockHeld, Actors, Procs, Recovery, Waiter, Locked, CLIOnly, RecoveryOnly, Killing
<1>29. ASSUME NEW i \in Insts, VMMFails(i) PROVE LockHeld'
  BY <1>29 DEF VMMFails, Phases, vmmOnly, Reports, TypeOK, Equipped, LockHeld, Actors, Procs, Recovery, Waiter, Locked, CLIOnly, RecoveryOnly, Killing
<1>30. ASSUME NEW i \in Insts, VMMEnds(i) PROVE LockHeld'
  BY <1>30 DEF VMMEnds, Phases, vmmOnly, PowerOff, Fault, TypeOK, Equipped, LockHeld, Actors, Procs, Recovery, Waiter, Locked, CLIOnly, RecoveryOnly, Killing
<1>31. ASSUME NEW i \in Insts, VMMTry(i) PROVE LockHeld'
  BY <1>31 DEF VMMTry, Phases, vmmOnly, TypeOK, Equipped, LockHeld, Actors, Procs, Recovery, Waiter, Locked, CLIOnly, RecoveryOnly, Killing
<1>32. ASSUME NEW i \in Insts, VMMRecord(i) PROVE LockHeld'
  BY <1>32 DEF VMMRecord, Phases, vmmOnly, TypeOK, Equipped, LockHeld, Actors, Procs, Recovery, Waiter, Locked, CLIOnly, RecoveryOnly, Killing
<1>33. ASSUME NEW i \in Insts, VMMExit(i) PROVE LockHeld'
  BY <1>33 DEF VMMExit, Phases, vmmOnly, Fault, TypeOK, Equipped, LockHeld, Actors, Procs, Recovery, Waiter, Locked, CLIOnly, RecoveryOnly, Killing
<1>34. ASSUME NEW i \in Insts, WaiterReturns(i) PROVE LockHeld'
  BY <1>34 DEF WaiterReturns, Waits, TypeOK, Equipped, LockHeld, Actors, Procs, Recovery, Waiter, Locked, CLIOnly, RecoveryOnly, Killing
<1>35. ASSUME NEW i \in Insts, WaiterSelect(i) PROVE LockHeld'
  BY <1>35 DEF WaiterSelect, Waits, TypeOK, Equipped, LockHeld, Actors, Procs, Recovery, Waiter, Locked, CLIOnly, RecoveryOnly, Killing
<1>36. ASSUME NEW i \in Insts, WaiterAcquire(i) PROVE LockHeld'
  BY <1>36 DEF WaiterAcquire, Waits, TypeOK, Equipped, LockHeld, Actors, Procs, Recovery, Waiter, Locked, CLIOnly, RecoveryOnly, Killing
<1>37. ASSUME NEW i \in Insts, WaiterTimesOut(i) PROVE LockHeld'
  BY <1>37 DEF WaiterTimesOut, Waits, WaiterEnds, TypeOK, Equipped, LockHeld, Actors, Procs, Recovery, Waiter, Locked, CLIOnly, RecoveryOnly, Killing
<1>38. ASSUME NEW i \in Insts, WaiterRead(i) PROVE LockHeld'
  BY <1>38 DEF WaiterRead, Waits, WaiterEnds, Owed, Owns, TypeOK, Equipped, LockHeld, Actors, Procs, Recovery, Waiter, Locked, CLIOnly, RecoveryOnly, Killing
<1>39. ASSUME NEW i \in Insts, WaiterWrite(i) PROVE LockHeld'
  BY <1>39 DEF WaiterWrite, Waits, WaiterEnds, TypeOK, Equipped, LockHeld, Actors, Procs, Recovery, Waiter, Locked, CLIOnly, RecoveryOnly, Killing
<1>40. ASSUME Tick PROVE LockHeld'
  BY <1>40 DEF Tick, Down, Running, TypeOK, Equipped, LockHeld, Actors, Procs, Recovery, Waiter, Locked, CLIOnly, RecoveryOnly, Killing
<1>41. ASSUME RecoverTry PROVE LockHeld'
  BY <1>41 DEF RecoverTry, TypeOK, Equipped, LockHeld, Actors, Procs, Recovery, Waiter, Locked, CLIOnly, RecoveryOnly, Killing
<1>42. ASSUME RecoverRecheck PROVE LockHeld'
  <2>1. Recovery \in Actors
    BY DEF Actors
  <2>2. CASE Finish(Recovery)
    BY <1>42, <2>2, <2>1, FinishLock DEF RecoverRecheck
  <2>3. CASE ~Finish(Recovery)
    BY <1>42, <2>3, <2>1 DEF RecoverRecheck, TypeOK, Equipped, LockHeld, Actors, Procs, Recovery, Waiter, Locked,
       CLIOnly, RecoveryOnly, Killing
  <2> QED
    BY <2>2, <2>3
<1>43. ASSUME RecoverKillOld PROVE LockHeld'
  BY <1>43 DEF RecoverKillOld, TypeOK, Equipped, LockHeld, Actors, Procs, Recovery, Waiter, Locked, CLIOnly, RecoveryOnly, Killing
<1>44. ASSUME RecoverLatest PROVE LockHeld'
  <2>1. Recovery \in Actors
    BY DEF Actors
  <2>2. CASE Finish(Recovery)
    BY <1>44, <2>2, <2>1, FinishLock DEF RecoverLatest
  <2>3. CASE ~Finish(Recovery)
    BY <1>44, <2>3, <2>1 DEF RecoverLatest, TypeOK, Equipped, LockHeld, Actors, Procs, Recovery, Waiter, Locked,
       CLIOnly, RecoveryOnly, Killing
  <2> QED
    BY <2>2, <2>3
<1>45. ASSUME DaemonCrash PROVE LockHeld'
  BY <1>45 DEF DaemonCrash, Lose, Held, WaitersOf, Fault, Orphan, TypeOK, Equipped, LockHeld, Actors, Procs, Recovery, Waiter, Locked, CLIOnly, RecoveryOnly, Killing
<1>46. ASSUME DaemonStart PROVE LockHeld'
  BY <1>46 DEF DaemonStart, TypeOK, Equipped, LockHeld, Actors, Procs, Recovery, Waiter, Locked, CLIOnly, RecoveryOnly, Killing
<1>47. ASSUME UNCHANGED vars PROVE LockHeld'
  BY <1>47 DEF vars, TypeOK, Equipped, LockHeld, Actors, Procs, Recovery, Waiter, Locked, CLIOnly, RecoveryOnly, Killing
<1> HIDE DEF LockHeld, Inv
<1> QED
  BY <1>1, <1>2, <1>3, <1>4, <1>5, <1>6, <1>7, <1>8, <1>9, <1>10, <1>11, <1>12, <1>13, <1>14, <1>15, <1>16, <1>17, <1>18, <1>19, <1>20, <1>21, <1>22, <1>23, <1>24, <1>25, <1>26, <1>27, <1>28, <1>29, <1>30, <1>31, <1>32, <1>33, <1>34, <1>35, <1>36, <1>37, <1>38, <1>39, <1>40, <1>41, <1>42, <1>43, <1>44, <1>45, <1>46, <1>47, Zenon
  DEF Next, Place, Command, VMMStep, WaiterStep, Recover

\* Children and wait goroutines.
LEMMA ForkedStep ==
  ASSUME Inv, [Next]_vars
  PROVE  Forked'
<1> USE VMLifecycleAssumption, NoRecAssumption
<1> USE DEF Inv, vmmVars, waitVars, sigVars, localVars, history, Goto
<1>1. ASSUME NEW c \in CLIs, NEW o \in Ops, Start(c, o) PROVE Forked'
  BY <1>1 DEF Start, TypeOK, Equipped, Forked, Actors, Procs, WithChild, Live, Placing
<1>2. ASSUME NEW a \in Actors, Acquire(a) PROVE Forked'
  BY <1>2 DEF Acquire, Entry, TypeOK, Equipped, Forked, Actors, Procs, WithChild, Live, Placing
<1>3. ASSUME NEW a \in Actors, AcquireTimesOut(a) PROVE Forked'
  BY <1>3 DEF AcquireTimesOut, Finish, Lose, Held, WaitersOf, TypeOK, Equipped, Forked, Actors, Procs, WithChild, Live, Placing
<1>4. ASSUME NEW a \in Actors, RunCheck(a) PROVE Forked'
  BY <1>4 DEF RunCheck, Finish, Lose, Held, WaitersOf, Running, TypeOK, Equipped, Forked, Actors, Procs, WithChild, Live, Placing
<1>5. ASSUME NEW a \in Actors, Prepare(a) PROVE Forked'
  BY <1>5 DEF Prepare, TypeOK, Equipped, Forked, Actors, Procs, WithChild, Live, Placing
<1>6. ASSUME NEW a \in Actors, PlacementFails(a) PROVE Forked'
  BY <1>6 DEF PlacementFails, Finish, Lose, Held, WaitersOf, TypeOK, Equipped, Forked, Actors, Procs, WithChild, Live, Placing
<1>7. ASSUME NEW a \in Actors, Delegate(a) PROVE Forked'
  BY <1>7 DEF Delegate, TypeOK, Equipped, Forked, Actors, Procs, WithChild, Live, Placing
<1>8. ASSUME NEW a \in Actors, Fork(a) PROVE Forked'
  BY <1>8 DEF Fork, Fresh, TypeOK, Equipped, Forked, Actors, Procs, WithChild, Live, Placing
<1>9. ASSUME NEW a \in Actors, Publish(a) PROVE Forked'
  <2> DEFINE r == [own[a] EXCEPT !.status = "running", !.pid = child[a]]
  <2>1. own[a] \in Record /\ child[a] \in Insts
    BY <1>9 DEF Publish, Equipped, Working, WithChild
  <2>2. r \in Record /\ r.pid = child[a]
    BY <2>1 DEF Record, Status, Procs
  <2>3. /\ pc' = [pc EXCEPT ![a] = "await"] /\ UNCHANGED <<vmm, child>>
        /\ wread' = [wread EXCEPT ![child[a]] = r]
        /\ wpc' = [wpc EXCEPT ![child[a]] = "wait"]
    BY <1>9 DEF Publish
  <2> HIDE DEF r
  <2>4. /\ \A i \in Insts : i # child[a] => wpc'[i] = wpc[i] /\ wread'[i] = wread[i]
        /\ wpc'[child[a]] = "wait" /\ wread'[child[a]] = r
        /\ \A b \in Actors : pc'[b] = "publish" => pc[b] = "publish" /\ b # a
    BY <2>1, <2>3 DEF TypeOK
  <2>5. \A b \in Actors : pc'[b] = "publish" => child[b] \in Insts /\ child[b] # child[a]
    BY <2>1, <2>4 DEF Forked, Equipped, WithChild, Procs
  <2> QED
    BY <2>1, <2>2, <2>3, <2>4, <2>5 DEF Forked
<1>10. ASSUME NEW a \in Actors, AwaitReady(a) PROVE Forked'
  BY <1>10 DEF AwaitReady, Finish, Lose, Held, WaitersOf, Placed, TypeOK, Equipped, Forked, Actors, Procs, WithChild, Live, Placing
<1>11. ASSUME NEW a \in Actors, AwaitFails(a) PROVE Forked'
  BY <1>11 DEF AwaitFails, TypeOK, Equipped, Forked, Actors, Procs, WithChild, Live, Placing
<1>12. ASSUME NEW a \in Actors, AwaitTimesOut(a) PROVE Forked'
  BY <1>12 DEF AwaitTimesOut, TypeOK, Equipped, Forked, Actors, Procs, WithChild, Live, Placing
<1>13. ASSUME NEW a \in Actors, WaitExit(a) PROVE Forked'
  BY <1>13 DEF WaitExit, Finish, Lose, Held, WaitersOf, Placed, TypeOK, Equipped, Forked, Actors, Procs, WithChild, Live, Placing
<1>14. ASSUME NEW c \in CLIs, CLIExit(c) PROVE Forked'
  BY <1>14 DEF CLIExit, Finish, Lose, Held, WaitersOf, TypeOK, Equipped, Forked, Actors, Procs, WithChild, Live, Placing
<1>15. ASSUME NEW c \in CLIs, Foreground(c) PROVE Forked'
  BY <1>15 DEF Foreground, TypeOK, Equipped, Forked, Actors, Procs, WithChild, Live, Placing
<1>16. ASSUME NEW c \in CLIs, ForegroundTry(c) PROVE Forked'
  BY <1>16 DEF ForegroundTry, TypeOK, Equipped, Forked, Actors, Procs, WithChild, Live, Placing
<1>17. ASSUME NEW c \in CLIs, ForegroundRecord(c) PROVE Forked'
  BY <1>17 DEF ForegroundRecord, TypeOK, Equipped, Forked, Actors, Procs, WithChild, Live, Placing
<1>18. ASSUME NEW c \in CLIs, CommandRead(c) PROVE Forked'
  BY <1>18 DEF CommandRead, Finish, Lose, Held, WaitersOf, Running, TypeOK, Equipped, Forked, Actors, Procs, WithChild, Live, Placing
<1>19. ASSUME NEW c \in CLIs, RmRemove(c) PROVE Forked'
  BY <1>19 DEF RmRemove, Finish, Lose, Held, WaitersOf, TypeOK, Equipped, Forked, Actors, Procs, WithChild, Live, Placing
<1>20. ASSUME NEW c \in CLIs, KillGuest(c) PROVE Forked'
  BY <1>20 DEF KillGuest, HasGuest, TypeOK, Equipped, Forked, Actors, Procs, WithChild, Live, Placing
<1>21. ASSUME NEW c \in CLIs, KillHost(c) PROVE Forked'
  BY <1>21 DEF KillHost, TypeOK, Equipped, Forked, Actors, Procs, WithChild, Live, Placing
<1>22. ASSUME NEW c \in CLIs, KillReap(c) PROVE Forked'
  BY <1>22 DEF KillReap, Finish, Lose, Held, WaitersOf, AfterKill, TypeOK, Equipped, Forked, Actors, Procs, WithChild, Live, Placing
<1>23. ASSUME NEW c \in CLIs, KillTimesOut(c) PROVE Forked'
  BY <1>23 DEF KillTimesOut, Finish, Lose, Held, WaitersOf, TypeOK, Equipped, Forked, Actors, Procs, WithChild, Live, Placing
<1>24. ASSUME NEW c \in CLIs, StopWrite(c) PROVE Forked'
  BY <1>24 DEF StopWrite, Finish, Lose, Held, WaitersOf, TypeOK, Equipped, Forked, Actors, Procs, WithChild, Live, Placing
<1>25. ASSUME NEW c \in CLIs, ForegroundEnds(c) PROVE Forked'
  BY <1>25 DEF ForegroundEnds, PowerOff, Fault, TypeOK, Equipped, Forked, Actors, Procs, WithChild, Live, Placing
<1>26. ASSUME NEW c \in CLIs, CLICrash(c) PROVE Forked'
  BY <1>26 DEF CLICrash, Finish, Lose, Held, WaitersOf, Fault, Orphan, TypeOK, Equipped, Forked, Actors, Procs, WithChild, Live, Placing
<1>27. ASSUME NEW i \in Insts, VMMLoad(i) PROVE Forked'
  BY <1>27 DEF VMMLoad, Phases, vmmOnly, Reports, TypeOK, Equipped, Forked, Actors, Procs, WithChild, Live, Placing
<1>28. ASSUME NEW i \in Insts, VMMReady(i) PROVE Forked'
  BY <1>28 DEF VMMReady, Phases, vmmOnly, Reports, TypeOK, Equipped, Forked, Actors, Procs, WithChild, Live, Placing
<1>29. ASSUME NEW i \in Insts, VMMFails(i) PROVE Forked'
  BY <1>29 DEF VMMFails, Phases, vmmOnly, Reports, TypeOK, Equipped, Forked, Actors, Procs, WithChild, Live, Placing
<1>30. ASSUME NEW i \in Insts, VMMEnds(i) PROVE Forked'
  BY <1>30 DEF VMMEnds, Phases, vmmOnly, PowerOff, Fault, TypeOK, Equipped, Forked, Actors, Procs, WithChild, Live, Placing
<1>31. ASSUME NEW i \in Insts, VMMTry(i) PROVE Forked'
  BY <1>31 DEF VMMTry, Phases, vmmOnly, TypeOK, Equipped, Forked, Actors, Procs, WithChild, Live, Placing
<1>32. ASSUME NEW i \in Insts, VMMRecord(i) PROVE Forked'
  BY <1>32 DEF VMMRecord, Phases, vmmOnly, TypeOK, Equipped, Forked, Actors, Procs, WithChild, Live, Placing
<1>33. ASSUME NEW i \in Insts, VMMExit(i) PROVE Forked'
  BY <1>33 DEF VMMExit, Phases, vmmOnly, Fault, TypeOK, Equipped, Forked, Actors, Procs, WithChild, Live, Placing
<1>34. ASSUME NEW i \in Insts, WaiterReturns(i) PROVE Forked'
  BY <1>34 DEF WaiterReturns, Waits, TypeOK, Equipped, Forked, Actors, Procs, WithChild, Live, Placing
<1>35. ASSUME NEW i \in Insts, WaiterSelect(i) PROVE Forked'
  BY <1>35 DEF WaiterSelect, Waits, TypeOK, Equipped, Forked, Actors, Procs, WithChild, Live, Placing
<1>36. ASSUME NEW i \in Insts, WaiterAcquire(i) PROVE Forked'
  BY <1>36 DEF WaiterAcquire, Waits, TypeOK, Equipped, Forked, Actors, Procs, WithChild, Live, Placing
<1>37. ASSUME NEW i \in Insts, WaiterTimesOut(i) PROVE Forked'
  BY <1>37 DEF WaiterTimesOut, Waits, WaiterEnds, TypeOK, Equipped, Forked, Actors, Procs, WithChild, Live, Placing
<1>38. ASSUME NEW i \in Insts, WaiterRead(i) PROVE Forked'
  BY <1>38 DEF WaiterRead, Waits, WaiterEnds, Owed, Owns, TypeOK, Equipped, Forked, Actors, Procs, WithChild, Live, Placing
<1>39. ASSUME NEW i \in Insts, WaiterWrite(i) PROVE Forked'
  BY <1>39 DEF WaiterWrite, Waits, WaiterEnds, TypeOK, Equipped, Forked, Actors, Procs, WithChild, Live, Placing
<1>40. ASSUME Tick PROVE Forked'
  BY <1>40 DEF Tick, Down, Running, TypeOK, Equipped, Forked, Actors, Procs, WithChild, Live, Placing
<1>41. ASSUME RecoverTry PROVE Forked'
  BY <1>41 DEF RecoverTry, TypeOK, Equipped, Forked, Actors, Procs, WithChild, Live, Placing
<1>42. ASSUME RecoverRecheck PROVE Forked'
  BY <1>42 DEF RecoverRecheck, Finish, Lose, Held, WaitersOf, Unneeded, Running, TypeOK, Equipped, Forked, Actors, Procs, WithChild, Live, Placing
<1>43. ASSUME RecoverKillOld PROVE Forked'
  BY <1>43 DEF RecoverKillOld, TypeOK, Equipped, Forked, Actors, Procs, WithChild, Live, Placing
<1>44. ASSUME RecoverLatest PROVE Forked'
  BY <1>44 DEF RecoverLatest, Finish, Lose, Held, WaitersOf, Unneeded, Running, TypeOK, Equipped, Forked, Actors, Procs, WithChild, Live, Placing
<1>45. ASSUME DaemonCrash PROVE Forked'
  BY <1>45 DEF DaemonCrash, Lose, Held, WaitersOf, Fault, Orphan, TypeOK, Equipped, Forked, Actors, Procs, WithChild, Live, Placing
<1>46. ASSUME DaemonStart PROVE Forked'
  BY <1>46 DEF DaemonStart, TypeOK, Equipped, Forked, Actors, Procs, WithChild, Live, Placing
<1>47. ASSUME UNCHANGED vars PROVE Forked'
  BY <1>47 DEF vars, TypeOK, Equipped, Forked, Actors, Procs, WithChild, Live, Placing
<1> HIDE DEF Forked, Inv
<1> QED
  BY <1>1, <1>2, <1>3, <1>4, <1>5, <1>6, <1>7, <1>8, <1>9, <1>10, <1>11, <1>12, <1>13, <1>14, <1>15, <1>16, <1>17, <1>18, <1>19, <1>20, <1>21, <1>22, <1>23, <1>24, <1>25, <1>26, <1>27, <1>28, <1>29, <1>30, <1>31, <1>32, <1>33, <1>34, <1>35, <1>36, <1>37, <1>38, <1>39, <1>40, <1>41, <1>42, <1>43, <1>44, <1>45, <1>46, <1>47, Zenon
  DEF Next, Place, Command, VMMStep, WaiterStep, Recover

\* One VM, on record.
LEMMA GuardedStep ==
  ASSUME Inv, [Next]_vars
  PROVE  Guarded'
<1> USE VMLifecycleAssumption, NoRecAssumption
<1> USE DEF Inv, vmmVars, waitVars, sigVars, localVars, history, Goto
<1>1. ASSUME NEW c \in CLIs, NEW o \in Ops, Start(c, o) PROVE Guarded'
  BY <1>1 DEF Start, TypeOK, Equipped, LockHeld, Forked, Guarded, OnRecord, HolderKnows, Present, Writes, Placing, Live, Actors, Procs, Locked, Working, WithChild, OwnRun, Killing, CLIOnly, RecoveryOnly, Removes
<1>2. ASSUME NEW a \in Actors, Acquire(a) PROVE Guarded'
  BY <1>2 DEF Acquire, Entry, TypeOK, Equipped, LockHeld, Forked, Guarded, OnRecord, HolderKnows, Present, Writes, Placing, Live, Actors, Procs, Locked, Working, WithChild, OwnRun, Killing, CLIOnly, RecoveryOnly, Removes
<1>3. ASSUME NEW a \in Actors, AcquireTimesOut(a) PROVE Guarded'
  BY <1>3 DEF AcquireTimesOut, Finish, Lose, Held, WaitersOf, TypeOK, Equipped, LockHeld, Forked, Guarded, OnRecord, HolderKnows, Present, Writes, Placing, Live, Actors, Procs, Locked, Working, WithChild, OwnRun, Killing, CLIOnly, RecoveryOnly, Removes
<1>4. ASSUME NEW a \in Actors, RunCheck(a) PROVE Guarded'
  BY <1>4 DEF RunCheck, Finish, Lose, Held, WaitersOf, Running, TypeOK, Equipped, LockHeld, Forked, Guarded, OnRecord, HolderKnows, Present, Writes, Placing, Live, Actors, Procs, Locked, Working, WithChild, OwnRun, Killing, CLIOnly, RecoveryOnly, Removes
<1>5. ASSUME NEW a \in Actors, Prepare(a) PROVE Guarded'
  BY <1>5 DEF Prepare, TypeOK, Equipped, LockHeld, Forked, Guarded, OnRecord, HolderKnows, Present, Writes, Placing, Live, Actors, Procs, Locked, Working, WithChild, OwnRun, Killing, CLIOnly, RecoveryOnly, Removes
<1>6. ASSUME NEW a \in Actors, PlacementFails(a) PROVE Guarded'
  BY <1>6 DEF PlacementFails, Finish, Lose, Held, WaitersOf, TypeOK, Equipped, LockHeld, Forked, Guarded, OnRecord, HolderKnows, Present, Writes, Placing, Live, Actors, Procs, Locked, Working, WithChild, OwnRun, Killing, CLIOnly, RecoveryOnly, Removes
<1>7. ASSUME NEW a \in Actors, Delegate(a) PROVE Guarded'
  BY <1>7 DEF Delegate, TypeOK, Equipped, LockHeld, Forked, Guarded, OnRecord, HolderKnows, Present, Writes, Placing, Live, Actors, Procs, Locked, Working, WithChild, OwnRun, Killing, CLIOnly, RecoveryOnly, Removes
<1>8. ASSUME NEW a \in Actors, Fork(a) PROVE Guarded'
  <2>0. SUFFICES ASSUME ~unguarded', ~unguarded PROVE OnRecord' /\ HolderKnows'
    BY <1>8 DEF Fork, Guarded
  <2>1. PICK i \in Fresh : /\ vmm' = [vmm EXCEPT ![i] = "start"]
                          /\ wpc' = [wpc EXCEPT ![i] = "none"]
                          /\ child' = [child EXCEPT ![a] = i]
    BY <1>8 DEF Fork
  <2>2. /\ pc[a] = "place" /\ pc' = [pc EXCEPT ![a] = "publish"]
        /\ UNCHANGED <<rec, lock, orphans, own, wread>>
    BY <1>8 DEF Fork
  <2>3. /\ \A b \in Actors : pc[b] \in Locked => b = a
        /\ \A j \in Insts : wpc[j] \notin {"lread", "lwrite"}
    BY <2>2, LockAlone DEF Locked
  <2>4. i \in Insts /\ vmm[i] = "none"
    BY DEF Fresh
  <2>5. Present = {}
    BY <2>0, <2>2 DEF Guarded, HolderKnows
  <2>6. \A p \in Present' : p = i
    BY <2>1, <2>2, <2>4, <2>5 DEF Present, TypeOK
  <2>7. pc'[a] = "publish" /\ child'[a] = i /\ \A b \in Actors : b # a => pc'[b] = pc[b]
    BY <2>1, <2>2 DEF TypeOK
  <2>8. OnRecord'
    BY <2>6, <2>7 DEF OnRecord
  <2>9. \A b \in Actors : pc'[b] \in Locked => b = a
    BY <2>3, <2>7
  <2>10. \A j \in Insts : ~Writes(j)'
    BY <2>1, <2>3, <2>4, <2>7, <2>9 DEF Writes, Placing, Locked, TypeOK
  <2> QED
    BY <2>6, <2>7, <2>8, <2>9, <2>10 DEF HolderKnows, Locked, Killing
<1>9. ASSUME NEW a \in Actors, Publish(a) PROVE Guarded'
  <2>0. SUFFICES ASSUME ~unguarded', ~unguarded PROVE OnRecord' /\ HolderKnows'
    BY <1>9 DEF Publish, Guarded
  <2>1. own[a] \in Record /\ child[a] \in Insts
    BY <1>9 DEF Publish, Equipped, Working, WithChild
  <2>2. rec' # NoRec /\ rec'.pid = child[a]
    BY <1>9, <2>1 DEF Publish, Record, Status, Procs
  <2>3. /\ pc[a] = "publish" /\ pc' = [pc EXCEPT ![a] = "await"]
        /\ UNCHANGED <<lock, orphans, child, vmm>>
        /\ wpc' = [wpc EXCEPT ![child[a]] = "wait"]
    BY <1>9 DEF Publish
  <2>4. /\ \A b \in Actors : pc[b] \in Locked => b = a
        /\ \A j \in Insts : wpc[j] \notin {"lread", "lwrite"}
    BY <2>3, LockAlone DEF Locked
  <2>5. \A p \in Present : p = child[a]
    BY <2>0, <2>3 DEF Guarded, HolderKnows
  <2>6. \A b \in Actors : pc'[b] = IF b = a THEN "await" ELSE pc[b]
    BY <2>3 DEF TypeOK
  <2>7. Present' \subseteq Present
    BY <2>3, <2>6 DEF Present, Actors
  <2>8. OnRecord'
    BY <2>2, <2>5, <2>7 DEF OnRecord
  <2>9. \A j \in Insts : ~Writes(j)'
    BY <2>1, <2>3, <2>4, <2>6 DEF Writes, Placing, Locked, TypeOK
  <2> QED
    BY <2>2, <2>3, <2>4, <2>6, <2>8, <2>9 DEF HolderKnows, Locked, Killing
<1>10. ASSUME NEW a \in Actors, AwaitReady(a) PROVE Guarded'
  BY <1>10 DEF AwaitReady, Finish, Lose, Held, WaitersOf, Placed, TypeOK, Equipped, LockHeld, Forked, Guarded, OnRecord, HolderKnows, Present, Writes, Placing, Live, Actors, Procs, Locked, Working, WithChild, OwnRun, Killing, CLIOnly, RecoveryOnly, Removes
<1>11. ASSUME NEW a \in Actors, AwaitFails(a) PROVE Guarded'
  BY <1>11 DEF AwaitFails, TypeOK, Equipped, LockHeld, Forked, Guarded, OnRecord, HolderKnows, Present, Writes, Placing, Live, Actors, Procs, Locked, Working, WithChild, OwnRun, Killing, CLIOnly, RecoveryOnly, Removes
<1>12. ASSUME NEW a \in Actors, AwaitTimesOut(a) PROVE Guarded'
  BY <1>12 DEF AwaitTimesOut, TypeOK, Equipped, LockHeld, Forked, Guarded, OnRecord, HolderKnows, Present, Writes, Placing, Live, Actors, Procs, Locked, Working, WithChild, OwnRun, Killing, CLIOnly, RecoveryOnly, Removes
<1>13. ASSUME NEW a \in Actors, WaitExit(a) PROVE Guarded'
  BY <1>13 DEF WaitExit, Finish, Lose, Held, WaitersOf, Placed, TypeOK, Equipped, LockHeld, Forked, Guarded, OnRecord, HolderKnows, Present, Writes, Placing, Live, Actors, Procs, Locked, Working, WithChild, OwnRun, Killing, CLIOnly, RecoveryOnly, Removes
<1>14. ASSUME NEW c \in CLIs, CLIExit(c) PROVE Guarded'
  BY <1>14 DEF CLIExit, Finish, Lose, Held, WaitersOf, TypeOK, Equipped, LockHeld, Forked, Guarded, OnRecord, HolderKnows, Present, Writes, Placing, Live, Actors, Procs, Locked, Working, WithChild, OwnRun, Killing, CLIOnly, RecoveryOnly, Removes
<1>15. ASSUME NEW c \in CLIs, Foreground(c) PROVE Guarded'
  <2>0. SUFFICES ASSUME ~unguarded', ~unguarded PROVE OnRecord' /\ HolderKnows'
    BY <1>15 DEF Foreground, Guarded
  <2>1. c \in Actors /\ c # Recovery
    BY <1>15 DEF Foreground, Actors
  <2>2. own[c] \in Record /\ own[c].pid = c
    BY <1>15, <2>1 DEF Foreground, Equipped, Working, OwnRun
  <2>3. rec' # NoRec /\ rec'.pid = c
    BY <1>15, <2>2 DEF Foreground, Record, Status
  <2>4. /\ pc[c] = "place" /\ pc' = [pc EXCEPT ![c] = "vm"]
        /\ UNCHANGED <<orphans, child, vmm, wpc>>
    BY <1>15 DEF Foreground
  <2>5. /\ \A b \in Actors : pc[b] \in Locked => b = c
        /\ \A j \in Insts : wpc[j] \notin {"lread", "lwrite"}
    BY <2>1, <2>4, LockAlone DEF Locked
  <2>6. \A b \in Actors : pc'[b] = IF b = c THEN "vm" ELSE pc[b]
    BY <2>4 DEF TypeOK
  <2>7. \A p \in Present' : p = c
    <3>1. Present = {}
      BY <2>0, <2>1, <2>4 DEF Guarded, HolderKnows
    <3> QED
      BY <2>4, <2>6, <3>1 DEF Present, Actors
  <2>8. OnRecord'
    BY <2>3, <2>7 DEF OnRecord
  <2>9. \A b \in Actors : pc'[b] \notin Locked
    BY <2>5, <2>6 DEF Locked
  <2>10. \A j \in Insts : ~Writes(j)'
    BY <2>4, <2>5, <2>9 DEF Writes, Placing, Locked
  <2> QED
    BY <2>8, <2>9, <2>10 DEF HolderKnows, Locked, Killing
<1>16. ASSUME NEW c \in CLIs, ForegroundTry(c) PROVE Guarded'
  BY <1>16 DEF ForegroundTry, TypeOK, Equipped, LockHeld, Forked, Guarded, OnRecord, HolderKnows, Present, Writes, Placing, Live, Actors, Procs, Locked, Working, WithChild, OwnRun, Killing, CLIOnly, RecoveryOnly, Removes
<1>17. ASSUME NEW c \in CLIs, ForegroundRecord(c) PROVE Guarded'
  BY <1>17 DEF ForegroundRecord, TypeOK, Equipped, LockHeld, Forked, Guarded, OnRecord, HolderKnows, Present, Writes, Placing, Live, Actors, Procs, Locked, Working, WithChild, OwnRun, Killing, CLIOnly, RecoveryOnly, Removes
<1>18. ASSUME NEW c \in CLIs, CommandRead(c) PROVE Guarded'
  BY <1>18 DEF CommandRead, Finish, Lose, Held, WaitersOf, Running, TypeOK, Equipped, LockHeld, Forked, Guarded, OnRecord, HolderKnows, Present, Writes, Placing, Live, Actors, Procs, Locked, Working, WithChild, OwnRun, Killing, CLIOnly, RecoveryOnly, Removes
<1>19. ASSUME NEW c \in CLIs, RmRemove(c) PROVE Guarded'
  BY <1>19 DEF RmRemove, Finish, Lose, Held, WaitersOf, TypeOK, Equipped, LockHeld, Forked, Guarded, OnRecord, HolderKnows, Present, Writes, Placing, Live, Actors, Procs, Locked, Working, WithChild, OwnRun, Killing, CLIOnly, RecoveryOnly, Removes
<1>20. ASSUME NEW c \in CLIs, KillGuest(c) PROVE Guarded'
  BY <1>20 DEF KillGuest, HasGuest, TypeOK, Equipped, LockHeld, Forked, Guarded, OnRecord, HolderKnows, Present, Writes, Placing, Live, Actors, Procs, Locked, Working, WithChild, OwnRun, Killing, CLIOnly, RecoveryOnly, Removes
<1>21. ASSUME NEW c \in CLIs, KillHost(c) PROVE Guarded'
  BY <1>21 DEF KillHost, TypeOK, Equipped, LockHeld, Forked, Guarded, OnRecord, HolderKnows, Present, Writes, Placing, Live, Actors, Procs, Locked, Working, WithChild, OwnRun, Killing, CLIOnly, RecoveryOnly, Removes
<1>22. ASSUME NEW c \in CLIs, KillReap(c) PROVE Guarded'
  <2>0. SUFFICES ASSUME ~unguarded', ~unguarded PROVE OnRecord' /\ HolderKnows'
    BY <1>22 DEF KillReap, Guarded
  <2> DEFINE r == [own[c] EXCEPT !.status = "killed", !.pid = NoPid]
  <2>1. c \in Actors /\ c # Recovery /\ pc[c] \in Killing /\ own[c].pid \notin Live
    BY <1>22 DEF KillReap, Actors, Procs, Killing
  <2>2. own[c] \in Record
    BY <2>1 DEF Equipped, Working, Killing
  <2>3. r \in Record /\ r.mode = own[c].mode
    BY <2>2 DEF Record, Status
  <2>4. ~Removes(own[c]) => rec' # NoRec
    <3>1. rec' = IF own[c].pid = NoPid THEN r ELSE Ended(r, "killed")
      BY <1>22 DEF KillReap
    <3> HIDE DEF r
    <3> QED
      BY <2>3, <3>1, RecordFacts DEF Removes, Status
  <2>5. /\ \A b \in Actors : pc[b] \in Locked => b = c
        /\ \A j \in Insts : wpc[j] \notin {"lread", "lwrite"}
    BY <2>1, LockAlone DEF Locked, Killing
  <2>6. /\ \A b \in Actors : b # c => pc'[b] = pc[b]
        /\ pc'[c] = "done" \/ (pc'[c] = "stopwrite" /\ ~Removes(own[c]))
        /\ UNCHANGED <<orphans, vmm>>
        /\ \A j \in Insts : wpc'[j] = wpc[j] \/ wpc'[j] = "none"
    BY <1>22, <2>1 DEF KillReap, AfterKill, Finish, Lose, TypeOK
  <2>7. Present' = {}
    <3>1. Present = {}
      BY <2>0, <2>1 DEF Guarded, HolderKnows, Present, Live
    <3> QED
      BY <2>1, <2>6, <3>1 DEF Present, Actors
  <2>8. \A b \in Actors : pc'[b] \in Locked => b = c /\ pc'[c] = "stopwrite"
    BY <2>5, <2>6 DEF Locked
  <2>9. \A j \in Insts : ~Writes(j)'
    BY <2>5, <2>6, <2>8 DEF Writes, Placing, Locked
  <2> QED
    BY <2>4, <2>6, <2>7, <2>8, <2>9 DEF OnRecord, HolderKnows, Locked, Killing
<1>23. ASSUME NEW c \in CLIs, KillTimesOut(c) PROVE Guarded'
  BY <1>23, SMTT(30) DEF KillTimesOut, Finish, Lose, Held, WaitersOf, TypeOK, Equipped, LockHeld, Forked, Guarded, OnRecord, HolderKnows, Present, Writes, Placing, Live, Actors, Procs, Locked, Working, WithChild, OwnRun, Killing, CLIOnly, RecoveryOnly, Removes
<1>24. ASSUME NEW c \in CLIs, StopWrite(c) PROVE Guarded'
  BY <1>24 DEF StopWrite, Finish, Lose, Held, WaitersOf, TypeOK, Equipped, LockHeld, Forked, Guarded, OnRecord, HolderKnows, Present, Writes, Placing, Live, Actors, Procs, Locked, Working, WithChild, OwnRun, Killing, CLIOnly, RecoveryOnly, Removes
<1>25. ASSUME NEW c \in CLIs, ForegroundEnds(c) PROVE Guarded'
  BY <1>25 DEF ForegroundEnds, PowerOff, Fault, TypeOK, Equipped, LockHeld, Forked, Guarded, OnRecord, HolderKnows, Present, Writes, Placing, Live, Actors, Procs, Locked, Working, WithChild, OwnRun, Killing, CLIOnly, RecoveryOnly, Removes
<1>26. ASSUME NEW c \in CLIs, CLICrash(c) PROVE Guarded'
  BY <1>26 DEF CLICrash, Finish, Lose, Held, WaitersOf, Fault, Orphan, TypeOK, Equipped, LockHeld, Forked, Guarded, OnRecord, HolderKnows, Present, Writes, Placing, Live, Actors, Procs, Locked, Working, WithChild, OwnRun, Killing, CLIOnly, RecoveryOnly, Removes
<1>27. ASSUME NEW i \in Insts, VMMLoad(i) PROVE Guarded'
  BY <1>27 DEF VMMLoad, Phases, vmmOnly, Reports, TypeOK, Equipped, LockHeld, Forked, Guarded, OnRecord, HolderKnows, Present, Writes, Placing, Live, Actors, Procs, Locked, Working, WithChild, OwnRun, Killing, CLIOnly, RecoveryOnly, Removes
<1>28. ASSUME NEW i \in Insts, VMMReady(i) PROVE Guarded'
  BY <1>28 DEF VMMReady, Phases, vmmOnly, Reports, TypeOK, Equipped, LockHeld, Forked, Guarded, OnRecord, HolderKnows, Present, Writes, Placing, Live, Actors, Procs, Locked, Working, WithChild, OwnRun, Killing, CLIOnly, RecoveryOnly, Removes
<1>29. ASSUME NEW i \in Insts, VMMFails(i) PROVE Guarded'
  BY <1>29 DEF VMMFails, Phases, vmmOnly, Reports, TypeOK, Equipped, LockHeld, Forked, Guarded, OnRecord, HolderKnows, Present, Writes, Placing, Live, Actors, Procs, Locked, Working, WithChild, OwnRun, Killing, CLIOnly, RecoveryOnly, Removes
<1>30. ASSUME NEW i \in Insts, VMMEnds(i) PROVE Guarded'
  BY <1>30 DEF VMMEnds, Phases, vmmOnly, PowerOff, Fault, TypeOK, Equipped, LockHeld, Forked, Guarded, OnRecord, HolderKnows, Present, Writes, Placing, Live, Actors, Procs, Locked, Working, WithChild, OwnRun, Killing, CLIOnly, RecoveryOnly, Removes
<1>31. ASSUME NEW i \in Insts, VMMTry(i) PROVE Guarded'
  BY <1>31 DEF VMMTry, Phases, vmmOnly, TypeOK, Equipped, LockHeld, Forked, Guarded, OnRecord, HolderKnows, Present, Writes, Placing, Live, Actors, Procs, Locked, Working, WithChild, OwnRun, Killing, CLIOnly, RecoveryOnly, Removes
<1>32. ASSUME NEW i \in Insts, VMMRecord(i) PROVE Guarded'
  BY <1>32 DEF VMMRecord, Phases, vmmOnly, TypeOK, Equipped, LockHeld, Forked, Guarded, OnRecord, HolderKnows, Present, Writes, Placing, Live, Actors, Procs, Locked, Working, WithChild, OwnRun, Killing, CLIOnly, RecoveryOnly, Removes
<1>33. ASSUME NEW i \in Insts, VMMExit(i) PROVE Guarded'
  BY <1>33 DEF VMMExit, Phases, vmmOnly, Fault, TypeOK, Equipped, LockHeld, Forked, Guarded, OnRecord, HolderKnows, Present, Writes, Placing, Live, Actors, Procs, Locked, Working, WithChild, OwnRun, Killing, CLIOnly, RecoveryOnly, Removes
<1>34. ASSUME NEW i \in Insts, WaiterReturns(i) PROVE Guarded'
  BY <1>34 DEF WaiterReturns, Waits, TypeOK, Equipped, LockHeld, Forked, Guarded, OnRecord, HolderKnows, Present, Writes, Placing, Live, Actors, Procs, Locked, Working, WithChild, OwnRun, Killing, CLIOnly, RecoveryOnly, Removes
<1>35. ASSUME NEW i \in Insts, WaiterSelect(i) PROVE Guarded'
  BY <1>35 DEF WaiterSelect, Waits, TypeOK, Equipped, LockHeld, Forked, Guarded, OnRecord, HolderKnows, Present, Writes, Placing, Live, Actors, Procs, Locked, Working, WithChild, OwnRun, Killing, CLIOnly, RecoveryOnly, Removes
<1>36. ASSUME NEW i \in Insts, WaiterAcquire(i) PROVE Guarded'
  BY <1>36 DEF WaiterAcquire, Waits, TypeOK, Equipped, LockHeld, Forked, Guarded, OnRecord, HolderKnows, Present, Writes, Placing, Live, Actors, Procs, Locked, Working, WithChild, OwnRun, Killing, CLIOnly, RecoveryOnly, Removes
<1>37. ASSUME NEW i \in Insts, WaiterTimesOut(i) PROVE Guarded'
  BY <1>37 DEF WaiterTimesOut, Waits, WaiterEnds, TypeOK, Equipped, LockHeld, Forked, Guarded, OnRecord, HolderKnows, Present, Writes, Placing, Live, Actors, Procs, Locked, Working, WithChild, OwnRun, Killing, CLIOnly, RecoveryOnly, Removes
<1>38. ASSUME NEW i \in Insts, WaiterRead(i) PROVE Guarded'
  <2>0. SUFFICES ASSUME ~unguarded', ~unguarded PROVE OnRecord' /\ HolderKnows'
    BY <1>38 DEF WaiterRead, Guarded
  <2>1. /\ wpc[i] \in {"read", "lread"}
        /\ UNCHANGED <<rec, pc, vmm, orphans, child, own>>
    BY <1>38 DEF WaiterRead
  <2>2. Present' = Present
    BY <2>1 DEF Present
  <2>3. OnRecord /\ HolderKnows
    BY <2>0 DEF Guarded
  <2>4. OnRecord'
    BY <2>1, <2>2, <2>3 DEF OnRecord
  <2>5. \A j \in Insts : Placing(j)' <=> Placing(j)
    BY <2>1 DEF Placing
  <2>6. \A j \in Insts : j # i => wpc'[j] = wpc[j] /\ wread'[j] = wread[j]
    BY <1>38 DEF WaiterRead, Waits, WaiterEnds, TypeOK
  <2>7. ASSUME Writes(i)' PROVE Present = {} /\ (~Removes(wread'[i]) => rec # NoRec)
    <3>1. /\ wpc[i] = "lread" \/ (wpc[i] = "read" /\ Placing(i))
          /\ Owed(i)
      BY <1>38, <2>5, <2>7 DEF WaiterRead, Waits, WaiterEnds, Writes, TypeOK
    <3>2. wread' = IF Removes(wread[i]) THEN wread ELSE [wread EXCEPT ![i] = rec]
      BY <1>38, <3>1 DEF WaiterRead
    <3>3. ~Removes(wread'[i]) => rec # NoRec
      BY <3>1, <3>2 DEF Owed, Owns
    <3>4. vmm[i] = "none" /\ (rec = NoRec \/ rec.pid = i)
      BY <2>1, <3>1 DEF Forked, Owed, Owns
    <3>5. \A a \in Actors : pc[a] # "publish"
      BY <3>1, LockAlone DEF Locked, Forked, LockHeld
    <3> QED
      BY <2>3, <3>3, <3>4, <3>5 DEF OnRecord, Present, Procs
  <2>8. \A j \in Insts : Writes(j)' => Present = {} /\ (~Removes(wread'[j]) => rec # NoRec)
    BY <2>3, <2>5, <2>6, <2>7 DEF Writes, HolderKnows
  <2> QED
    BY <2>1, <2>2, <2>3, <2>4, <2>8 DEF HolderKnows
<1>39. ASSUME NEW i \in Insts, WaiterWrite(i) PROVE Guarded'
  <2>0. SUFFICES ASSUME ~unguarded', ~unguarded PROVE OnRecord' /\ HolderKnows'
    BY <1>39 DEF WaiterWrite, Guarded
  <2>1. /\ Writes(i) /\ wpc[i] \in {"write", "lwrite"}
        /\ rec' = Ended(wread[i], "exit")
        /\ UNCHANGED <<pc, vmm, orphans, child, own>>
    BY <1>39, <2>0 DEF WaiterWrite, Writes
  <2>2. Present' = {}
    <3>1. Present = {}
      BY <2>0, <2>1 DEF Guarded, HolderKnows
    <3> QED
      BY <2>1, <3>1 DEF Present
  <2>3. rec' = NoRec \/ rec'.pid = i
    <3>1. wread[i] \in Record /\ wread[i].pid = i
      BY <2>1 DEF Forked
    <3> QED
      BY <2>1, <3>1, RecordFacts DEF Status
  <2>4. \A a \in Actors : pc[a] \in Locked => pc[a] \in WithChild /\ child[a] = i
    BY <2>1, LockAlone DEF Writes
  <2>5. \A j \in Insts : j # i => wpc'[j] = wpc[j]
    BY <1>39 DEF WaiterWrite, Waits, WaiterEnds, TypeOK
  <2>6. wpc'[i] \notin {"write", "lwrite"}
    BY <1>39 DEF WaiterWrite, Waits, WaiterEnds, TypeOK
  <2>7. \A j \in Insts : ~Writes(j)'
    <3>1. SUFFICES ASSUME NEW j \in Insts, Writes(j)' PROVE FALSE
      OBVIOUS
    <3>2. j # i /\ Writes(j)
      BY <2>1, <2>5, <2>6, <3>1 DEF Writes, Placing
    <3>3. CASE Placing(j)
      BY <2>4, <3>2, <3>3 DEF Placing, Locked
    <3>4. CASE ~Placing(j)
      <4>1. wpc[j] = "lwrite"
        BY <3>2, <3>4 DEF Writes
      <4>2. wpc[i] = "write" /\ Placing(i)
        BY <2>1, <3>2, <4>1 DEF Writes, LockHeld
      <4> QED
        BY <4>1, <4>2, LockAlone DEF Placing, Locked
    <3> QED
      BY <3>3, <3>4
  <2> QED
    BY <2>1, <2>2, <2>3, <2>4, <2>7 DEF OnRecord, HolderKnows, Locked, Killing, WithChild
<1>40. ASSUME Tick PROVE Guarded'
  BY <1>40 DEF Tick, Down, Running, TypeOK, Equipped, LockHeld, Forked, Guarded, OnRecord, HolderKnows, Present, Writes, Placing, Live, Actors, Procs, Locked, Working, WithChild, OwnRun, Killing, CLIOnly, RecoveryOnly, Removes
<1>41. ASSUME RecoverTry PROVE Guarded'
  BY <1>41 DEF RecoverTry, TypeOK, Equipped, LockHeld, Forked, Guarded, OnRecord, HolderKnows, Present, Writes, Placing, Live, Actors, Procs, Locked, Working, WithChild, OwnRun, Killing, CLIOnly, RecoveryOnly, Removes
<1>42. ASSUME RecoverRecheck PROVE Guarded'
  BY <1>42 DEF RecoverRecheck, Finish, Lose, Held, WaitersOf, Unneeded, Running, TypeOK, Equipped, LockHeld, Forked, Guarded, OnRecord, HolderKnows, Present, Writes, Placing, Live, Actors, Procs, Locked, Working, WithChild, OwnRun, Killing, CLIOnly, RecoveryOnly, Removes
<1>43. ASSUME RecoverKillOld PROVE Guarded'
  <2>0. SUFFICES ASSUME ~unguarded', ~unguarded PROVE OnRecord' /\ HolderKnows'
    BY <1>43 DEF RecoverKillOld, Guarded
  <2>1. Recovery \in Actors
    BY DEF Actors
  <2>2. /\ pc[Recovery] = "killold" /\ pc' = [pc EXCEPT ![Recovery] = "latest"]
        /\ UNCHANGED <<orphans, vmm, wpc, child>>
    BY <1>43 DEF RecoverKillOld
  <2>3. own[Recovery] \in Record
    BY <2>1, <2>2 DEF Equipped, Working
  <2>4. /\ \A b \in Actors : pc[b] \in Locked => b = Recovery
        /\ \A j \in Insts : wpc[j] \notin {"lread", "lwrite"}
    BY <2>1, <2>2, LockAlone DEF Locked
  <2>5. \A b \in Actors : pc'[b] = IF b = Recovery THEN "latest" ELSE pc[b]
    BY <2>2 DEF TypeOK
  <2>6. Present' = {}
    <3>1. Present = {}
      BY <2>0, <2>1, <2>2 DEF Guarded, HolderKnows
    <3> QED
      BY <2>2, <2>5, <3>1 DEF Present, Actors
  <2>7. \A b \in Actors : pc'[b] \in Locked => pc'[b] = "latest"
    BY <2>4, <2>5
  <2>8. \A j \in Insts : ~Writes(j)'
    BY <2>2, <2>4, <2>7 DEF Writes, Placing, Locked
  <2> QED
    BY <2>6, <2>7, <2>8 DEF OnRecord, HolderKnows, Locked, Killing
<1>44. ASSUME RecoverLatest PROVE Guarded'
  BY <1>44 DEF RecoverLatest, Finish, Lose, Held, WaitersOf, Unneeded, Running, TypeOK, Equipped, LockHeld, Forked, Guarded, OnRecord, HolderKnows, Present, Writes, Placing, Live, Actors, Procs, Locked, Working, WithChild, OwnRun, Killing, CLIOnly, RecoveryOnly, Removes
<1>45. ASSUME DaemonCrash PROVE Guarded'
  BY <1>45 DEF DaemonCrash, Lose, Held, WaitersOf, Fault, Orphan, TypeOK, Equipped, LockHeld, Forked, Guarded, OnRecord, HolderKnows, Present, Writes, Placing, Live, Actors, Procs, Locked, Working, WithChild, OwnRun, Killing, CLIOnly, RecoveryOnly, Removes
<1>46. ASSUME DaemonStart PROVE Guarded'
  BY <1>46 DEF DaemonStart, TypeOK, Equipped, LockHeld, Forked, Guarded, OnRecord, HolderKnows, Present, Writes, Placing, Live, Actors, Procs, Locked, Working, WithChild, OwnRun, Killing, CLIOnly, RecoveryOnly, Removes
<1>47. ASSUME UNCHANGED vars PROVE Guarded'
  BY <1>47 DEF vars, TypeOK, Equipped, LockHeld, Forked, Guarded, OnRecord, HolderKnows, Present, Writes, Placing, Live, Actors, Procs, Locked, Working, WithChild, OwnRun, Killing, CLIOnly, RecoveryOnly, Removes
<1> HIDE DEF Guarded, Inv
<1> QED
  BY <1>1, <1>2, <1>3, <1>4, <1>5, <1>6, <1>7, <1>8, <1>9, <1>10, <1>11, <1>12, <1>13, <1>14, <1>15, <1>16, <1>17, <1>18, <1>19, <1>20, <1>21, <1>22, <1>23, <1>24, <1>25, <1>26, <1>27, <1>28, <1>29, <1>30, <1>31, <1>32, <1>33, <1>34, <1>35, <1>36, <1>37, <1>38, <1>39, <1>40, <1>41, <1>42, <1>43, <1>44, <1>45, <1>46, <1>47, Zenon
  DEF Next, Place, Command, VMMStep, WaiterStep, Recover

\* A stop is kept.
LEMMA StopKeptStep ==
  ASSUME Inv, [Next]_vars
  PROVE  StopKept'
<1> USE VMLifecycleAssumption, NoRecAssumption
<1> USE DEF Inv, vmmVars, waitVars, sigVars, localVars, history, Goto
<1>1. ASSUME NEW c \in CLIs, NEW o \in Ops, Start(c, o) PROVE StopKept'
  BY <1>1 DEF Start, TypeOK, Equipped, LockHeld, Forked, StopKept, Guarded, HolderKnows, Writes, Placing, Live, Actors, Procs, Locked, Working, WithChild, OwnRun, Killing, CLIOnly, RecoveryOnly, Removes
<1>2. ASSUME NEW a \in Actors, Acquire(a) PROVE StopKept'
  BY <1>2 DEF Acquire, Entry, TypeOK, Equipped, LockHeld, Forked, StopKept, Guarded, HolderKnows, Writes, Placing, Live, Actors, Procs, Locked, Working, WithChild, OwnRun, Killing, CLIOnly, RecoveryOnly, Removes
<1>3. ASSUME NEW a \in Actors, AcquireTimesOut(a) PROVE StopKept'
  BY <1>3 DEF AcquireTimesOut, Finish, Lose, Held, WaitersOf, TypeOK, Equipped, LockHeld, Forked, StopKept, Guarded, HolderKnows, Writes, Placing, Live, Actors, Procs, Locked, Working, WithChild, OwnRun, Killing, CLIOnly, RecoveryOnly, Removes
<1>4. ASSUME NEW a \in Actors, RunCheck(a) PROVE StopKept'
  BY <1>4 DEF RunCheck, Finish, Lose, Held, WaitersOf, Running, TypeOK, Equipped, LockHeld, Forked, StopKept, Guarded, HolderKnows, Writes, Placing, Live, Actors, Procs, Locked, Working, WithChild, OwnRun, Killing, CLIOnly, RecoveryOnly, Removes
<1>5. ASSUME NEW a \in Actors, Prepare(a) PROVE StopKept'
  BY <1>5 DEF Prepare, TypeOK, Equipped, LockHeld, Forked, StopKept, Guarded, HolderKnows, Writes, Placing, Live, Actors, Procs, Locked, Working, WithChild, OwnRun, Killing, CLIOnly, RecoveryOnly, Removes
<1>6. ASSUME NEW a \in Actors, PlacementFails(a) PROVE StopKept'
  BY <1>6 DEF PlacementFails, Finish, Lose, Held, WaitersOf, TypeOK, Equipped, LockHeld, Forked, StopKept, Guarded, HolderKnows, Writes, Placing, Live, Actors, Procs, Locked, Working, WithChild, OwnRun, Killing, CLIOnly, RecoveryOnly, Removes
<1>7. ASSUME NEW a \in Actors, Delegate(a) PROVE StopKept'
  BY <1>7 DEF Delegate, TypeOK, Equipped, LockHeld, Forked, StopKept, Guarded, HolderKnows, Writes, Placing, Live, Actors, Procs, Locked, Working, WithChild, OwnRun, Killing, CLIOnly, RecoveryOnly, Removes
<1>8. ASSUME NEW a \in Actors, Fork(a) PROVE StopKept'
  BY <1>8 DEF Fork, Fresh, TypeOK, Equipped, LockHeld, Forked, StopKept, Guarded, HolderKnows, Writes, Placing, Live, Actors, Procs, Locked, Working, WithChild, OwnRun, Killing, CLIOnly, RecoveryOnly, Removes
<1>9. ASSUME NEW a \in Actors, Publish(a) PROVE StopKept'
  BY <1>9 DEF Publish, TypeOK, Equipped, LockHeld, Forked, StopKept, Guarded, HolderKnows, Writes, Placing, Live, Actors, Procs, Locked, Working, WithChild, OwnRun, Killing, CLIOnly, RecoveryOnly, Removes
<1>10. ASSUME NEW a \in Actors, AwaitReady(a) PROVE StopKept'
  BY <1>10 DEF AwaitReady, Finish, Lose, Held, WaitersOf, Placed, TypeOK, Equipped, LockHeld, Forked, StopKept, Guarded, HolderKnows, Writes, Placing, Live, Actors, Procs, Locked, Working, WithChild, OwnRun, Killing, CLIOnly, RecoveryOnly, Removes
<1>11. ASSUME NEW a \in Actors, AwaitFails(a) PROVE StopKept'
  BY <1>11 DEF AwaitFails, TypeOK, Equipped, LockHeld, Forked, StopKept, Guarded, HolderKnows, Writes, Placing, Live, Actors, Procs, Locked, Working, WithChild, OwnRun, Killing, CLIOnly, RecoveryOnly, Removes
<1>12. ASSUME NEW a \in Actors, AwaitTimesOut(a) PROVE StopKept'
  BY <1>12 DEF AwaitTimesOut, TypeOK, Equipped, LockHeld, Forked, StopKept, Guarded, HolderKnows, Writes, Placing, Live, Actors, Procs, Locked, Working, WithChild, OwnRun, Killing, CLIOnly, RecoveryOnly, Removes
<1>13. ASSUME NEW a \in Actors, WaitExit(a) PROVE StopKept'
  BY <1>13 DEF WaitExit, Finish, Lose, Held, WaitersOf, Placed, TypeOK, Equipped, LockHeld, Forked, StopKept, Guarded, HolderKnows, Writes, Placing, Live, Actors, Procs, Locked, Working, WithChild, OwnRun, Killing, CLIOnly, RecoveryOnly, Removes
<1>14. ASSUME NEW c \in CLIs, CLIExit(c) PROVE StopKept'
  BY <1>14 DEF CLIExit, Finish, Lose, Held, WaitersOf, TypeOK, Equipped, LockHeld, Forked, StopKept, Guarded, HolderKnows, Writes, Placing, Live, Actors, Procs, Locked, Working, WithChild, OwnRun, Killing, CLIOnly, RecoveryOnly, Removes
<1>15. ASSUME NEW c \in CLIs, Foreground(c) PROVE StopKept'
  BY <1>15 DEF Foreground, TypeOK, Equipped, LockHeld, Forked, StopKept, Guarded, HolderKnows, Writes, Placing, Live, Actors, Procs, Locked, Working, WithChild, OwnRun, Killing, CLIOnly, RecoveryOnly, Removes
<1>16. ASSUME NEW c \in CLIs, ForegroundTry(c) PROVE StopKept'
  BY <1>16 DEF ForegroundTry, TypeOK, Equipped, LockHeld, Forked, StopKept, Guarded, HolderKnows, Writes, Placing, Live, Actors, Procs, Locked, Working, WithChild, OwnRun, Killing, CLIOnly, RecoveryOnly, Removes
<1>17. ASSUME NEW c \in CLIs, ForegroundRecord(c) PROVE StopKept'
  BY <1>17 DEF ForegroundRecord, TypeOK, Equipped, LockHeld, Forked, StopKept, Guarded, HolderKnows, Writes, Placing, Live, Actors, Procs, Locked, Working, WithChild, OwnRun, Killing, CLIOnly, RecoveryOnly, Removes
<1>18. ASSUME NEW c \in CLIs, CommandRead(c) PROVE StopKept'
  BY <1>18 DEF CommandRead, Finish, Lose, Held, WaitersOf, Running, TypeOK, Equipped, LockHeld, Forked, StopKept, Guarded, HolderKnows, Writes, Placing, Live, Actors, Procs, Locked, Working, WithChild, OwnRun, Killing, CLIOnly, RecoveryOnly, Removes
<1>19. ASSUME NEW c \in CLIs, RmRemove(c) PROVE StopKept'
  BY <1>19 DEF RmRemove, Finish, Lose, Held, WaitersOf, TypeOK, Equipped, LockHeld, Forked, StopKept, Guarded, HolderKnows, Writes, Placing, Live, Actors, Procs, Locked, Working, WithChild, OwnRun, Killing, CLIOnly, RecoveryOnly, Removes
<1>20. ASSUME NEW c \in CLIs, KillGuest(c) PROVE StopKept'
  BY <1>20 DEF KillGuest, HasGuest, TypeOK, Equipped, LockHeld, Forked, StopKept, Guarded, HolderKnows, Writes, Placing, Live, Actors, Procs, Locked, Working, WithChild, OwnRun, Killing, CLIOnly, RecoveryOnly, Removes
<1>21. ASSUME NEW c \in CLIs, KillHost(c) PROVE StopKept'
  BY <1>21 DEF KillHost, TypeOK, Equipped, LockHeld, Forked, StopKept, Guarded, HolderKnows, Writes, Placing, Live, Actors, Procs, Locked, Working, WithChild, OwnRun, Killing, CLIOnly, RecoveryOnly, Removes
<1>22. ASSUME NEW c \in CLIs, KillReap(c) PROVE StopKept'
  BY <1>22 DEF KillReap, Finish, Lose, Held, WaitersOf, AfterKill, TypeOK, Equipped, LockHeld, Forked, StopKept, Guarded, HolderKnows, Writes, Placing, Live, Actors, Procs, Locked, Working, WithChild, OwnRun, Killing, CLIOnly, RecoveryOnly, Removes
<1>23. ASSUME NEW c \in CLIs, KillTimesOut(c) PROVE StopKept'
  BY <1>23 DEF KillTimesOut, Finish, Lose, Held, WaitersOf, TypeOK, Equipped, LockHeld, Forked, StopKept, Guarded, HolderKnows, Writes, Placing, Live, Actors, Procs, Locked, Working, WithChild, OwnRun, Killing, CLIOnly, RecoveryOnly, Removes
<1>24. ASSUME NEW c \in CLIs, StopWrite(c) PROVE StopKept'
  <2>1. c \in Actors /\ c # Recovery /\ pc[c] = "stopwrite"
    BY <1>24 DEF StopWrite, Actors, Procs
  <2>2. own[c] \in Record /\ own[c].pid = NoPid
    BY <2>1 DEF Equipped, Working
  <2>3. rec' # NoRec /\ rec'.status = "stop" /\ rec'.pid = NoPid
    BY <1>24, <2>2 DEF StopWrite, Record, Status
  <2>4. /\ \A b \in Actors : pc[b] \in Locked => b = c
        /\ \A j \in Insts : wpc[j] \notin {"lread", "lwrite"}
    BY <2>1, LockAlone DEF Locked
  <2>5. /\ \A b \in Actors : b # c => pc'[b] = pc[b]
        /\ pc'[c] = "done"
        /\ \A j \in Insts : wpc'[j] = wpc[j] \/ wpc'[j] = "none"
    BY <1>24, <2>1 DEF StopWrite, Finish, Lose, TypeOK
  <2>6. \A b \in Actors : pc'[b] \notin Locked
    BY <2>4, <2>5 DEF Locked
  <2>7. \A j \in Insts : ~Writes(j)'
    BY <2>4, <2>5, <2>6 DEF Writes, Placing, Locked
  <2> QED
    BY <2>3, <2>6, <2>7 DEF StopKept, Actors, Locked
<1>25. ASSUME NEW c \in CLIs, ForegroundEnds(c) PROVE StopKept'
  BY <1>25 DEF ForegroundEnds, PowerOff, Fault, TypeOK, Equipped, LockHeld, Forked, StopKept, Guarded, HolderKnows, Writes, Placing, Live, Actors, Procs, Locked, Working, WithChild, OwnRun, Killing, CLIOnly, RecoveryOnly, Removes
<1>26. ASSUME NEW c \in CLIs, CLICrash(c) PROVE StopKept'
  BY <1>26 DEF CLICrash, Finish, Lose, Held, WaitersOf, Fault, Orphan, TypeOK, Equipped, LockHeld, Forked, StopKept, Guarded, HolderKnows, Writes, Placing, Live, Actors, Procs, Locked, Working, WithChild, OwnRun, Killing, CLIOnly, RecoveryOnly, Removes
<1>27. ASSUME NEW i \in Insts, VMMLoad(i) PROVE StopKept'
  BY <1>27 DEF VMMLoad, Phases, vmmOnly, Reports, TypeOK, Equipped, LockHeld, Forked, StopKept, Guarded, HolderKnows, Writes, Placing, Live, Actors, Procs, Locked, Working, WithChild, OwnRun, Killing, CLIOnly, RecoveryOnly, Removes
<1>28. ASSUME NEW i \in Insts, VMMReady(i) PROVE StopKept'
  BY <1>28 DEF VMMReady, Phases, vmmOnly, Reports, TypeOK, Equipped, LockHeld, Forked, StopKept, Guarded, HolderKnows, Writes, Placing, Live, Actors, Procs, Locked, Working, WithChild, OwnRun, Killing, CLIOnly, RecoveryOnly, Removes
<1>29. ASSUME NEW i \in Insts, VMMFails(i) PROVE StopKept'
  BY <1>29 DEF VMMFails, Phases, vmmOnly, Reports, TypeOK, Equipped, LockHeld, Forked, StopKept, Guarded, HolderKnows, Writes, Placing, Live, Actors, Procs, Locked, Working, WithChild, OwnRun, Killing, CLIOnly, RecoveryOnly, Removes
<1>30. ASSUME NEW i \in Insts, VMMEnds(i) PROVE StopKept'
  BY <1>30 DEF VMMEnds, Phases, vmmOnly, PowerOff, Fault, TypeOK, Equipped, LockHeld, Forked, StopKept, Guarded, HolderKnows, Writes, Placing, Live, Actors, Procs, Locked, Working, WithChild, OwnRun, Killing, CLIOnly, RecoveryOnly, Removes
<1>31. ASSUME NEW i \in Insts, VMMTry(i) PROVE StopKept'
  BY <1>31 DEF VMMTry, Phases, vmmOnly, TypeOK, Equipped, LockHeld, Forked, StopKept, Guarded, HolderKnows, Writes, Placing, Live, Actors, Procs, Locked, Working, WithChild, OwnRun, Killing, CLIOnly, RecoveryOnly, Removes
<1>32. ASSUME NEW i \in Insts, VMMRecord(i) PROVE StopKept'
  BY <1>32 DEF VMMRecord, Phases, vmmOnly, TypeOK, Equipped, LockHeld, Forked, StopKept, Guarded, HolderKnows, Writes, Placing, Live, Actors, Procs, Locked, Working, WithChild, OwnRun, Killing, CLIOnly, RecoveryOnly, Removes
<1>33. ASSUME NEW i \in Insts, VMMExit(i) PROVE StopKept'
  BY <1>33 DEF VMMExit, Phases, vmmOnly, Fault, TypeOK, Equipped, LockHeld, Forked, StopKept, Guarded, HolderKnows, Writes, Placing, Live, Actors, Procs, Locked, Working, WithChild, OwnRun, Killing, CLIOnly, RecoveryOnly, Removes
<1>34. ASSUME NEW i \in Insts, WaiterReturns(i) PROVE StopKept'
  BY <1>34 DEF WaiterReturns, Waits, TypeOK, Equipped, LockHeld, Forked, StopKept, Guarded, HolderKnows, Writes, Placing, Live, Actors, Procs, Locked, Working, WithChild, OwnRun, Killing, CLIOnly, RecoveryOnly, Removes
<1>35. ASSUME NEW i \in Insts, WaiterSelect(i) PROVE StopKept'
  BY <1>35 DEF WaiterSelect, Waits, TypeOK, Equipped, LockHeld, Forked, StopKept, Guarded, HolderKnows, Writes, Placing, Live, Actors, Procs, Locked, Working, WithChild, OwnRun, Killing, CLIOnly, RecoveryOnly, Removes
<1>36. ASSUME NEW i \in Insts, WaiterAcquire(i) PROVE StopKept'
  BY <1>36 DEF WaiterAcquire, Waits, TypeOK, Equipped, LockHeld, Forked, StopKept, Guarded, HolderKnows, Writes, Placing, Live, Actors, Procs, Locked, Working, WithChild, OwnRun, Killing, CLIOnly, RecoveryOnly, Removes
<1>37. ASSUME NEW i \in Insts, WaiterTimesOut(i) PROVE StopKept'
  BY <1>37 DEF WaiterTimesOut, Waits, WaiterEnds, TypeOK, Equipped, LockHeld, Forked, StopKept, Guarded, HolderKnows, Writes, Placing, Live, Actors, Procs, Locked, Working, WithChild, OwnRun, Killing, CLIOnly, RecoveryOnly, Removes
<1>38. ASSUME NEW i \in Insts, WaiterRead(i) PROVE StopKept'
  BY <1>38 DEF WaiterRead, Waits, WaiterEnds, Owed, Owns, TypeOK, Equipped, LockHeld, Forked, StopKept, Guarded, HolderKnows, Writes, Placing, Live, Actors, Procs, Locked, Working, WithChild, OwnRun, Killing, CLIOnly, RecoveryOnly, Removes
<1>39. ASSUME NEW i \in Insts, WaiterWrite(i) PROVE StopKept'
  BY <1>39 DEF WaiterWrite, Waits, WaiterEnds, TypeOK, Equipped, LockHeld, Forked, StopKept, Guarded, HolderKnows, Writes, Placing, Live, Actors, Procs, Locked, Working, WithChild, OwnRun, Killing, CLIOnly, RecoveryOnly, Removes
<1>40. ASSUME Tick PROVE StopKept'
  BY <1>40 DEF Tick, Down, Running, TypeOK, Equipped, LockHeld, Forked, StopKept, Guarded, HolderKnows, Writes, Placing, Live, Actors, Procs, Locked, Working, WithChild, OwnRun, Killing, CLIOnly, RecoveryOnly, Removes
<1>41. ASSUME RecoverTry PROVE StopKept'
  BY <1>41 DEF RecoverTry, TypeOK, Equipped, LockHeld, Forked, StopKept, Guarded, HolderKnows, Writes, Placing, Live, Actors, Procs, Locked, Working, WithChild, OwnRun, Killing, CLIOnly, RecoveryOnly, Removes
<1>42. ASSUME RecoverRecheck PROVE StopKept'
  BY <1>42 DEF RecoverRecheck, Finish, Lose, Held, WaitersOf, Unneeded, Running, TypeOK, Equipped, LockHeld, Forked, StopKept, Guarded, HolderKnows, Writes, Placing, Live, Actors, Procs, Locked, Working, WithChild, OwnRun, Killing, CLIOnly, RecoveryOnly, Removes
<1>43. ASSUME RecoverKillOld PROVE StopKept'
  BY <1>43 DEF RecoverKillOld, TypeOK, Equipped, LockHeld, Forked, StopKept, Guarded, HolderKnows, Writes, Placing, Live, Actors, Procs, Locked, Working, WithChild, OwnRun, Killing, CLIOnly, RecoveryOnly, Removes
<1>44. ASSUME RecoverLatest PROVE StopKept'
  BY <1>44 DEF RecoverLatest, Finish, Lose, Held, WaitersOf, Unneeded, Running, TypeOK, Equipped, LockHeld, Forked, StopKept, Guarded, HolderKnows, Writes, Placing, Live, Actors, Procs, Locked, Working, WithChild, OwnRun, Killing, CLIOnly, RecoveryOnly, Removes
<1>45. ASSUME DaemonCrash PROVE StopKept'
  BY <1>45 DEF DaemonCrash, Lose, Held, WaitersOf, Fault, Orphan, TypeOK, Equipped, LockHeld, Forked, StopKept, Guarded, HolderKnows, Writes, Placing, Live, Actors, Procs, Locked, Working, WithChild, OwnRun, Killing, CLIOnly, RecoveryOnly, Removes
<1>46. ASSUME DaemonStart PROVE StopKept'
  BY <1>46 DEF DaemonStart, TypeOK, Equipped, LockHeld, Forked, StopKept, Guarded, HolderKnows, Writes, Placing, Live, Actors, Procs, Locked, Working, WithChild, OwnRun, Killing, CLIOnly, RecoveryOnly, Removes
<1>47. ASSUME UNCHANGED vars PROVE StopKept'
  BY <1>47 DEF vars, TypeOK, Equipped, LockHeld, Forked, StopKept, Guarded, HolderKnows, Writes, Placing, Live, Actors, Procs, Locked, Working, WithChild, OwnRun, Killing, CLIOnly, RecoveryOnly, Removes
<1> HIDE DEF StopKept, Inv
<1> QED
  BY <1>1, <1>2, <1>3, <1>4, <1>5, <1>6, <1>7, <1>8, <1>9, <1>10, <1>11, <1>12, <1>13, <1>14, <1>15, <1>16, <1>17, <1>18, <1>19, <1>20, <1>21, <1>22, <1>23, <1>24, <1>25, <1>26, <1>27, <1>28, <1>29, <1>30, <1>31, <1>32, <1>33, <1>34, <1>35, <1>36, <1>37, <1>38, <1>39, <1>40, <1>41, <1>42, <1>43, <1>44, <1>45, <1>46, <1>47, Zenon
  DEF Next, Place, Command, VMMStep, WaiterStep, Recover

-------------------------------------------------------------------------------
(* The theorems.                                                           *)

\* No process lives and nothing is on record at first.
LEMMA VMInitial == Init => Inv
<1> SUFFICES ASSUME Init PROVE Inv
  OBVIOUS
<1> USE VMLifecycleAssumption, NoRecAssumption
<1>1. TypeOK
  <2>1. {unguarded, reverted, stopped} \subseteq BOOLEAN /\ server \in [Actors -> BOOLEAN]
        /\ conf \in BOOLEAN /\ up \in BOOLEAN
    BY Zenon DEF Init
  <2> QED
    BY <2>1 DEF Init, TypeOK, Phase, WPC, PC, Actors
<1>2. Equipped /\ LockHeld /\ Forked
  BY DEF Init, Equipped, LockHeld, Forked, Working, WithChild, OwnRun, Killing, CLIOnly,
     RecoveryOnly, Locked, Actors, Procs
<1>3. Guarded /\ StopKept
  BY DEF Init, Guarded, OnRecord, HolderKnows, Present, Writes, StopKept, Killing, Actors
<1> QED
  BY <1>1, <1>2, <1>3 DEF Inv

\* The step lemmas together.
LEMMA InvStep == Inv /\ [Next]_vars => Inv'
  BY TypeOKStep, EquippedStep, LockHeldStep, ForkedStep, GuardedStep, StopKeptStep DEF Inv

\* The VM present is the one the record, or the actor with the lock, knows: so
\* there is one.
LEMMA InvImpliesSafe == Inv => VMSafe
<1> SUFFICES ASSUME Inv PROVE VMSafe
  OBVIOUS
<1> USE DEF Inv
<1>1. Booting \ orphans \subseteq Present
  BY DEF Booting, Present
<1>2. ASSUME ~unguarded, NEW a \in Actors, pc[a] = "publish", NEW p \in Present
      PROVE  p = child[a]
  BY <1>2 DEF Guarded, HolderKnows
<1>3. OneVMM
  <2>1. SUFFICES ASSUME ~unguarded, NEW p \in Present, NEW q \in Present PROVE p = q
    BY <1>1 DEF OneVMM, OneVM
  <2>2. CASE \E a \in Actors : pc[a] = "publish"
    BY <1>2, <2>1, <2>2
  <2>3. CASE \A a \in Actors : pc[a] # "publish"
    BY <2>1, <2>3 DEF Guarded, OnRecord
  <2> QED
    BY <2>2, <2>3
<1>4. Attached
  BY <1>1 DEF Attached, Guarded, OnRecord, LockHeld, Locked
<1>5. StopSticks
  BY DEF StopSticks, StopKept
<1> QED
  BY <1>3, <1>4, <1>5 DEF VMSafe

\* VMSafe holds of every number of CLI processes and VMMs, under crashes, failing
\* boots and VMMs that hang: at most one VM of the name boots or runs (orphans of
\* a crash before the publish apart), it is the one on record or its parent has
\* the lock and is about to publish it, and a stop is kept.
THEOREM VMIsSafe == Spec => []VMSafe
<1>1. Spec => []Inv
  BY VMInitial, InvStep, PTL DEF Spec
<1> QED
  BY <1>1, InvImpliesSafe, PTL

\* A step that brings a record back is a step of a run that has the lock.
LEMMA ComesBackStep ==
  ASSUME Inv, Next, rec = NoRec, rec' # NoRec, ~unguarded'
  PROVE  \E a \in Actors : lock = a /\ pc[a] \in {"place", "publish"}
<1> USE VMLifecycleAssumption, NoRecAssumption
<1> USE DEF Inv, vmmVars, waitVars, sigVars, localVars, history
<1> DEFINE ByRun == \E a \in Actors : lock = a /\ pc[a] \in {"place", "publish"}
<1>1. ASSUME NEW a \in Actors, pc[a] \in {"place", "publish"} PROVE ByRun
  BY <1>1 DEF LockHeld, Locked
<1>2. ASSUME ~unguarded, NEW a \in Actors, pc[a] \in Killing \cup {"stopwrite", "killold"}
      PROVE  FALSE
  BY <1>2 DEF Guarded, HolderKnows
<1>3. ASSUME NEW c \in CLIs, NEW o \in Ops, Start(c, o) PROVE FALSE
  BY <1>3 DEF Start
<1>4. ASSUME NEW a \in Actors, Place(a) PROVE ByRun
  <2>1. Delegate(a) \/ Publish(a) => pc[a] \in {"place", "publish"}
    BY DEF Delegate, Publish
  <2> QED
    BY <1>1, <1>4, <2>1 DEF Place, Acquire, AcquireTimesOut, RunCheck, Prepare, PlacementFails,
       Fork, AwaitReady, AwaitFails, AwaitTimesOut, WaitExit, Placed
<1>5. ASSUME NEW c \in CLIs, Command(c) PROVE ByRun
  <2>1. c \in Actors
    BY DEF Actors
  <2>2. CASE Foreground(c)
    BY <1>1, <2>1, <2>2 DEF Foreground
  <2>3. CASE ForegroundRecord(c)
    <3>1. pc[c] = "fgrecord" /\ ~unguarded
      BY <2>3 DEF ForegroundRecord
    <3>2. c \in Present
      BY <3>1 DEF Present, TypeOK, Procs
    <3>3. \A b \in Actors : pc[b] # "publish"
      BY <2>1, <3>1, LockAlone DEF Locked
    <3> QED
      BY <3>1, <3>2, <3>3 DEF Guarded, OnRecord
  <2>4. CASE KillReap(c)
    BY <1>2, <2>1, <2>4 DEF KillReap, Killing
  <2>5. CASE StopWrite(c)
    BY <1>2, <2>1, <2>5 DEF StopWrite
  <2> QED
    BY <1>5, <2>2, <2>3, <2>4, <2>5 DEF Command, CLIExit, ForegroundTry, CommandRead, RmRemove,
       KillGuest, KillHost, KillTimesOut
<1>6. ASSUME NEW c \in CLIs, ForegroundEnds(c) \/ CLICrash(c) PROVE FALSE
  BY <1>6 DEF ForegroundEnds, CLICrash
<1>7. ASSUME NEW i \in Insts, VMMStep(i) PROVE FALSE
  BY <1>7 DEF VMMStep, VMMLoad, VMMReady, VMMFails, VMMEnds, VMMTry, VMMRecord, VMMExit, vmmOnly
<1>8. ASSUME NEW i \in Insts, WaiterStep(i) PROVE FALSE
  <2>1. CASE WaiterWrite(i)
    <3>1. ~unguarded /\ Writes(i) /\ wpc[i] \in {"write", "lwrite"}
      BY <2>1 DEF WaiterWrite, Writes
    <3>2. Removes(wread[i])
      BY <3>1 DEF Guarded, HolderKnows
    <3> QED
      BY <2>1, <3>2 DEF WaiterWrite, Ended
  <2> QED
    BY <1>8, <2>1 DEF WaiterStep, WaiterReturns, WaiterSelect, WaiterAcquire, WaiterTimesOut,
       WaiterRead
<1>9. ASSUME Recover PROVE FALSE
  <2>1. CASE RecoverKillOld
    BY <1>2, <2>1 DEF RecoverKillOld, Actors
  <2> QED
    BY <1>9, <2>1 DEF Recover, Tick, RecoverTry, RecoverRecheck, RecoverLatest
<1>10. ASSUME DaemonCrash \/ DaemonStart PROVE FALSE
  BY <1>10 DEF DaemonCrash, DaemonStart
<1> QED
  BY <1>3, <1>4, <1>5, <1>6, <1>7, <1>8, <1>9, <1>10, Zenon DEF Next

\* No record that is gone comes back but by a run that has the lock, for every
\* number of processes: the parties that record the end of a -rm VM, and a stop
\* or a recovery that has read the record before, never resurrect it.
THEOREM RecordsComeBackByRun == Spec => ComesBackByRun
<1>1. Inv /\ [Next]_vars => [rec = NoRec /\ rec' # NoRec /\ ~unguarded' =>
         \E a \in Actors : lock = a /\ pc[a] \in {"place", "publish"}]_vars
  BY ComesBackStep
<1>2. Spec => []Inv
  BY VMInitial, InvStep, PTL DEF Spec
<1> QED
  BY <1>1, <1>2, PTL DEF Spec, ComesBackByRun
===============================================================================
