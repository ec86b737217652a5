----------------------------- MODULE MCCommands -----------------------------
(***************************************************************************)
(* What a user's commands wait on, each on its own: a console and the keys *)
(* typed into an attached terminal, and the building of images.  `part'    *)
(* names the one that takes steps; the others stay in an initial state in  *)
(* which fairness asks nothing of them.                                    *)
(***************************************************************************)
EXTENDS Console, AttachKeys, Build

VARIABLE part

\* A console with two clients and output, one with two clients and keys, and
\* one that is started again.
Scenario(i, c, b, k, f) == [insts |-> i, clients |-> c, bytes |-> b, keys |-> k, flaws |-> f]
MCScenarios == {Scenario(1, 2, 2, 0, 1), Scenario(1, 2, 0, 2, 0), Scenario(2, 1, 0, 0, 0)}

\* A Dockerfile of one stage, one whose second stage extends and copies from
\* the first, and one with two stages on one base.
MCStep(op, s) == [op |-> op, stage |-> s]
MCStage(from, steps) == [from |-> from, steps |-> steps]
MCOne == <<MCStage(0, <<MCStep("label", 1)>>)>>
MCTwo == <<MCStage(0, <<MCStep("run", 1)>>), MCStage(1, <<MCStep("take", 1), MCStep("label", 1)>>)>>
MCThree == <<MCStage(0, <<MCStep("label", 1)>>), MCStage(1, <<MCStep("label", 1)>>),
             MCStage(1, <<MCStep("copy", 1), MCStep("run", 1), MCStep("take", 2)>>)>>
MCJob(doc, inVM, push) == [doc |-> doc, inVM |-> inVM, push |-> push]
MCNoJob == MCJob(<<>>, FALSE, FALSE)
MCFirstJobs == [p |-> MCJob(MCTwo, FALSE, FALSE), q |-> MCNoJob]
MCJobs == {MCFirstJobs, [p |-> MCJob(MCThree, TRUE, TRUE), q |-> MCNoJob],
           [p |-> MCJob(MCOne, TRUE, FALSE), q |-> MCJob(MCOne, FALSE, TRUE)]}

vars == <<part, conVars, keyVars, buildVars>>

Init ==
  /\ part \in {"console", "keys", "build"}
  /\ ConInit /\ KeysInit /\ BuildInit
  /\ part # "console" => bound = Scenario(1, 2, 2, 0, 1)
  /\ part # "keys" => via = "socket"
  /\ part # "build" => job = MCFirstJobs

Pty    == part = "console" /\ ConNext   /\ UNCHANGED <<part, keyVars, buildVars>>
Keys   == part = "keys"    /\ KeysNext  /\ UNCHANGED <<part, conVars, buildVars>>
Builds == part = "build"   /\ BuildNext /\ UNCHANGED <<part, conVars, keyVars>>

Next == Pty \/ Keys \/ Builds

Spec == Init /\ [][Next]_vars /\ ConFairness
=============================================================================
