----------------------------- MODULE MCDevices ------------------------------
(***************************************************************************)
(* The virtio transport, the machine and the serial console of the VMM,    *)
(* each on its own: `part' names the one that takes steps, the others stay *)
(* in an initial state in which fairness asks nothing of them.             *)
(***************************************************************************)
EXTENDS Virtqueue, KVMMachine, Uart

VARIABLE part

MCBounds == [k \in Kinds |->
  CASE k = "blk"   -> [posts |-> 5, packets |-> 0, resets |-> 1]
    [] k = "net"   -> [posts |-> 2, packets |-> 2, resets |-> 1]
    [] k = "vhost" -> [posts |-> 5, packets |-> 0, resets |-> 0]]

vars == <<part, vqVars, kVars, uartVars>>

Init ==
  /\ part \in {"queue", "machine", "uart"}
  /\ VQInit /\ KInit /\ UInit
  /\ part # "queue" => kind = "blk"

Queue   == part = "queue"   /\ VQNext /\ UNCHANGED <<part, kVars, uartVars>>
Machine == part = "machine" /\ KNext  /\ UNCHANGED <<part, vqVars, uartVars>>
Serial  == part = "uart"    /\ UNext  /\ UNCHANGED <<part, vqVars, kVars>>

Next == Queue \/ Machine \/ Serial

Spec == Init /\ [][Next]_vars /\ VQFairness /\ KFairness
=============================================================================
