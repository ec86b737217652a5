---------------------------- MODULE RequestQueue ----------------------------
(***************************************************************************)
(* What a virtqueue promises its driver: every chain the driver offers is  *)
(* worked on once, in the order it was offered, and then returned once.    *)
(* A reset forgets everything.  Virtqueue implements this specification.   *)
(***************************************************************************)
EXTENDS Sequences

CONSTANT Chain          \* the buffers of the driver

VARIABLES free,         \* chains the driver may use
          offered,      \* chains offered and not returned, oldest first
          done,         \* the oldest offered chain has been worked on
          returned      \* chains returned and not collected, oldest first

rqVars == <<free, offered, done, returned>>

RQInit ==
  /\ free = Chain
  /\ offered = <<>>
  /\ done = FALSE
  /\ returned = <<>>

Offer(c) ==
  /\ c \in free
  /\ free' = free \ {c}
  /\ offered' = Append(offered, c)
  /\ UNCHANGED <<done, returned>>

Work ==
  /\ offered # <<>>
  /\ ~done
  /\ done' = TRUE
  /\ UNCHANGED <<free, offered, returned>>

Return ==
  /\ offered # <<>>
  /\ done
  /\ returned' = Append(returned, Head(offered))
  /\ offered' = Tail(offered)
  /\ done' = FALSE
  /\ UNCHANGED free

Collect ==
  /\ returned # <<>>
  /\ free' = free \cup {Head(returned)}
  /\ returned' = Tail(returned)
  /\ UNCHANGED <<offered, done>>

Forget ==
  /\ free' = Chain
  /\ offered' = <<>>
  /\ done' = FALSE
  /\ returned' = <<>>

RQNext ==
  \/ \E c \in Chain : Offer(c)
  \/ Work
  \/ Return
  \/ Collect
  \/ Forget

RQSpec == RQInit /\ [][RQNext]_rqVars
=============================================================================
