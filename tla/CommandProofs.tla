--------------------------- MODULE CommandProofs ----------------------------
(***************************************************************************)
(* Theorems about what commands do: the console of a container (Console),  *)
(* the keys typed into it (AttachKeys), and what builds of one tag publish *)
(* and leave behind (Build).                                               *)
(***************************************************************************)
EXTENDS Console, AttachKeys, Build, SequenceTheorems, WellFoundedInduction, TLAPS

-----------------------------------------------------------------------------
(* The PTY console of a container.                                         *)

\* The types of what the daemon keeps, of what its goroutines keep and of the
\* clients.
HostTypes ==
  /\ bound \in Scenarios /\ starter \in {"idle", "cleaned"}
  /\ begun \in 0..MaxInst /\ sockPath \in 0..MaxInst /\ listening \subseteq Inst
  /\ life \in [Inst -> {"none", "up", "dead"}]
  /\ waiter \in [Inst -> {"wait", "unlinked", "closed", "done"}]
ServerTypes ==
  /\ backlog \in [Inst -> Seq(Client)]
  /\ srv \in [Inst -> [at : {"none", "accept", "ended", "adopt", "input", "clear"},
                       client : Client \cup {NoClient}]]
  /\ curConn \in [Inst -> Client \cup {NoClient}]
  /\ reader \in [Inst -> [at : {"none", "read", "send", "write", "gone"}, byte : Nat]]
  /\ ptyOut \in [Inst -> Seq(Nat)] /\ ptyIn \in [Inst -> Nat] /\ wrote \in [Inst -> Nat]
ClientTypes ==
  /\ at \in [Client -> {"idle", "checked", "up", "left"}]
  /\ peer \in [Client -> 0..MaxInst]
  /\ wire \in [Client -> Seq(Nat)] /\ shown \in [Client -> Nat]
ConTypes == HostTypes /\ ServerTypes /\ ClientTypes

\* What a PTY holds in either direction.
PtyBounded == \A i \in Inst : Len(ptyOut[i]) <= PtyBuf /\ ptyIn[i] <= PtyBuf

\* Incarnations follow each other; a wait goroutine cleans up after the end of
\* its own, and one that is not late begins when all before it are cleaned up.
Incarnations ==
  /\ \A i \in Inst : i > begun => life[i] = "none" /\ srv[i].at = "none" /\ reader[i].at = "none"
  /\ \A i \in Inst : i < begun => life[i] = "dead"
  /\ \A i \in Inst : i <= begun => life[i] # "none"
  /\ starter = "cleaned" => begun < bound.insts /\ \A i \in Inst : life[i] # "up"
  /\ \A i \in Inst : waiter[i] # "wait" => life[i] = "dead"
  /\ \A i, j \in Inst : i <= begun /\ i \notin late /\ j < i => waiter[j] = "done"

\* A client of i, connected or gone.
Mine(c, i) == at[c] = "left" \/ Connected(c, i)

\* Whom the accept goroutine has, who waits for it, and whom the PTY reader
\* writes to.
ServerKnows ==
  /\ \A i \in Inst : srv[i].client # NoClient <=> srv[i].at \in {"adopt", "input", "clear"}
  /\ \A i \in Inst : srv[i].client # NoClient => Mine(srv[i].client, i)
  /\ \A i \in Inst : \A k \in 1..Len(backlog[i]) : Mine(backlog[i][k], i)
  /\ \A i \in Inst : srv[i].at = "clear" => at[srv[i].client] = "left"
  /\ \A i \in Inst : reader[i].at = "write" => curConn[i] # NoClient

\* s is the run of the bytes up to number n.
RunUpTo(s, n) == Len(s) <= n /\ \A k \in 1..Len(s) : s[k] = n - Len(s) + k

\* The bytes on their way out of the PTY, and the last one sent.
HeldByte(i) == IF reader[i].at \in {"send", "write"} THEN 1 ELSE 0
Sent(i) == wrote[i] - Len(ptyOut[i]) - HeldByte(i)

\* c is the one that the output of i goes to.
Served(c, i) == curConn[i] = c /\ Connected(c, i)

\* What is written is on its way in order, and only who is served has any of it.
InRun ==
  /\ \A i \in Inst : RunUpTo(ptyOut[i], wrote[i])
  /\ \A i \in Inst : HeldByte(i) = 1 => reader[i].byte = Sent(i) + 1 /\ Sent(i) >= 0
  /\ \A i \in Inst : \A c \in Client : Served(c, i) =>
       RunUpTo(wire[c], Sent(i)) /\ (shown[c] = 0 \/ shown[c] = Sent(i) - Len(wire[c]))
  /\ \A c \in Client : shown[c] # 0 \/ wire[c] # <<>> => \E i \in Inst : Served(c, i)

ConInv ==
  /\ ConTypes /\ PtyBounded /\ Incarnations /\ OneServer /\ ServerKnows /\ InRun /\ Reachable

\* The sizes.
LEMMA ConSizes ==
  /\ MaxInst \in Nat /\ PtyBuf \in Nat \ {0} /\ SockBuf \in Nat \ {0}
  /\ Inst \subseteq Nat \ {0} /\ Inst \subseteq 0..MaxInst /\ 0 \in 0..MaxInst
  /\ NoClient \notin Client
  /\ \A b \in Scenarios : b.insts \in Inst
<1>1. MaxInst \in Nat /\ "none" \notin Client /\ {PtyBuf, SockBuf} \subseteq Nat \ {0}
  BY Zenon, ConsoleAssumption
<1>2. \A b \in Scenarios : b.insts \in 1..MaxInst
  BY ConsoleAssumption
<1> QED
  BY <1>1, <1>2 DEF Inst, NoClient

\* A start under way has an incarnation to begin.
LEMMA NextInst ==
  ASSUME HostTypes, Incarnations, starter = "cleaned"
  PROVE  begun + 1 \in Inst /\ begun \in Nat
  BY ConSizes DEF HostTypes, Incarnations, Inst

\* What a start does: the next incarnation is up, and the socket leads to it if
\* there is one to serve it.
SetupDoes(n) ==
  /\ starter = "cleaned" /\ starter' = "idle" /\ begun' = n /\ life' = [life EXCEPT ![n] = "up"]
  /\ srv[n].at = "none" /\ srv'[n].client = srv[n].client
  /\ srv'[n].at \in {"none", "accept"}
  /\ reader[n].at = "none" /\ reader'[n].at \in {"none", "read"}
  /\ \A j \in Inst : j # n => srv'[j] = srv[j] /\ reader'[j] = reader[j]
  /\ srv'[n].at # "none" => sockPath' = n /\ n \in listening'
  /\ \A j \in Inst : j < n /\ n \notin late' => waiter[j] = "done"
  /\ late \subseteq late'
  /\ UNCHANGED <<bound, waiter, backlog, curConn, pty, clients>>
LEMMA SetupEffect ==
  ASSUME HostTypes, ServerTypes, Incarnations, NEW ok \in BOOLEAN, SetupSocketConsole(ok)
  PROVE  SetupDoes(begun + 1)
<1> DEFINE n == begun + 1
<1>1. n \in Inst /\ begun \in Nat /\ n > begun /\ starter = "cleaned"
  BY NextInst DEF SetupSocketConsole
<1>2. /\ starter' = "idle" /\ begun' = n /\ life' = [life EXCEPT ![n] = "up"]
      /\ UNCHANGED <<bound, waiter, backlog, curConn, pty, clients>>
      /\ late' = IF \E j \in 1..begun : waiter[j] # "done" THEN late \cup {n} ELSE late
  BY Zenon DEF SetupSocketConsole
<1>3. srv[n].at = "none" /\ reader[n].at = "none"
  BY <1>1 DEF Incarnations
<1>4. /\ srv'[n].client = srv[n].client
      /\ srv'[n].at \in {"none", "accept"} /\ reader'[n].at \in {"none", "read"}
      /\ \A j \in Inst : j # n => srv'[j] = srv[j] /\ reader'[j] = reader[j]
      /\ srv'[n].at # "none" => sockPath' = n /\ n \in listening'
  <2>1. CASE ok
    <3>1. /\ sockPath' = n /\ listening' = listening \cup {n}
          /\ srv' = [srv EXCEPT ![n].at = "accept"] /\ reader' = [reader EXCEPT ![n].at = "read"]
      BY <2>1, Zenon DEF SetupSocketConsole, StartSocket
    <3> QED
      BY <1>1, <3>1 DEF ServerTypes
  <2>2. CASE ~ok
    <3>1. UNCHANGED <<srv, reader>>
      BY <2>2 DEF SetupSocketConsole
    <3> QED
      BY <1>3, <3>1
  <2> QED
    BY <2>1, <2>2
<1>5. \A j \in Inst : j < n /\ n \notin late' => waiter[j] = "done"
  BY <1>1, <1>2, ConSizes
<1>6. late \subseteq late'
  BY <1>2
<1> QED
  BY <1>1, <1>2, <1>3, <1>4, <1>5, <1>6 DEF SetupDoes

\* The types of the console.
LEMMA ConTypesStep ==
  ASSUME ConInv, ConNext
  PROVE  ConTypes'
<1>a. HostTypes /\ ServerTypes /\ ClientTypes /\ Incarnations
  BY DEF ConInv, ConTypes
<1>s. /\ MaxInst \in Nat /\ PtyBuf \in Nat \ {0} /\ Inst \subseteq Nat \ {0} /\ NoClient \notin Client
      /\ Inst \subseteq 0..MaxInst /\ 0 \in 0..MaxInst
  BY ConSizes
<1> USE DEF host, pty, served, clients
<1>1. ASSUME CleanConsole PROVE ConTypes'
  <2>1. HostTypes'
    BY <1>a, <1>s, <1>1 DEF CleanConsole, HostTypes
  <2>2. ServerTypes'
    BY <1>a, <1>s, <1>1 DEF CleanConsole, ServerTypes
  <2>3. ClientTypes'
    BY <1>a, <1>s, <1>1 DEF CleanConsole, ClientTypes
  <2> QED
    BY <2>1, <2>2, <2>3 DEF ConTypes
<1>2. ASSUME NEW ok \in BOOLEAN, SetupSocketConsole(ok) PROVE ConTypes'
  <2>0. begun + 1 \in Inst /\ begun \in Nat
    BY <1>a, <1>2, NextInst DEF SetupSocketConsole
  <2>1. HostTypes'
    BY <1>a, <1>s, <1>2, <2>0 DEF SetupSocketConsole, StartSocket, HostTypes
  <2>2. ServerTypes'
    <3>1. CASE ok
      <4>1. /\ srv' = [srv EXCEPT ![begun + 1].at = "accept"]
            /\ reader' = [reader EXCEPT ![begun + 1].at = "read"]
            /\ UNCHANGED <<backlog, curConn, ptyOut, ptyIn, wrote>>
        BY <1>2, <3>1 DEF SetupSocketConsole, StartSocket
      <4> QED
        BY <1>a, <2>0, <4>1, ZenonT(40) DEF ServerTypes
    <3>2. CASE ~ok
      BY <1>a, <1>2, <3>2 DEF SetupSocketConsole, ServerTypes
    <3> QED
      BY <3>1, <3>2
  <2>3. ClientTypes'
    BY <1>a, <1>s, <1>2, <2>0 DEF SetupSocketConsole, StartSocket, ClientTypes
  <2> QED
    BY <2>1, <2>2, <2>3 DEF ConTypes
<1>3. ASSUME NEW i \in Inst, ContainerWrites(i) PROVE ConTypes'
  <2>1. HostTypes'
    BY <1>a, <1>s, <1>3 DEF ContainerWrites, HostTypes
  <2>2. ServerTypes'
    BY <1>a, <1>s, <1>3, SMTT(30) DEF ContainerWrites, ServerTypes
  <2>3. ClientTypes'
    BY <1>a, <1>s, <1>3 DEF ContainerWrites, ClientTypes
  <2> QED
    BY <2>1, <2>2, <2>3 DEF ConTypes
<1>4. ASSUME NEW i \in Inst, ContainerReads(i) PROVE ConTypes'
  <2>1. HostTypes'
    BY <1>a, <1>s, <1>4 DEF ContainerReads, HostTypes
  <2>2. ServerTypes'
    BY <1>a, <1>s, <1>4, SMTT(30) DEF ContainerReads, ServerTypes
  <2>3. ClientTypes'
    BY <1>a, <1>s, <1>4 DEF ContainerReads, ClientTypes
  <2> QED
    BY <2>1, <2>2, <2>3 DEF ConTypes
<1>5. ASSUME NEW i \in Inst, ContainerExits(i) PROVE ConTypes'
  <2>1. HostTypes'
    BY <1>a, <1>s, <1>5 DEF ContainerExits, HostTypes
  <2>2. ServerTypes'
    BY <1>a, <1>s, <1>5 DEF ContainerExits, ServerTypes
  <2>3. ClientTypes'
    BY <1>a, <1>s, <1>5 DEF ContainerExits, ClientTypes
  <2> QED
    BY <2>1, <2>2, <2>3 DEF ConTypes
<1>6. ASSUME NEW i \in Inst, Unlink(i) PROVE ConTypes'
  <2>1. HostTypes'
    BY <1>a, <1>s, <1>6 DEF Unlink, Moves, HostTypes
  <2>2. ServerTypes'
    BY <1>a, <1>s, <1>6 DEF Unlink, Moves, ServerTypes
  <2>3. ClientTypes'
    BY <1>a, <1>s, <1>6 DEF Unlink, Moves, ClientTypes
  <2> QED
    BY <2>1, <2>2, <2>3 DEF ConTypes
<1>7. ASSUME NEW i \in Inst, CloseListener(i) PROVE ConTypes'
  <2>1. HostTypes'
    BY <1>a, <1>s, <1>7 DEF CloseListener, Moves, ClientsReset, HostTypes
  <2>2. ServerTypes'
    BY <1>a, <1>s, <1>7, SMTT(30) DEF CloseListener, Moves, ClientsReset, ServerTypes
  <2>3. ClientTypes'
    BY <1>a, <1>s, <1>7 DEF CloseListener, Moves, ClientsReset, ClientTypes
  <2> QED
    BY <2>1, <2>2, <2>3 DEF ConTypes
<1>8. ASSUME NEW i \in Inst, RemovePath(i) PROVE ConTypes'
  <2>1. HostTypes'
    BY <1>a, <1>s, <1>8 DEF RemovePath, Moves, HostTypes
  <2>2. ServerTypes'
    BY <1>a, <1>s, <1>8 DEF RemovePath, Moves, ServerTypes
  <2>3. ClientTypes'
    BY <1>a, <1>s, <1>8 DEF RemovePath, Moves, ClientTypes
  <2> QED
    BY <2>1, <2>2, <2>3 DEF ConTypes
<1>9. ASSUME NEW i \in Inst, ReaderReads(i) PROVE ConTypes'
  <2>1. HostTypes'
    BY <1>a, <1>s, <1>9 DEF ReaderReads, HostTypes
  <2>2. ServerTypes'
    <3>1. ptyOut[i] \in Seq(Nat) /\ ptyOut[i] # <<>>
      BY <1>a, <1>9 DEF ReaderReads, ServerTypes
    <3>2. Head(ptyOut[i]) \in Nat /\ Tail(ptyOut[i]) \in Seq(Nat)
      BY <3>1, HeadTailProperties
    <3> QED
      BY <1>a, <1>9, <3>2 DEF ReaderReads, ServerTypes
  <2>3. ClientTypes'
    BY <1>a, <1>s, <1>9 DEF ReaderReads, ClientTypes
  <2> QED
    BY <2>1, <2>2, <2>3 DEF ConTypes
<1>10. ASSUME NEW i \in Inst, ReaderLocks(i) PROVE ConTypes'
  <2>1. HostTypes'
    BY <1>a, <1>s, <1>10 DEF ReaderLocks, HostTypes
  <2>2. ServerTypes'
    <3>1. PICK p \in {"read", "write"} : reader' = [reader EXCEPT ![i].at = p]
      BY <1>10, Zenon DEF ReaderLocks
    <3>2. reader' \in [Inst -> [at : {"none", "read", "send", "write", "gone"}, byte : Nat]]
      BY <1>a, <3>1 DEF ServerTypes
    <3>3. UNCHANGED <<backlog, srv, curConn, ptyOut, ptyIn, wrote>>
      BY <1>10 DEF ReaderLocks
    <3> QED
      BY <1>a, <3>2, <3>3 DEF ServerTypes
  <2>3. ClientTypes'
    BY <1>a, <1>s, <1>10 DEF ReaderLocks, ClientTypes
  <2> QED
    BY <2>1, <2>2, <2>3 DEF ConTypes
<1>11. ASSUME NEW i \in Inst, WriteFails(i) PROVE ConTypes'
  <2>1. HostTypes'
    BY <1>a, <1>s, <1>11 DEF WriteFails, Connected, HostTypes
  <2>2. ServerTypes'
    BY <1>a, <1>s, <1>11, ZenonT(40) DEF WriteFails, Connected, ServerTypes
  <2>3. ClientTypes'
    BY <1>a, <1>s, <1>11 DEF WriteFails, Connected, ClientTypes
  <2> QED
    BY <2>1, <2>2, <2>3 DEF ConTypes
<1>12. ASSUME NEW i \in Inst, WriteFrame(i) PROVE ConTypes'
  <2>1. HostTypes'
    BY <1>a, <1>s, <1>12 DEF WriteFrame, Connected, HostTypes
  <2>2. ServerTypes'
    BY <1>a, <1>s, <1>12 DEF WriteFrame, Connected, ServerTypes
  <2>3. ClientTypes'
    <3>1. reader[i].byte \in Nat
      BY <1>a DEF ServerTypes
    <3>2. \A d \in Client : Append(wire[d], reader[i].byte) \in Seq(Nat)
      BY <1>a, <3>1, AppendProperties DEF ClientTypes
    <3> QED
      BY <1>a, <1>12, <3>2 DEF WriteFrame, ClientTypes
  <2> QED
    BY <2>1, <2>2, <2>3 DEF ConTypes
<1>13. ASSUME NEW i \in Inst, ReaderEnds(i) PROVE ConTypes'
  <2>1. HostTypes'
    BY <1>a, <1>s, <1>13 DEF ReaderEnds, HostTypes
  <2>2. ServerTypes'
    BY <1>a, <1>s, <1>13, ZenonT(40) DEF ReaderEnds, ServerTypes
  <2>3. ClientTypes'
    BY <1>a, <1>s, <1>13 DEF ReaderEnds, ClientTypes
  <2> QED
    BY <2>1, <2>2, <2>3 DEF ConTypes
<1>14. ASSUME NEW i \in Inst, Accept(i) PROVE ConTypes'
  <2>1. HostTypes'
    BY <1>a, <1>s, <1>14 DEF Accept, HostTypes
  <2>2. ServerTypes'
    BY <1>a, <1>s, <1>14, SMTT(30) DEF Accept, ServerTypes
  <2>3. ClientTypes'
    BY <1>a, <1>s, <1>14 DEF Accept, ClientTypes
  <2> QED
    BY <2>1, <2>2, <2>3 DEF ConTypes
<1>15. ASSUME NEW i \in Inst, AcceptFails(i) PROVE ConTypes'
  <2>1. HostTypes'
    BY <1>a, <1>s, <1>15 DEF AcceptFails, HostTypes
  <2>2. ServerTypes'
    BY <1>a, <1>s, <1>15, ZenonT(40) DEF AcceptFails, ServerTypes
  <2>3. ClientTypes'
    BY <1>a, <1>s, <1>15 DEF AcceptFails, ClientTypes
  <2> QED
    BY <2>1, <2>2, <2>3 DEF ConTypes
<1>16. ASSUME NEW i \in Inst, Adopt(i) PROVE ConTypes'
  <2>1. HostTypes'
    BY <1>a, <1>s, <1>16 DEF Adopt, Unlocked, Connected, HostTypes
  <2>2. ServerTypes'
    BY <1>a, <1>s, <1>16, ZenonT(40) DEF Adopt, Unlocked, Connected, ServerTypes
  <2>3. ClientTypes'
    BY <1>a, <1>s, <1>16 DEF Adopt, Unlocked, Connected, ClientTypes
  <2> QED
    BY <2>1, <2>2, <2>3 DEF ConTypes
<1>17. ASSUME NEW i \in Inst, HandleInput(i) PROVE ConTypes'
  <2>1. HostTypes'
    BY <1>a, <1>s, <1>17 DEF HandleInput, HostTypes
  <2>2. ServerTypes'
    BY <1>a, <1>s, <1>17, SMTT(30) DEF HandleInput, ServerTypes
  <2>3. ClientTypes'
    BY <1>a, <1>s, <1>17 DEF HandleInput, ClientTypes
  <2> QED
    BY <2>1, <2>2, <2>3 DEF ConTypes
<1>18. ASSUME NEW i \in Inst, InputEnds(i) PROVE ConTypes'
  <2>1. HostTypes'
    BY <1>a, <1>s, <1>18 DEF InputEnds, Connected, HostTypes
  <2>2. ServerTypes'
    BY <1>a, <1>s, <1>18, ZenonT(40) DEF InputEnds, Connected, ServerTypes
  <2>3. ClientTypes'
    BY <1>a, <1>s, <1>18 DEF InputEnds, Connected, ClientTypes
  <2> QED
    BY <2>1, <2>2, <2>3 DEF ConTypes
<1>19. ASSUME NEW i \in Inst, Clear(i) PROVE ConTypes'
  <2>1. HostTypes'
    BY <1>a, <1>s, <1>19 DEF Clear, Unlocked, HostTypes
  <2>2. ServerTypes'
    BY <1>a, <1>s, <1>19 DEF Clear, Unlocked, ServerTypes
  <2>3. ClientTypes'
    BY <1>a, <1>s, <1>19 DEF Clear, Unlocked, ClientTypes
  <2> QED
    BY <2>1, <2>2, <2>3 DEF ConTypes
<1>20. ASSUME NEW c \in Client, Attach(c) PROVE ConTypes'
  <2>1. HostTypes'
    BY <1>a, <1>s, <1>20 DEF Attach, HostTypes
  <2>2. ServerTypes'
    BY <1>a, <1>s, <1>20 DEF Attach, ServerTypes
  <2>3. ClientTypes'
    BY <1>a, <1>s, <1>20 DEF Attach, ClientTypes
  <2> QED
    BY <2>1, <2>2, <2>3 DEF ConTypes
<1>21. ASSUME NEW c \in Client, Dial(c) PROVE ConTypes'
  <2>1. HostTypes'
    BY <1>a, <1>s, <1>21 DEF Dial, HostTypes
  <2>2. ServerTypes'
    <3>1. \A j \in Inst : Append(backlog[j], c) \in Seq(Client)
      BY <1>a, AppendProperties DEF ServerTypes
    <3>2. UNCHANGED <<srv, curConn, reader, ptyOut, ptyIn, wrote>>
      BY <1>21 DEF Dial
    <3>3. backlog' \in [Inst -> Seq(Client)]
      <4>1. \/ UNCHANGED backlog
            \/ sockPath \in Inst /\ backlog' = [backlog EXCEPT ![sockPath] = Append(@, c)]
        BY <1>a, <1>21 DEF Dial, HostTypes
      <4>2. backlog \in [Inst -> Seq(Client)]
        BY <1>a DEF ServerTypes
      <4> QED
        BY <3>1, <4>1, <4>2
    <3> QED
      BY <1>a, <3>2, <3>3 DEF ServerTypes
  <2>3. ClientTypes'
    BY <1>a, <1>s, <1>21 DEF Dial, ClientTypes, HostTypes
  <2> QED
    BY <2>1, <2>2, <2>3 DEF ConTypes
<1>22. ASSUME NEW c \in Client, Type(c) PROVE ConTypes'
  <2>1. HostTypes'
    BY <1>a, <1>s, <1>22 DEF Type, HostTypes
  <2>2. ServerTypes'
    BY <1>a, <1>s, <1>22 DEF Type, ServerTypes
  <2>3. ClientTypes'
    BY <1>a, <1>s, <1>22 DEF Type, ClientTypes
  <2> QED
    BY <2>1, <2>2, <2>3 DEF ConTypes
<1>23. ASSUME NEW c \in Client, Show(c) PROVE ConTypes'
  <2>1. HostTypes'
    BY <1>a, <1>s, <1>23 DEF Show, HostTypes
  <2>2. ServerTypes'
    BY <1>a, <1>s, <1>23 DEF Show, ServerTypes
  <2>3. ClientTypes'
    BY <1>a, <1>s, <1>23 DEF Show, ClientTypes
  <2> QED
    BY <2>1, <2>2, <2>3 DEF ConTypes
<1>24. ASSUME NEW c \in Client, TerminalStops(c) PROVE ConTypes'
  <2>1. HostTypes'
    BY <1>a, <1>s, <1>24 DEF TerminalStops, HostTypes
  <2>2. ServerTypes'
    BY <1>a, <1>s, <1>24 DEF TerminalStops, ServerTypes
  <2>3. ClientTypes'
    BY <1>a, <1>s, <1>24 DEF TerminalStops, ClientTypes
  <2> QED
    BY <2>1, <2>2, <2>3 DEF ConTypes
<1>25. ASSUME NEW c \in Client, Returns(c) PROVE ConTypes'
  <2>1. HostTypes'
    BY <1>a, <1>s, <1>25 DEF Returns, HostTypes
  <2>2. ServerTypes'
    BY <1>a, <1>s, <1>25 DEF Returns, ServerTypes
  <2>3. ClientTypes'
    BY <1>a, <1>s, <1>25 DEF Returns, ClientTypes
  <2> QED
    BY <2>1, <2>2, <2>3 DEF ConTypes
<1> QED
  BY <1>1, <1>2, <1>3, <1>4, <1>5, <1>6, <1>7, <1>8, <1>9, <1>10, <1>11, <1>12,
     <1>13, <1>14, <1>15, <1>16, <1>17, <1>18, <1>19, <1>20, <1>21, <1>22, <1>23,
     <1>24, <1>25 DEF ConNext, Detach, DoneSeen, EOFSeen

\* The PTY takes no more than it holds.
LEMMA PtyBoundedStep ==
  ASSUME ConInv, ConNext
  PROVE  PtyBounded'
<1>a. ServerTypes /\ PtyBounded
  BY DEF ConInv, ConTypes
<1>s. /\ MaxInst \in Nat /\ PtyBuf \in Nat \ {0} /\ Inst \subseteq Nat \ {0} /\ NoClient \notin Client
      /\ Inst \subseteq 0..MaxInst /\ 0 \in 0..MaxInst
  BY ConSizes
<1> USE DEF host, pty, served, clients
<1>1. ASSUME CleanConsole PROVE PtyBounded'
  BY <1>a, <1>s, <1>1 DEF CleanConsole, PtyBounded, ServerTypes
<1>2. ASSUME NEW ok \in BOOLEAN, SetupSocketConsole(ok) PROVE PtyBounded'
  BY <1>a, <1>s, <1>2 DEF SetupSocketConsole, StartSocket, PtyBounded, ServerTypes
<1>3. ASSUME NEW i \in Inst, ContainerWrites(i) PROVE PtyBounded'
  BY <1>a, <1>s, <1>3 DEF ContainerWrites, PtyBounded, ServerTypes
<1>4. ASSUME NEW i \in Inst, ContainerReads(i) PROVE PtyBounded'
  BY <1>a, <1>s, <1>4 DEF ContainerReads, PtyBounded, ServerTypes
<1>5. ASSUME NEW i \in Inst, ContainerExits(i) PROVE PtyBounded'
  BY <1>a, <1>s, <1>5 DEF ContainerExits, PtyBounded, ServerTypes
<1>6. ASSUME NEW i \in Inst, Unlink(i) PROVE PtyBounded'
  BY <1>a, <1>s, <1>6 DEF Unlink, Moves, PtyBounded, ServerTypes
<1>7. ASSUME NEW i \in Inst, CloseListener(i) PROVE PtyBounded'
  BY <1>a, <1>s, <1>7 DEF CloseListener, Moves, ClientsReset, PtyBounded, ServerTypes
<1>8. ASSUME NEW i \in Inst, RemovePath(i) PROVE PtyBounded'
  BY <1>a, <1>s, <1>8 DEF RemovePath, Moves, PtyBounded, ServerTypes
<1>9. ASSUME NEW i \in Inst, ReaderReads(i) PROVE PtyBounded'
  BY <1>a, <1>s, <1>9 DEF ReaderReads, PtyBounded, ServerTypes
<1>10. ASSUME NEW i \in Inst, ReaderLocks(i) PROVE PtyBounded'
  BY <1>a, <1>s, <1>10 DEF ReaderLocks, PtyBounded, ServerTypes
<1>11. ASSUME NEW i \in Inst, WriteFails(i) PROVE PtyBounded'
  BY <1>a, <1>s, <1>11 DEF WriteFails, Connected, PtyBounded, ServerTypes
<1>12. ASSUME NEW i \in Inst, WriteFrame(i) PROVE PtyBounded'
  BY <1>a, <1>s, <1>12 DEF WriteFrame, Connected, PtyBounded, ServerTypes
<1>13. ASSUME NEW i \in Inst, ReaderEnds(i) PROVE PtyBounded'
  BY <1>a, <1>s, <1>13 DEF ReaderEnds, PtyBounded, ServerTypes
<1>14. ASSUME NEW i \in Inst, Accept(i) PROVE PtyBounded'
  BY <1>a, <1>s, <1>14 DEF Accept, PtyBounded, ServerTypes
<1>15. ASSUME NEW i \in Inst, AcceptFails(i) PROVE PtyBounded'
  BY <1>a, <1>s, <1>15 DEF AcceptFails, PtyBounded, ServerTypes
<1>16. ASSUME NEW i \in Inst, Adopt(i) PROVE PtyBounded'
  BY <1>a, <1>s, <1>16 DEF Adopt, Unlocked, Connected, PtyBounded, ServerTypes
<1>17. ASSUME NEW i \in Inst, HandleInput(i) PROVE PtyBounded'
  BY <1>a, <1>s, <1>17 DEF HandleInput, PtyBounded, ServerTypes
<1>18. ASSUME NEW i \in Inst, InputEnds(i) PROVE PtyBounded'
  BY <1>a, <1>s, <1>18 DEF InputEnds, Connected, PtyBounded, ServerTypes
<1>19. ASSUME NEW i \in Inst, Clear(i) PROVE PtyBounded'
  BY <1>a, <1>s, <1>19 DEF Clear, Unlocked, PtyBounded, ServerTypes
<1>20. ASSUME NEW c \in Client, Attach(c) PROVE PtyBounded'
  BY <1>a, <1>s, <1>20 DEF Attach, PtyBounded, ServerTypes
<1>21. ASSUME NEW c \in Client, Dial(c) PROVE PtyBounded'
  BY <1>a, <1>s, <1>21 DEF Dial, PtyBounded, ServerTypes
<1>22. ASSUME NEW c \in Client, Type(c) PROVE PtyBounded'
  BY <1>a, <1>s, <1>22 DEF Type, PtyBounded, ServerTypes
<1>23. ASSUME NEW c \in Client, Show(c) PROVE PtyBounded'
  BY <1>a, <1>s, <1>23 DEF Show, PtyBounded, ServerTypes
<1>24. ASSUME NEW c \in Client, TerminalStops(c) PROVE PtyBounded'
  BY <1>a, <1>s, <1>24 DEF TerminalStops, PtyBounded, ServerTypes
<1>25. ASSUME NEW c \in Client, Returns(c) PROVE PtyBounded'
  BY <1>a, <1>s, <1>25 DEF Returns, PtyBounded, ServerTypes
<1> QED
  BY <1>1, <1>2, <1>3, <1>4, <1>5, <1>6, <1>7, <1>8, <1>9, <1>10, <1>11, <1>12,
     <1>13, <1>14, <1>15, <1>16, <1>17, <1>18, <1>19, <1>20, <1>21, <1>22, <1>23,
     <1>24, <1>25 DEF ConNext, Detach, DoneSeen, EOFSeen

\* Incarnations follow each other.
LEMMA IncarnationsStep ==
  ASSUME ConInv, ConNext
  PROVE  Incarnations'
<1>a. HostTypes /\ ServerTypes /\ Incarnations
  BY DEF ConInv, ConTypes
<1>s. /\ MaxInst \in Nat /\ PtyBuf \in Nat \ {0} /\ Inst \subseteq Nat \ {0} /\ NoClient \notin Client
      /\ Inst \subseteq 0..MaxInst /\ 0 \in 0..MaxInst
  BY ConSizes
<1> USE DEF host, pty, served, clients
<1>1. ASSUME CleanConsole PROVE Incarnations'
  BY <1>a, <1>s, <1>1 DEF CleanConsole, Incarnations, HostTypes, ServerTypes
<1>2. ASSUME NEW ok \in BOOLEAN, SetupSocketConsole(ok) PROVE Incarnations'
  <2>1. begun + 1 \in Inst /\ begun \in Nat /\ SetupDoes(begun + 1)
    BY <1>a, <1>2, SetupEffect, NextInst DEF SetupSocketConsole
  <2>2. /\ \A j \in Inst : j > begun' => life'[j] = "none" /\ srv'[j].at = "none" /\ reader'[j].at = "none"
        /\ \A j \in Inst : j < begun' => life'[j] = "dead"
        /\ \A j \in Inst : j <= begun' => life'[j] # "none"
    BY <1>a, <1>s, <2>1 DEF SetupDoes, Incarnations, HostTypes
  <2>3. \A j \in Inst : waiter'[j] # "wait" => life'[j] = "dead"
    BY <1>a, <1>s, <2>1 DEF SetupDoes, Incarnations, HostTypes
  <2>4. ASSUME NEW j \in Inst, NEW k \in Inst, j <= begun', j \notin late', k < j PROVE waiter'[k] = "done"
    BY <1>a, <1>s, <2>1, <2>4 DEF SetupDoes, Incarnations, HostTypes
  <2> QED
    BY <2>1, <2>2, <2>3, <2>4 DEF SetupDoes, Incarnations
<1>3. ASSUME NEW i \in Inst, ContainerWrites(i) PROVE Incarnations'
  BY <1>a, <1>s, <1>3 DEF ContainerWrites, Incarnations, HostTypes, ServerTypes
<1>4. ASSUME NEW i \in Inst, ContainerReads(i) PROVE Incarnations'
  BY <1>a, <1>s, <1>4 DEF ContainerReads, Incarnations, HostTypes, ServerTypes
<1>5. ASSUME NEW i \in Inst, ContainerExits(i) PROVE Incarnations'
  BY <1>a, <1>s, <1>5 DEF ContainerExits, Incarnations, HostTypes, ServerTypes
<1>6. ASSUME NEW i \in Inst, Unlink(i) PROVE Incarnations'
  BY <1>a, <1>s, <1>6, ZenonT(40) DEF Unlink, Moves, Incarnations, HostTypes, ServerTypes
<1>7. ASSUME NEW i \in Inst, CloseListener(i) PROVE Incarnations'
  <2>1. /\ waiter[i] = "unlinked" /\ waiter' = [waiter EXCEPT ![i] = "closed"]
        /\ UNCHANGED <<bound, begun, starter, life, late, srv, reader>>
    BY <1>7 DEF CloseListener, Moves
  <2> QED
    BY <1>a, <2>1, ZenonT(40) DEF Incarnations, HostTypes
<1>8. ASSUME NEW i \in Inst, RemovePath(i) PROVE Incarnations'
  BY <1>a, <1>s, <1>8, ZenonT(40) DEF RemovePath, Moves, Incarnations, HostTypes, ServerTypes
<1>9. ASSUME NEW i \in Inst, ReaderReads(i) PROVE Incarnations'
  BY <1>a, <1>s, <1>9 DEF ReaderReads, Incarnations, HostTypes, ServerTypes
<1>10. ASSUME NEW i \in Inst, ReaderLocks(i) PROVE Incarnations'
  BY <1>a, <1>s, <1>10 DEF ReaderLocks, Incarnations, HostTypes, ServerTypes
<1>11. ASSUME NEW i \in Inst, WriteFails(i) PROVE Incarnations'
  BY <1>a, <1>s, <1>11 DEF WriteFails, Connected, Incarnations, HostTypes, ServerTypes
<1>12. ASSUME NEW i \in Inst, WriteFrame(i) PROVE Incarnations'
  BY <1>a, <1>s, <1>12 DEF WriteFrame, Connected, Incarnations, HostTypes, ServerTypes
<1>13. ASSUME NEW i \in Inst, ReaderEnds(i) PROVE Incarnations'
  BY <1>a, <1>s, <1>13 DEF ReaderEnds, Incarnations, HostTypes, ServerTypes
<1>14. ASSUME NEW i \in Inst, Accept(i) PROVE Incarnations'
  BY <1>a, <1>s, <1>14 DEF Accept, Incarnations, HostTypes, ServerTypes
<1>15. ASSUME NEW i \in Inst, AcceptFails(i) PROVE Incarnations'
  BY <1>a, <1>s, <1>15 DEF AcceptFails, Incarnations, HostTypes, ServerTypes
<1>16. ASSUME NEW i \in Inst, Adopt(i) PROVE Incarnations'
  BY <1>a, <1>s, <1>16 DEF Adopt, Unlocked, Connected, Incarnations, HostTypes, ServerTypes
<1>17. ASSUME NEW i \in Inst, HandleInput(i) PROVE Incarnations'
  BY <1>a, <1>s, <1>17 DEF HandleInput, Incarnations, HostTypes, ServerTypes
<1>18. ASSUME NEW i \in Inst, InputEnds(i) PROVE Incarnations'
  BY <1>a, <1>s, <1>18 DEF InputEnds, Connected, Incarnations, HostTypes, ServerTypes
<1>19. ASSUME NEW i \in Inst, Clear(i) PROVE Incarnations'
  BY <1>a, <1>s, <1>19 DEF Clear, Unlocked, Incarnations, HostTypes, ServerTypes
<1>20. ASSUME NEW c \in Client, Attach(c) PROVE Incarnations'
  BY <1>a, <1>s, <1>20 DEF Attach, Incarnations, HostTypes, ServerTypes
<1>21. ASSUME NEW c \in Client, Dial(c) PROVE Incarnations'
  BY <1>a, <1>s, <1>21 DEF Dial, Incarnations, HostTypes, ServerTypes
<1>22. ASSUME NEW c \in Client, Type(c) PROVE Incarnations'
  BY <1>a, <1>s, <1>22 DEF Type, Incarnations, HostTypes, ServerTypes
<1>23. ASSUME NEW c \in Client, Show(c) PROVE Incarnations'
  BY <1>a, <1>s, <1>23 DEF Show, Incarnations, HostTypes, ServerTypes
<1>24. ASSUME NEW c \in Client, TerminalStops(c) PROVE Incarnations'
  BY <1>a, <1>s, <1>24 DEF TerminalStops, Incarnations, HostTypes, ServerTypes
<1>25. ASSUME NEW c \in Client, Returns(c) PROVE Incarnations'
  BY <1>a, <1>s, <1>25 DEF Returns, Incarnations, HostTypes, ServerTypes
<1> QED
  BY <1>1, <1>2, <1>3, <1>4, <1>5, <1>6, <1>7, <1>8, <1>9, <1>10, <1>11, <1>12,
     <1>13, <1>14, <1>15, <1>16, <1>17, <1>18, <1>19, <1>20, <1>21, <1>22, <1>23,
     <1>24, <1>25 DEF ConNext, Detach, DoneSeen, EOFSeen

\* The socket stays with the incarnation that is up.
LEMMA ReachableStep ==
  ASSUME ConInv, ConNext
  PROVE  Reachable'
<1>a. HostTypes /\ ServerTypes /\ Incarnations /\ Reachable
  BY DEF ConInv, ConTypes
<1>s. /\ MaxInst \in Nat /\ PtyBuf \in Nat \ {0} /\ Inst \subseteq Nat \ {0} /\ NoClient \notin Client
      /\ Inst \subseteq 0..MaxInst /\ 0 \in 0..MaxInst
  BY ConSizes
<1> USE DEF host, pty, served, clients
<1>1. ASSUME CleanConsole PROVE Reachable'
  <2>1. \A j \in Inst : life[j] # "up"
    BY <1>a, <1>s, <1>1 DEF CleanConsole, Incarnations, HostTypes
  <2> QED
    BY <1>1, <2>1 DEF CleanConsole, Reachable
<1>2. ASSUME NEW ok \in BOOLEAN, SetupSocketConsole(ok) PROVE Reachable'
  <2>1. begun + 1 \in Inst /\ begun \in Nat /\ SetupDoes(begun + 1)
    BY <1>a, <1>2, SetupEffect, NextInst DEF SetupSocketConsole
  <2> QED
    BY <1>a, <1>s, <2>1 DEF SetupDoes, Reachable, Incarnations, HostTypes
<1>3. ASSUME NEW i \in Inst, ContainerWrites(i) PROVE Reachable'
  BY <1>a, <1>s, <1>3 DEF ContainerWrites, Reachable, Incarnations, HostTypes, ServerTypes, Inst
<1>4. ASSUME NEW i \in Inst, ContainerReads(i) PROVE Reachable'
  BY <1>a, <1>s, <1>4 DEF ContainerReads, Reachable, Incarnations, HostTypes, ServerTypes, Inst
<1>5. ASSUME NEW i \in Inst, ContainerExits(i) PROVE Reachable'
  BY <1>a, <1>s, <1>5 DEF ContainerExits, Reachable, Incarnations, HostTypes, ServerTypes, Inst
<1>6. ASSUME NEW i \in Inst, Unlink(i) PROVE Reachable'
  <2>1. \A j \in Inst : life[j] = "up" /\ j \notin late => j = begun /\ i < j
    <3>1. life[i] = "dead" /\ i <= begun
      BY <1>a, <1>s, <1>6 DEF Unlink, Moves, Incarnations, HostTypes
    <3>2. ASSUME NEW j \in Inst, life[j] = "up" PROVE j = begun
      <4>1. ~(j < begun) /\ ~(j > begun)
        BY <1>a, <3>2 DEF Incarnations
      <4> QED
        BY <1>a, <1>s, <4>1 DEF HostTypes
    <3> QED
      BY <1>s, <3>1, <3>2
  <2>2. \A j \in Inst : life[j] = "up" => j \in late
    BY <1>a, <1>s, <1>6, <2>1 DEF Unlink, Moves, Incarnations, HostTypes
  <2> QED
    BY <1>6, <2>2 DEF Unlink, Reachable
<1>7. ASSUME NEW i \in Inst, CloseListener(i) PROVE Reachable'
  BY <1>a, <1>s, <1>7 DEF CloseListener, Moves, ClientsReset, Reachable, Incarnations, HostTypes, ServerTypes, Inst
<1>8. ASSUME NEW i \in Inst, RemovePath(i) PROVE Reachable'
  <2>1. \A j \in Inst : life[j] = "up" /\ j \notin late => j = begun /\ i < j
    <3>1. life[i] = "dead" /\ i <= begun
      BY <1>a, <1>s, <1>8 DEF RemovePath, Moves, Incarnations, HostTypes
    <3>2. ASSUME NEW j \in Inst, life[j] = "up" PROVE j = begun
      <4>1. ~(j < begun) /\ ~(j > begun)
        BY <1>a, <3>2 DEF Incarnations
      <4> QED
        BY <1>a, <1>s, <4>1 DEF HostTypes
    <3> QED
      BY <1>s, <3>1, <3>2
  <2>2. \A j \in Inst : life[j] = "up" => j \in late
    BY <1>a, <1>s, <1>8, <2>1 DEF RemovePath, Moves, Incarnations, HostTypes
  <2> QED
    BY <1>8, <2>2 DEF RemovePath, Reachable
<1>9. ASSUME NEW i \in Inst, ReaderReads(i) PROVE Reachable'
  BY <1>a, <1>s, <1>9 DEF ReaderReads, Reachable, Incarnations, HostTypes, ServerTypes, Inst
<1>10. ASSUME NEW i \in Inst, ReaderLocks(i) PROVE Reachable'
  BY <1>a, <1>s, <1>10 DEF ReaderLocks, Reachable, Incarnations, HostTypes, ServerTypes, Inst
<1>11. ASSUME NEW i \in Inst, WriteFails(i) PROVE Reachable'
  BY <1>a, <1>s, <1>11 DEF WriteFails, Connected, Reachable, Incarnations, HostTypes, ServerTypes, Inst
<1>12. ASSUME NEW i \in Inst, WriteFrame(i) PROVE Reachable'
  BY <1>a, <1>s, <1>12 DEF WriteFrame, Connected, Reachable, Incarnations, HostTypes, ServerTypes, Inst
<1>13. ASSUME NEW i \in Inst, ReaderEnds(i) PROVE Reachable'
  BY <1>a, <1>s, <1>13 DEF ReaderEnds, Reachable, Incarnations, HostTypes, ServerTypes, Inst
<1>14. ASSUME NEW i \in Inst, Accept(i) PROVE Reachable'
  BY <1>a, <1>s, <1>14 DEF Accept, Reachable, Incarnations, HostTypes, ServerTypes, Inst
<1>15. ASSUME NEW i \in Inst, AcceptFails(i) PROVE Reachable'
  BY <1>a, <1>s, <1>15 DEF AcceptFails, Reachable, Incarnations, HostTypes, ServerTypes, Inst
<1>16. ASSUME NEW i \in Inst, Adopt(i) PROVE Reachable'
  BY <1>a, <1>s, <1>16 DEF Adopt, Unlocked, Connected, Reachable, Incarnations, HostTypes, ServerTypes, Inst
<1>17. ASSUME NEW i \in Inst, HandleInput(i) PROVE Reachable'
  BY <1>a, <1>s, <1>17 DEF HandleInput, Reachable, Incarnations, HostTypes, ServerTypes, Inst
<1>18. ASSUME NEW i \in Inst, InputEnds(i) PROVE Reachable'
  BY <1>a, <1>s, <1>18 DEF InputEnds, Connected, Reachable, Incarnations, HostTypes, ServerTypes, Inst
<1>19. ASSUME NEW i \in Inst, Clear(i) PROVE Reachable'
  BY <1>a, <1>s, <1>19 DEF Clear, Unlocked, Reachable, Incarnations, HostTypes, ServerTypes, Inst
<1>20. ASSUME NEW c \in Client, Attach(c) PROVE Reachable'
  BY <1>a, <1>s, <1>20 DEF Attach, Reachable, Incarnations, HostTypes, ServerTypes, Inst
<1>21. ASSUME NEW c \in Client, Dial(c) PROVE Reachable'
  BY <1>a, <1>s, <1>21 DEF Dial, Reachable, Incarnations, HostTypes, ServerTypes, Inst
<1>22. ASSUME NEW c \in Client, Type(c) PROVE Reachable'
  BY <1>a, <1>s, <1>22 DEF Type, Reachable, Incarnations, HostTypes, ServerTypes, Inst
<1>23. ASSUME NEW c \in Client, Show(c) PROVE Reachable'
  BY <1>a, <1>s, <1>23 DEF Show, Reachable, Incarnations, HostTypes, ServerTypes, Inst
<1>24. ASSUME NEW c \in Client, TerminalStops(c) PROVE Reachable'
  BY <1>a, <1>s, <1>24 DEF TerminalStops, Reachable, Incarnations, HostTypes, ServerTypes, Inst
<1>25. ASSUME NEW c \in Client, Returns(c) PROVE Reachable'
  BY <1>a, <1>s, <1>25 DEF Returns, Reachable, Incarnations, HostTypes, ServerTypes, Inst
<1> QED
  BY <1>1, <1>2, <1>3, <1>4, <1>5, <1>6, <1>7, <1>8, <1>9, <1>10, <1>11, <1>12,
     <1>13, <1>14, <1>15, <1>16, <1>17, <1>18, <1>19, <1>20, <1>21, <1>22, <1>23,
     <1>24, <1>25 DEF ConNext, Detach, DoneSeen, EOFSeen

\* Output goes to the client that is served.
LEMMA OneServerStep ==
  ASSUME ConInv, ConNext
  PROVE  OneServer'
<1>a. HostTypes /\ ServerTypes /\ Incarnations /\ ServerKnows /\ OneServer
  BY DEF ConInv, ConTypes
<1>s. /\ MaxInst \in Nat /\ PtyBuf \in Nat \ {0} /\ Inst \subseteq Nat \ {0} /\ NoClient \notin Client
      /\ Inst \subseteq 0..MaxInst /\ 0 \in 0..MaxInst
  BY ConSizes
<1> USE DEF host, pty, served, clients
<1>1. ASSUME CleanConsole PROVE OneServer'
  BY <1>a, <1>s, <1>1 DEF CleanConsole, OneServer, ServerKnows, ServerTypes
<1>2. ASSUME NEW ok \in BOOLEAN, SetupSocketConsole(ok) PROVE OneServer'
  <2>1. begun + 1 \in Inst /\ begun \in Nat /\ SetupDoes(begun + 1)
    BY <1>a, <1>2, SetupEffect, NextInst DEF SetupSocketConsole
  <2> QED
    BY <1>a, <1>s, <2>1 DEF SetupDoes, OneServer
<1>3. ASSUME NEW i \in Inst, ContainerWrites(i) PROVE OneServer'
  BY <1>a, <1>s, <1>3 DEF ContainerWrites, OneServer, ServerKnows, ServerTypes
<1>4. ASSUME NEW i \in Inst, ContainerReads(i) PROVE OneServer'
  BY <1>a, <1>s, <1>4 DEF ContainerReads, OneServer, ServerKnows, ServerTypes
<1>5. ASSUME NEW i \in Inst, ContainerExits(i) PROVE OneServer'
  BY <1>a, <1>s, <1>5 DEF ContainerExits, OneServer, ServerKnows, ServerTypes
<1>6. ASSUME NEW i \in Inst, Unlink(i) PROVE OneServer'
  BY <1>a, <1>s, <1>6 DEF Unlink, Moves, OneServer, ServerKnows, ServerTypes
<1>7. ASSUME NEW i \in Inst, CloseListener(i) PROVE OneServer'
  BY <1>a, <1>s, <1>7 DEF CloseListener, Moves, ClientsReset, OneServer, ServerKnows, ServerTypes
<1>8. ASSUME NEW i \in Inst, RemovePath(i) PROVE OneServer'
  BY <1>a, <1>s, <1>8 DEF RemovePath, Moves, OneServer, ServerKnows, ServerTypes
<1>9. ASSUME NEW i \in Inst, ReaderReads(i) PROVE OneServer'
  BY <1>a, <1>s, <1>9 DEF ReaderReads, OneServer, ServerKnows, ServerTypes
<1>10. ASSUME NEW i \in Inst, ReaderLocks(i) PROVE OneServer'
  BY <1>a, <1>s, <1>10 DEF ReaderLocks, OneServer, ServerKnows, ServerTypes
<1>11. ASSUME NEW i \in Inst, WriteFails(i) PROVE OneServer'
  BY <1>a, <1>s, <1>11 DEF WriteFails, Connected, OneServer, ServerKnows, ServerTypes
<1>12. ASSUME NEW i \in Inst, WriteFrame(i) PROVE OneServer'
  BY <1>a, <1>s, <1>12 DEF WriteFrame, Connected, OneServer, ServerKnows, ServerTypes
<1>13. ASSUME NEW i \in Inst, ReaderEnds(i) PROVE OneServer'
  BY <1>a, <1>s, <1>13 DEF ReaderEnds, OneServer, ServerKnows, ServerTypes
<1>14. ASSUME NEW i \in Inst, Accept(i) PROVE OneServer'
  BY <1>a, <1>s, <1>14 DEF Accept, OneServer, ServerKnows, ServerTypes
<1>15. ASSUME NEW i \in Inst, AcceptFails(i) PROVE OneServer'
  BY <1>a, <1>s, <1>15 DEF AcceptFails, OneServer, ServerKnows, ServerTypes
<1>16. ASSUME NEW i \in Inst, Adopt(i) PROVE OneServer'
  BY <1>a, <1>s, <1>16 DEF Adopt, Unlocked, Connected, OneServer, ServerKnows, ServerTypes
<1>17. ASSUME NEW i \in Inst, HandleInput(i) PROVE OneServer'
  BY <1>a, <1>s, <1>17 DEF HandleInput, OneServer, ServerKnows, ServerTypes
<1>18. ASSUME NEW i \in Inst, InputEnds(i) PROVE OneServer'
  BY <1>a, <1>s, <1>18 DEF InputEnds, Connected, OneServer, ServerKnows, ServerTypes
<1>19. ASSUME NEW i \in Inst, Clear(i) PROVE OneServer'
  BY <1>a, <1>s, <1>19 DEF Clear, Unlocked, OneServer, ServerKnows, ServerTypes
<1>20. ASSUME NEW c \in Client, Attach(c) PROVE OneServer'
  BY <1>a, <1>s, <1>20 DEF Attach, OneServer, ServerKnows, ServerTypes
<1>21. ASSUME NEW c \in Client, Dial(c) PROVE OneServer'
  BY <1>a, <1>s, <1>21 DEF Dial, OneServer, ServerKnows, ServerTypes
<1>22. ASSUME NEW c \in Client, Type(c) PROVE OneServer'
  BY <1>a, <1>s, <1>22 DEF Type, OneServer, ServerKnows, ServerTypes
<1>23. ASSUME NEW c \in Client, Show(c) PROVE OneServer'
  BY <1>a, <1>s, <1>23 DEF Show, OneServer, ServerKnows, ServerTypes
<1>24. ASSUME NEW c \in Client, TerminalStops(c) PROVE OneServer'
  BY <1>a, <1>s, <1>24 DEF TerminalStops, OneServer, ServerKnows, ServerTypes
<1>25. ASSUME NEW c \in Client, Returns(c) PROVE OneServer'
  BY <1>a, <1>s, <1>25 DEF Returns, OneServer, ServerKnows, ServerTypes
<1> QED
  BY <1>1, <1>2, <1>3, <1>4, <1>5, <1>6, <1>7, <1>8, <1>9, <1>10, <1>11, <1>12,
     <1>13, <1>14, <1>15, <1>16, <1>17, <1>18, <1>19, <1>20, <1>21, <1>22, <1>23,
     <1>24, <1>25 DEF ConNext, Detach, DoneSeen, EOFSeen

\* The accept goroutine knows whom it serves.
LEMMA ServerKnowsStep ==
  ASSUME ConInv, ConNext
  PROVE  ServerKnows'
<1>a. HostTypes /\ ServerTypes /\ ClientTypes /\ Incarnations /\ OneServer /\ ServerKnows
  BY DEF ConInv, ConTypes
<1>s. /\ MaxInst \in Nat /\ PtyBuf \in Nat \ {0} /\ Inst \subseteq Nat \ {0} /\ NoClient \notin Client
      /\ Inst \subseteq 0..MaxInst /\ 0 \in 0..MaxInst
  BY ConSizes
<1> USE DEF host, pty, served, clients
<1>1. ASSUME CleanConsole PROVE ServerKnows'
  <2>1. UNCHANGED <<srv, backlog, curConn, reader, at, peer>>
    BY <1>1 DEF CleanConsole
  <2> QED
    BY <1>a, <2>1 DEF ServerKnows, Mine, Connected
<1>2. ASSUME NEW ok \in BOOLEAN, SetupSocketConsole(ok) PROVE ServerKnows'
  <2>1. begun + 1 \in Inst /\ begun \in Nat /\ SetupDoes(begun + 1)
    BY <1>a, <1>2, SetupEffect, NextInst DEF SetupSocketConsole
  <2>2. UNCHANGED <<at, peer, backlog, curConn>>
    BY <2>1 DEF SetupDoes, clients
  <2>3. \A c \in Client, j \in Inst : Mine(c, j)' <=> Mine(c, j)
    BY <2>2 DEF Mine, Connected
  <2>4. \A j \in Inst :
          /\ srv'[j].client = srv[j].client
          /\ srv'[j].at = srv[j].at \/ (srv[j].at = "none" /\ srv'[j].at \in {"none", "accept"})
    BY <2>1 DEF SetupDoes
  <2>5. \A j \in Inst : reader'[j].at = "write" => reader[j].at = "write"
    BY <2>1 DEF SetupDoes
  <2>6. /\ \A j \in Inst : srv'[j].client # NoClient <=> srv'[j].at \in {"adopt", "input", "clear"}
        /\ \A j \in Inst : srv'[j].at = "clear" => srv[j].at = "clear"
    <3>1. \A j \in Inst : srv[j].client # NoClient <=> srv[j].at \in {"adopt", "input", "clear"}
      BY <1>a DEF ServerKnows
    <3> QED
      BY <2>4, <3>1
  <2> QED
    BY <1>a, <2>2, <2>3, <2>6, <2>4, <2>5 DEF ServerKnows, Mine, Connected
<1>3. ASSUME NEW i \in Inst, ContainerWrites(i) PROVE ServerKnows'
  <2>1. UNCHANGED <<srv, backlog, curConn, reader, at, peer>>
    BY <1>3 DEF ContainerWrites
  <2> QED
    BY <1>a, <2>1 DEF ServerKnows, Mine, Connected
<1>4. ASSUME NEW i \in Inst, ContainerReads(i) PROVE ServerKnows'
  <2>1. UNCHANGED <<srv, backlog, curConn, reader, at, peer>>
    BY <1>4 DEF ContainerReads
  <2> QED
    BY <1>a, <2>1 DEF ServerKnows, Mine, Connected
<1>5. ASSUME NEW i \in Inst, ContainerExits(i) PROVE ServerKnows'
  <2>1. UNCHANGED <<srv, backlog, curConn, reader, at, peer>>
    BY <1>5 DEF ContainerExits
  <2> QED
    BY <1>a, <2>1 DEF ServerKnows, Mine, Connected
<1>6. ASSUME NEW i \in Inst, Unlink(i) PROVE ServerKnows'
  <2>1. UNCHANGED <<srv, backlog, curConn, reader, at, peer>>
    BY <1>6 DEF Unlink, Moves
  <2> QED
    BY <1>a, <2>1 DEF ServerKnows, Mine, Connected
<1>7. ASSUME NEW i \in Inst, CloseListener(i) PROVE ServerKnows'
  <2>1. UNCHANGED <<srv, curConn, reader, at, peer>> /\ backlog' = [backlog EXCEPT ![i] = <<>>]
    BY <1>7 DEF CloseListener, ClientsReset
  <2>2. \A j \in Inst : backlog'[j] = backlog[j] \/ backlog'[j] = <<>>
    BY <1>a, <2>1 DEF ServerTypes
  <2> QED
    BY <1>a, <2>1, <2>2 DEF ServerKnows, Mine, Connected
<1>8. ASSUME NEW i \in Inst, RemovePath(i) PROVE ServerKnows'
  <2>1. UNCHANGED <<srv, backlog, curConn, reader, at, peer>>
    BY <1>8 DEF RemovePath, Moves
  <2> QED
    BY <1>a, <2>1 DEF ServerKnows, Mine, Connected
<1>9. ASSUME NEW i \in Inst, ReaderReads(i) PROVE ServerKnows'
  BY <1>a, <1>s, <1>9 DEF ReaderReads, ServerKnows, OneServer, ServerTypes, ClientTypes, Mine, Connected
<1>10. ASSUME NEW i \in Inst, ReaderLocks(i) PROVE ServerKnows'
  BY <1>a, <1>s, <1>10 DEF ReaderLocks, ServerKnows, OneServer, ServerTypes, ClientTypes, Mine, Connected
<1>11. ASSUME NEW i \in Inst, WriteFails(i) PROVE ServerKnows'
  BY <1>a, <1>s, <1>11 DEF WriteFails, Connected, ServerKnows, OneServer, ServerTypes, ClientTypes, Mine
<1>12. ASSUME NEW i \in Inst, WriteFrame(i) PROVE ServerKnows'
  BY <1>a, <1>s, <1>12 DEF WriteFrame, Connected, ServerKnows, OneServer, ServerTypes, ClientTypes, Mine
<1>13. ASSUME NEW i \in Inst, ReaderEnds(i) PROVE ServerKnows'
  BY <1>a, <1>s, <1>13 DEF ReaderEnds, ServerKnows, OneServer, ServerTypes, ClientTypes, Mine, Connected
<1>14. ASSUME NEW i \in Inst, Accept(i) PROVE ServerKnows'
  <2>0. backlog[i] \in Seq(Client) /\ backlog[i] # <<>>
    BY <1>a, <1>14 DEF Accept, ServerTypes
  <2>1. /\ Head(backlog[i]) = backlog[i][1] /\ Head(backlog[i]) \in Client /\ 1 \in 1..Len(backlog[i])
        /\ \A k \in 1..Len(Tail(backlog[i])) : Tail(backlog[i])[k] = backlog[i][k + 1] /\ k + 1 \in 1..Len(backlog[i])
    BY <2>0, HeadTailProperties
  <2>2. Mine(Head(backlog[i]), i) /\ \A k \in 1..Len(Tail(backlog[i])) : Mine(Tail(backlog[i])[k], i)
    BY <1>a, <2>1 DEF ServerKnows
  <2>3. /\ srv' = [srv EXCEPT ![i] = [at |-> "adopt", client |-> Head(backlog[i])]]
        /\ backlog' = [backlog EXCEPT ![i] = Tail(@)] /\ UNCHANGED <<curConn, reader, at, peer>>
    BY <1>14 DEF Accept
  <2>4. \A c \in Client, j \in Inst : Mine(c, j)' <=> Mine(c, j)
    BY <2>3 DEF Mine, Connected
  <2>5. \A j \in Inst : j # i => srv'[j] = srv[j] /\ backlog'[j] = backlog[j]
    BY <1>a, <2>3 DEF ServerTypes
  <2>6. srv'[i].at = "adopt" /\ srv'[i].client = Head(backlog[i]) /\ backlog'[i] = Tail(backlog[i])
    BY <1>a, <2>3 DEF ServerTypes
  <2>7. \A j \in Inst : \A k \in 1..Len(backlog[j]) : backlog[j][k] \in Client
    BY <1>a DEF ServerTypes
  <2> QED
    BY <1>a, <1>s, <2>1, <2>2, <2>3, <2>4, <2>5, <2>6, <2>7, SMTT(30) DEF ServerKnows, ServerTypes
<1>15. ASSUME NEW i \in Inst, AcceptFails(i) PROVE ServerKnows'
  BY <1>a, <1>s, <1>15 DEF AcceptFails, ServerKnows, OneServer, ServerTypes, ClientTypes, Mine, Connected
<1>16. ASSUME NEW i \in Inst, Adopt(i) PROVE ServerKnows'
  <2>1. curConn[i] = NoClient
    BY <1>a, <1>16 DEF Adopt, OneServer
  <2>2. /\ UNCHANGED <<backlog, reader, at, peer>> /\ srv[i].at = "adopt" /\ reader[i].at # "write"
        /\ curConn' = [curConn EXCEPT ![i] = srv[i].client] /\ srv' = [srv EXCEPT ![i].at = "input"]
    BY <1>16, <2>1 DEF Adopt, Unlocked
  <2> QED
    BY <1>a, <2>2 DEF ServerKnows, ServerTypes, Mine, Connected
<1>17. ASSUME NEW i \in Inst, HandleInput(i) PROVE ServerKnows'
  <2>1. UNCHANGED <<srv, backlog, curConn, reader, at, peer>>
    BY <1>17 DEF HandleInput
  <2> QED
    BY <1>a, <2>1 DEF ServerKnows, Mine, Connected
<1>18. ASSUME NEW i \in Inst, InputEnds(i) PROVE ServerKnows'
  <2>1. /\ UNCHANGED <<backlog, curConn, reader, at, peer>> /\ srv' = [srv EXCEPT ![i].at = "clear"]
        /\ srv[i].at = "input" /\ ~Connected(srv[i].client, i)
    BY <1>18 DEF InputEnds
  <2>2. at[srv[i].client] = "left"
    BY <1>a, <2>1 DEF ServerKnows, Mine
  <2> QED
    BY <1>a, <2>1, <2>2 DEF ServerKnows, ServerTypes, Mine, Connected
<1>19. ASSUME NEW i \in Inst, Clear(i) PROVE ServerKnows'
  BY <1>a, <1>s, <1>19, SMTT(30) DEF Clear, Unlocked, ServerKnows, OneServer, ServerTypes, ClientTypes, Mine, Connected
<1>20. ASSUME NEW c \in Client, Attach(c) PROVE ServerKnows'
  <2>1. \A d \in Client, j \in Inst : Mine(d, j) => at'[d] = "left" \/ (at'[d] = "up" /\ peer'[d] = j)
    BY <1>a, <1>s, <1>20 DEF Attach, Mine, Connected, ClientTypes
  <2>2. \A d \in Client : at[d] = "left" => at'[d] = "left"
    BY <1>a, <1>20 DEF Attach, ClientTypes
  <2>3. UNCHANGED <<srv, backlog, curConn, reader>>
    BY <1>20 DEF Attach
  <2>w. /\ \A j \in Inst : srv[j].client # NoClient => srv[j].client \in Client
        /\ \A j \in Inst : \A k \in 1..Len(backlog[j]) : backlog[j][k] \in Client
    BY <1>a DEF ServerTypes
  <2> QED
    BY <1>a, <2>w, <2>1, <2>2, <2>3 DEF ServerKnows, Mine, Connected
<1>21. ASSUME NEW c \in Client, Dial(c) PROVE ServerKnows'
  <2>1. \A d \in Client, j \in Inst : Mine(d, j) => at'[d] = "left" \/ (at'[d] = "up" /\ peer'[d] = j)
    BY <1>a, <1>s, <1>21 DEF Dial, Mine, Connected, ClientTypes, HostTypes
  <2>2. \A d \in Client : at[d] = "left" => at'[d] = "left"
    BY <1>a, <1>21 DEF Dial, ClientTypes
  <2>3. UNCHANGED <<srv, curConn, reader>>
    BY <1>21 DEF Dial
  <2>4. ASSUME NEW j \in Inst, NEW k \in 1..Len(backlog'[j])
        PROVE  LET d == backlog'[j][k] IN at'[d] = "left" \/ (at'[d] = "up" /\ peer'[d] = j)
    <3>0. backlog[j] \in Seq(Client) /\ \A l \in 1..Len(backlog[j]) : Mine(backlog[j][l], j) /\ backlog[j][l] \in Client
      <4>1. backlog[j] \in Seq(Client)
        BY <1>a DEF ServerTypes
      <4>2. \A l \in 1..Len(backlog[j]) : Mine(backlog[j][l], j)
        BY <1>a DEF ServerKnows
      <4> QED
        BY <4>1, <4>2
    <3>1. CASE backlog'[j] = backlog[j]
      BY <2>1, <3>0, <3>1
    <3>2. CASE backlog'[j] # backlog[j]
      <4>1. /\ sockPath \in Inst /\ backlog' = [backlog EXCEPT ![sockPath] = Append(@, c)]
            /\ at' = [at EXCEPT ![c] = "up"] /\ peer' = [peer EXCEPT ![c] = sockPath]
        BY <1>a, <1>21, <3>2 DEF Dial, HostTypes
      <4>2. j = sockPath /\ backlog'[j] = Append(backlog[j], c) /\ at'[c] = "up" /\ peer'[c] = j
        BY <1>a, <3>2, <4>1 DEF ServerTypes, ClientTypes
      <4>3. (k \in 1..Len(backlog[j]) /\ backlog'[j][k] = backlog[j][k]) \/ backlog'[j][k] = c
        BY <3>0, <4>2
      <4> QED
        BY <2>1, <3>0, <4>2, <4>3
    <3> QED
      BY <3>1, <3>2
  <2>w. /\ \A j \in Inst : srv[j].client # NoClient => srv[j].client \in Client
        /\ \A j \in Inst : \A k \in 1..Len(backlog[j]) : backlog[j][k] \in Client
    BY <1>a DEF ServerTypes
  <2>5. \A j \in Inst : \A k \in 1..Len(backlog'[j]) :
          at'[backlog'[j][k]] = "left" \/ (at'[backlog'[j][k]] = "up" /\ peer'[backlog'[j][k]] = j)
    BY <2>4
  <2> QED
    BY <1>a, <2>w, <2>1, <2>2, <2>3, <2>5 DEF ServerKnows, Mine, Connected
<1>22. ASSUME NEW c \in Client, Type(c) PROVE ServerKnows'
  <2>1. UNCHANGED <<srv, backlog, curConn, reader, at, peer>>
    BY <1>22 DEF Type
  <2> QED
    BY <1>a, <2>1 DEF ServerKnows, Mine, Connected
<1>23. ASSUME NEW c \in Client, Show(c) PROVE ServerKnows'
  <2>1. UNCHANGED <<srv, backlog, curConn, reader, at, peer>>
    BY <1>23 DEF Show
  <2> QED
    BY <1>a, <2>1 DEF ServerKnows, Mine, Connected
<1>24. ASSUME NEW c \in Client, TerminalStops(c) PROVE ServerKnows'
  <2>1. UNCHANGED <<srv, backlog, curConn, reader, at, peer>>
    BY <1>24 DEF TerminalStops
  <2> QED
    BY <1>a, <2>1 DEF ServerKnows, Mine, Connected
<1>25. ASSUME NEW c \in Client, Returns(c) PROVE ServerKnows'
  <2>1. \A d \in Client, j \in Inst : Mine(d, j) => at'[d] = "left" \/ (at'[d] = "up" /\ peer'[d] = j)
    BY <1>a, <1>s, <1>25 DEF Returns, Mine, Connected, ClientTypes
  <2>2. \A d \in Client : at[d] = "left" => at'[d] = "left"
    BY <1>a, <1>25 DEF Returns, ClientTypes
  <2>3. UNCHANGED <<srv, backlog, curConn, reader>>
    BY <1>25 DEF Returns
  <2>w. /\ \A j \in Inst : srv[j].client # NoClient => srv[j].client \in Client
        /\ \A j \in Inst : \A k \in 1..Len(backlog[j]) : backlog[j][k] \in Client
    BY <1>a DEF ServerTypes
  <2> QED
    BY <1>a, <2>w, <2>1, <2>2, <2>3 DEF ServerKnows, Mine, Connected
<1> QED
  BY <1>1, <1>2, <1>3, <1>4, <1>5, <1>6, <1>7, <1>8, <1>9, <1>10, <1>11, <1>12,
     <1>13, <1>14, <1>15, <1>16, <1>17, <1>18, <1>19, <1>20, <1>21, <1>22, <1>23,
     <1>24, <1>25 DEF ConNext, Detach, DoneSeen, EOFSeen

\* The next byte makes the run longer.
LEMMA RunAppend ==
  ASSUME NEW s \in Seq(Nat), NEW n \in Nat, RunUpTo(s, n)
  PROVE  RunUpTo(Append(s, n + 1), n + 1)
<1>1. /\ Len(Append(s, n + 1)) = Len(s) + 1 /\ Len(s) \in Nat
      /\ \A k \in 1..Len(s) : Append(s, n + 1)[k] = s[k]
      /\ Append(s, n + 1)[Len(s) + 1] = n + 1
  BY AppendProperties
<1>2. ASSUME NEW k \in 1..(Len(s) + 1) PROVE Append(s, n + 1)[k] = (n + 1) - (Len(s) + 1) + k
  BY <1>1 DEF RunUpTo
<1> QED
  BY <1>1, <1>2 DEF RunUpTo

\* Its first byte is the oldest, and the others are a run.
LEMMA RunTail ==
  ASSUME NEW s \in Seq(Nat), NEW n \in Nat, RunUpTo(s, n), s # <<>>
  PROVE  /\ Head(s) = n - Len(s) + 1 /\ Head(s) > 0
         /\ Tail(s) \in Seq(Nat) /\ Len(Tail(s)) = Len(s) - 1
         /\ RunUpTo(Tail(s), n)
<1>1. /\ Len(s) \in Nat \ {0} /\ Head(s) = s[1]
      /\ Tail(s) \in Seq(Nat) /\ Len(Tail(s)) = Len(s) - 1
      /\ \A k \in 1..Len(Tail(s)) : Tail(s)[k] = s[k + 1]
  BY HeadTailProperties, EmptySeq
<1>2. Head(s) = n - Len(s) + 1 /\ Len(s) <= n
  BY <1>1 DEF RunUpTo
<1>3. ASSUME NEW k \in 1..Len(Tail(s)) PROVE Tail(s)[k] = n - Len(Tail(s)) + k
  BY <1>1 DEF RunUpTo
<1> QED
  BY <1>1, <1>2, <1>3 DEF RunUpTo

\* How many bytes have been sent is a number.
LEMMA SentType ==
  ASSUME ServerTypes, InRun, NEW i \in Inst
  PROVE  /\ Sent(i) \in Nat /\ HeldByte(i) \in {0, 1}
         /\ Sent(i) = wrote[i] - Len(ptyOut[i]) - HeldByte(i)
         /\ wrote[i] \in Nat /\ Len(ptyOut[i]) \in Nat /\ ptyOut[i] \in Seq(Nat)
<1>1. HeldByte(i) \in {0, 1} /\ wrote[i] \in Nat /\ Len(ptyOut[i]) \in Nat /\ ptyOut[i] \in Seq(Nat)
  BY DEF HeldByte, ServerTypes
<1>2. Len(ptyOut[i]) <= wrote[i] /\ (HeldByte(i) = 1 => Sent(i) >= 0)
  BY DEF InRun, RunUpTo
<1> QED
  BY <1>1, <1>2 DEF Sent

\* A step that moves no byte and serves the same clients.
LEMMA RunsKept ==
  ASSUME InRun, UNCHANGED <<ptyOut, wrote, wire, shown>>,
         \A j \in Inst : 
           HeldByte(j)' = HeldByte(j) /\ (HeldByte(j) = 1 => reader'[j].byte = reader[j].byte),
         \A d \in Client, j \in Inst : Served(d, j)' <=> Served(d, j)
  PROVE  InRun'
<1>1. \A j \in Inst : Sent(j)' = Sent(j)
  BY DEF Sent
<1> QED
  BY <1>1 DEF InRun, RunUpTo

\* Every step keeps the output in one run.
LEMMA InRunStep ==
  ASSUME ConInv, ConNext
  PROVE  InRun'
<1>a. HostTypes /\ ServerTypes /\ ClientTypes /\ Incarnations /\ OneServer /\ ServerKnows /\ InRun
  BY DEF ConInv, ConTypes
<1>s. /\ MaxInst \in Nat /\ PtyBuf \in Nat \ {0} /\ Inst \subseteq Nat \ {0} /\ NoClient \notin Client
      /\ Inst \subseteq 0..MaxInst /\ 0 \in 0..MaxInst
  BY ConSizes
<1> USE DEF host, pty, served, clients
<1>1. ASSUME CleanConsole PROVE InRun'
  <2>1. UNCHANGED <<ptyOut, wrote, wire, shown, reader, curConn, at, peer>>
    BY <1>1 DEF CleanConsole
  <2> QED
    BY <1>a, <2>1, RunsKept DEF HeldByte, Served, Connected
<1>2. ASSUME NEW ok \in BOOLEAN, SetupSocketConsole(ok) PROVE InRun'
  <2>1. begun + 1 \in Inst /\ SetupDoes(begun + 1)
    BY <1>a, <1>2, SetupEffect, NextInst DEF SetupSocketConsole
  <2>2. UNCHANGED <<ptyOut, wrote, wire, shown, curConn, at, peer>>
    BY <2>1 DEF SetupDoes
  <2>3. \A j \in Inst : HeldByte(j)' = HeldByte(j) /\ (HeldByte(j) = 1 => reader'[j].byte = reader[j].byte)
    BY <2>1 DEF SetupDoes, HeldByte
  <2> QED
    BY <1>a, <2>2, <2>3, RunsKept DEF Served, Connected
<1>3. ASSUME NEW i \in Inst, ContainerWrites(i) PROVE InRun'
  <2>1. /\ UNCHANGED <<wire, shown, reader, curConn, at, peer>>
        /\ wrote' = [wrote EXCEPT ![i] = @ + 1] /\ ptyOut' = [ptyOut EXCEPT ![i] = Append(@, wrote[i] + 1)]
    BY <1>3 DEF ContainerWrites
  <2>2. \A d \in Client, j \in Inst : Served(d, j)' <=> Served(d, j)
    BY <2>1 DEF Served, Connected
  <2>3. ptyOut[i] \in Seq(Nat) /\ wrote[i] \in Nat /\ RunUpTo(ptyOut[i], wrote[i])
    BY <1>a DEF ServerTypes, InRun
  <2>4. /\ ptyOut'[i] = Append(ptyOut[i], wrote[i] + 1) /\ wrote'[i] = wrote[i] + 1
        /\ \A j \in Inst : j # i => ptyOut'[j] = ptyOut[j] /\ wrote'[j] = wrote[j]
    BY <1>a, <2>1 DEF ServerTypes
  <2>5. RunUpTo(Append(ptyOut[i], wrote[i] + 1), wrote[i] + 1) /\ Len(ptyOut'[i]) = Len(ptyOut[i]) + 1
    BY <2>3, <2>4, RunAppend
  <2>6. \A j \in Inst : HeldByte(j)' = HeldByte(j)
    BY <2>1 DEF HeldByte
  <2>7. ASSUME NEW j \in Inst PROVE Sent(j)' = Sent(j)
    <3>1. /\ Sent(j) = wrote[j] - Len(ptyOut[j]) - HeldByte(j) /\ HeldByte(j) \in {0, 1}
          /\ wrote[j] \in Nat /\ Len(ptyOut[j]) \in Nat
      BY <1>a, SentType
    <3>2. Sent(j)' = wrote'[j] - Len(ptyOut'[j]) - HeldByte(j)
      BY <2>6 DEF Sent
    <3>3. CASE j = i
      BY <2>4, <2>5, <3>1, <3>2, <3>3, SMTT(30)
    <3>4. CASE j # i
      BY <2>4, <2>5, <3>1, <3>2, <3>4
    <3> QED
      BY <3>3, <3>4
  <2>8. \A j \in Inst : RunUpTo(ptyOut'[j], wrote'[j])
    BY <1>a, <2>4, <2>5 DEF InRun
  <2> QED
    BY <1>a, <2>1, <2>2, <2>6, <2>7, <2>8 DEF InRun
<1>4. ASSUME NEW i \in Inst, ContainerReads(i) PROVE InRun'
  <2>1. UNCHANGED <<ptyOut, wrote, wire, shown, reader, curConn, at, peer>>
    BY <1>4 DEF ContainerReads
  <2> QED
    BY <1>a, <2>1, RunsKept DEF HeldByte, Served, Connected
<1>5. ASSUME NEW i \in Inst, ContainerExits(i) PROVE InRun'
  <2>1. UNCHANGED <<ptyOut, wrote, wire, shown, reader, curConn, at, peer>>
    BY <1>5 DEF ContainerExits
  <2> QED
    BY <1>a, <2>1, RunsKept DEF HeldByte, Served, Connected
<1>6. ASSUME NEW i \in Inst, Unlink(i) PROVE InRun'
  <2>1. UNCHANGED <<ptyOut, wrote, wire, shown, reader, curConn, at, peer>>
    BY <1>6 DEF Unlink, Moves
  <2> QED
    BY <1>a, <2>1, RunsKept DEF HeldByte, Served, Connected
<1>7. ASSUME NEW i \in Inst, CloseListener(i) PROVE InRun'
  <2>1. UNCHANGED <<ptyOut, wrote, wire, shown, reader, curConn, at, peer>>
    BY <1>7 DEF CloseListener, Moves, ClientsReset
  <2> QED
    BY <1>a, <2>1, RunsKept DEF HeldByte, Served, Connected
<1>8. ASSUME NEW i \in Inst, RemovePath(i) PROVE InRun'
  <2>1. UNCHANGED <<ptyOut, wrote, wire, shown, reader, curConn, at, peer>>
    BY <1>8 DEF RemovePath, Moves
  <2> QED
    BY <1>a, <2>1, RunsKept DEF HeldByte, Served, Connected
<1>9. ASSUME NEW i \in Inst, ReaderReads(i) PROVE InRun'
  <2>1. /\ UNCHANGED <<wire, shown, wrote, curConn, at, peer>> /\ ptyOut[i] # <<>> /\ reader[i].at = "read"
        /\ reader' = [reader EXCEPT ![i] = [at |-> "send", byte |-> Head(ptyOut[i])]]
        /\ ptyOut' = [ptyOut EXCEPT ![i] = Tail(@)]
    BY <1>9 DEF ReaderReads
  <2>2. \A d \in Client, j \in Inst : Served(d, j)' <=> Served(d, j)
    BY <2>1 DEF Served, Connected
  <2>3. ptyOut[i] \in Seq(Nat) /\ wrote[i] \in Nat /\ RunUpTo(ptyOut[i], wrote[i])
    BY <1>a DEF ServerTypes, InRun
  <2>4. /\ Head(ptyOut[i]) = wrote[i] - Len(ptyOut[i]) + 1
        /\ Len(Tail(ptyOut[i])) = Len(ptyOut[i]) - 1 /\ RunUpTo(Tail(ptyOut[i]), wrote[i])
    BY <2>1, <2>3, RunTail
  <2>5. /\ ptyOut'[i] = Tail(ptyOut[i]) /\ reader'[i].byte = Head(ptyOut[i])
        /\ HeldByte(i) = 0 /\ HeldByte(i)' = 1
        /\ \A j \in Inst : j # i => ptyOut'[j] = ptyOut[j] /\ reader'[j] = reader[j] /\ HeldByte(j)' = HeldByte(j)
    BY <1>a, <2>1 DEF ServerTypes, HeldByte
  <2>6. ASSUME NEW j \in Inst PROVE Sent(j)' = Sent(j) /\ Sent(j) >= 0 /\ (j = i => Sent(j) = wrote[j] - Len(ptyOut[j]))
    <3>1. /\ Sent(j) = wrote[j] - Len(ptyOut[j]) - HeldByte(j) /\ HeldByte(j) \in {0, 1} /\ Sent(j) \in Nat
          /\ wrote[j] \in Nat /\ Len(ptyOut[j]) \in Nat
      BY <1>a, SentType
    <3>2. Sent(j)' = wrote[j] - Len(ptyOut'[j]) - HeldByte(j)'
      BY <2>1 DEF Sent
    <3>3. CASE j = i
      <4>1. Len(ptyOut'[i]) = Len(ptyOut[i]) - 1 /\ HeldByte(i)' = 1 /\ HeldByte(i) = 0
        BY <2>4, <2>5
      <4>2. Sent(i)' = wrote[i] - (Len(ptyOut[i]) - 1) - 1 /\ Sent(i) = wrote[i] - Len(ptyOut[i]) - 0
        BY <3>1, <3>2, <3>3, <4>1
      <4> QED
        BY <3>1, <3>3, <4>2
    <3>4. CASE j # i
      BY <2>4, <2>5, <3>1, <3>2, <3>4
    <3> QED
      BY <3>3, <3>4
  <2>7. \A j \in Inst : RunUpTo(ptyOut'[j], wrote[j])
    BY <1>a, <2>4, <2>5 DEF InRun
  <2>8. \A j \in Inst : HeldByte(j)' = 1 => reader'[j].byte = Sent(j)' + 1 /\ Sent(j)' >= 0
    BY <1>a, <2>4, <2>5, <2>6 DEF InRun
  <2> QED
    BY <1>a, <2>1, <2>2, <2>6, <2>7, <2>8 DEF InRun
<1>10. ASSUME NEW i \in Inst, ReaderLocks(i) PROVE InRun'
  <2>1. /\ UNCHANGED <<wire, shown, wrote, ptyOut, curConn, at, peer>> /\ reader[i].at = "send"
        /\ reader' = [reader EXCEPT ![i].at = IF curConn[i] = NoClient THEN "read" ELSE "write"]
    BY <1>10 DEF ReaderLocks
  <2>2. \A d \in Client, j \in Inst : Served(d, j)' <=> Served(d, j)
    BY <2>1 DEF Served, Connected
  <2>3. \A j \in Inst : reader'[j].byte = reader[j].byte /\ (j # i \/ curConn[i] # NoClient => HeldByte(j)' = HeldByte(j))
    BY <1>a, <2>1 DEF ServerTypes, HeldByte
  <2>4. CASE curConn[i] # NoClient
    BY <1>a, <2>1, <2>2, <2>3, <2>4, RunsKept
  <2>5. CASE curConn[i] = NoClient
    <3>1. HeldByte(i)' = 0 /\ \A d \in Client : ~Served(d, i)
      BY <1>a, <1>s, <2>1, <2>5 DEF ServerTypes, HeldByte, Served
    <3>2. \A j \in Inst : j # i => Sent(j)' = Sent(j)
      BY <2>1, <2>3 DEF Sent
    <3> QED
      BY <1>a, <2>1, <2>2, <2>3, <3>1, <3>2 DEF InRun, RunUpTo
  <2> QED
    BY <2>4, <2>5
<1>11. ASSUME NEW i \in Inst, WriteFails(i) PROVE InRun'
  <2>1. /\ UNCHANGED <<wire, shown, wrote, ptyOut, at, peer>> /\ ~Connected(curConn[i], i)
        /\ curConn' = [curConn EXCEPT ![i] = NoClient] /\ reader' = [reader EXCEPT ![i].at = "read"]
    BY <1>11 DEF WriteFails
  <2>2. \A d \in Client : ~Served(d, i) /\ ~Served(d, i)'
    BY <1>a, <1>s, <2>1 DEF Served, ServerTypes
  <2>3. \A d \in Client, j \in Inst : Served(d, j)' <=> Served(d, j)
    BY <1>a, <2>1, <2>2 DEF Served, Connected, ServerTypes
  <2>4. HeldByte(i)' = 0 /\ \A j \in Inst : j # i => HeldByte(j)' = HeldByte(j) /\ reader'[j] = reader[j]
    BY <1>a, <2>1 DEF ServerTypes, HeldByte
  <2>5. \A j \in Inst : j # i => Sent(j)' = Sent(j)
    BY <2>1, <2>4 DEF Sent
  <2> QED
    BY <1>a, <2>1, <2>2, <2>3, <2>4, <2>5 DEF InRun, RunUpTo
<1>12. ASSUME NEW i \in Inst, WriteFrame(i) PROVE InRun'
  <2> PICK c : c = curConn[i]
    OBVIOUS
  <2>1. /\ UNCHANGED <<shown, wrote, ptyOut, curConn, at, peer>> /\ reader[i].at = "write" /\ Connected(c, i)
        /\ wire' = [wire EXCEPT ![c] = Append(@, reader[i].byte)] /\ reader' = [reader EXCEPT ![i].at = "read"]
    BY <1>12 DEF WriteFrame
  <2>2. c \in Client /\ Served(c, i)
    BY <1>a, <2>1 DEF ServerKnows, ServerTypes, Served
  <2>3. \A d \in Client, j \in Inst : (Served(d, j)' <=> Served(d, j)) /\ (Served(d, j) /\ (d = c \/ j = i) => d = c /\ j = i)
    BY <2>1, <2>2 DEF Served, Connected
  <2>4. /\ HeldByte(i) = 1 /\ HeldByte(i)' = 0
        /\ \A j \in Inst : j # i => HeldByte(j)' = HeldByte(j) /\ reader'[j] = reader[j]
    BY <1>a, <2>1 DEF ServerTypes, HeldByte
  <2>5. /\ Sent(i) \in Nat /\ Sent(i)' = Sent(i) + 1 /\ reader[i].byte = Sent(i) + 1
        /\ \A j \in Inst : j # i => Sent(j)' = Sent(j)
    <3>1. /\ Sent(i) = wrote[i] - Len(ptyOut[i]) - 1 /\ Sent(i) \in Nat
          /\ wrote[i] \in Nat /\ Len(ptyOut[i]) \in Nat
      BY <1>a, <2>4, SentType
    <3>2. Sent(i)' = wrote[i] - Len(ptyOut[i]) - 0
      BY <2>1, <2>4 DEF Sent
    <3>3. \A j \in Inst : j # i => Sent(j)' = Sent(j)
      BY <2>1, <2>4 DEF Sent
    <3>4. reader[i].byte = Sent(i) + 1
      BY <1>a, <2>4 DEF InRun
    <3> QED
      BY <3>1, <3>2, <3>3, <3>4
  <2>6. wire[c] \in Seq(Nat) /\ RunUpTo(wire[c], Sent(i)) /\ (shown[c] = 0 \/ shown[c] = Sent(i) - Len(wire[c]))
    BY <1>a, <2>2 DEF InRun, ClientTypes
  <2>7. /\ wire'[c] = Append(wire[c], Sent(i) + 1) /\ \A d \in Client : d # c => wire'[d] = wire[d]
        /\ Len(wire'[c]) = Len(wire[c]) + 1 /\ Len(wire[c]) \in Nat
    BY <1>a, <2>1, <2>2, <2>5, <2>6 DEF ClientTypes
  <2>8. RunUpTo(wire'[c], Sent(i)') /\ (shown[c] = 0 \/ shown[c] = Sent(i)' - Len(wire'[c]))
    <3>1. RunUpTo(Append(wire[c], Sent(i) + 1), Sent(i) + 1)
      BY <2>5, <2>6, RunAppend
    <3>2. Sent(i)' - Len(wire'[c]) = Sent(i) - Len(wire[c])
      BY <2>5, <2>7
    <3> QED
      BY <2>5, <2>6, <2>7, <3>1, <3>2
  <2>9. \A j \in Inst : HeldByte(j)' = 1 => reader'[j].byte = Sent(j)' + 1 /\ Sent(j)' >= 0
    BY <1>a, <2>4, <2>5 DEF InRun
  <2>10. ASSUME NEW d \in Client, NEW j \in Inst, Served(d, j)
         PROVE  RunUpTo(wire'[d], Sent(j)') /\ (shown[d] = 0 \/ shown[d] = Sent(j)' - Len(wire'[d]))
    <3>1. CASE d = c
      BY <2>3, <2>8, <2>10, <3>1
    <3>2. CASE d # c
      <4>1. j # i /\ Sent(j)' = Sent(j) /\ wire'[d] = wire[d]
        BY <2>3, <2>5, <2>7, <2>10, <3>2
      <4> QED
        BY <1>a, <2>10, <4>1 DEF InRun
    <3> QED
      BY <3>1, <3>2
  <2>11. \A d \in Client : shown[d] # 0 \/ wire'[d] # <<>> => \E j \in Inst : Served(d, j)
    BY <1>a, <2>2, <2>7 DEF InRun
  <2> QED
    BY <1>a, <2>1, <2>3, <2>9, <2>10, <2>11 DEF InRun
<1>13. ASSUME NEW i \in Inst, ReaderEnds(i) PROVE InRun'
  <2>1. /\ UNCHANGED <<ptyOut, wrote, wire, shown, curConn, at, peer>>
        /\ reader[i].at = "read" /\ reader' = [reader EXCEPT ![i].at = "gone"]
    BY <1>13 DEF ReaderEnds
  <2>2. \A j \in Inst : HeldByte(j)' = HeldByte(j) /\ reader'[j].byte = reader[j].byte
    BY <1>a, <2>1 DEF HeldByte, ServerTypes
  <2> QED
    BY <1>a, <2>1, <2>2, RunsKept DEF Served, Connected
<1>14. ASSUME NEW i \in Inst, Accept(i) PROVE InRun'
  <2>1. UNCHANGED <<ptyOut, wrote, wire, shown, reader, curConn, at, peer>>
    BY <1>14 DEF Accept
  <2> QED
    BY <1>a, <2>1, RunsKept DEF HeldByte, Served, Connected
<1>15. ASSUME NEW i \in Inst, AcceptFails(i) PROVE InRun'
  <2>1. UNCHANGED <<ptyOut, wrote, wire, shown, reader, curConn, at, peer>>
    BY <1>15 DEF AcceptFails
  <2> QED
    BY <1>a, <2>1, RunsKept DEF HeldByte, Served, Connected
<1>16. ASSUME NEW i \in Inst, Adopt(i) PROVE InRun'
  <2>1. curConn[i] = NoClient
    BY <1>a, <1>16 DEF Adopt, OneServer
  <2> PICK c : c = srv[i].client
    OBVIOUS
  <2>2. /\ UNCHANGED <<wire, shown, wrote, ptyOut, reader, at, peer>> /\ srv[i].at = "adopt"
        /\ curConn' = [curConn EXCEPT ![i] = c]
    BY <1>16, <2>1 DEF Adopt
  <2>3. c \in Client
    BY <1>a, <2>2 DEF ServerKnows, ServerTypes
  <2>4. \A j \in Inst : HeldByte(j)' = HeldByte(j) /\ Sent(j)' = Sent(j)
    BY <2>2 DEF HeldByte, Sent
  <2>5. \A d \in Client : ~Served(d, i)
    BY <1>s, <2>1 DEF Served
  <2>6. \A d \in Client, j \in Inst : Served(d, j)' /\ ~Served(d, j) => d = c /\ j = i /\ Connected(c, i)
    BY <1>a, <2>2 DEF Served, Connected, ServerTypes
  <2>7. \A d \in Client, j \in Inst : Served(d, j) => Served(d, j)'
    BY <1>a, <2>2, <2>5 DEF Served, Connected, ServerTypes
  <2>8. ASSUME Connected(c, i) PROVE shown[c] = 0 /\ wire[c] = <<>>
    <3>1. \A j \in Inst : ~Served(c, j)
      BY <1>a, <2>3, <2>5, <2>8 DEF Served, Connected
    <3> QED
      BY <1>a, <2>3, <3>1 DEF InRun
  <2>9. Sent(i) \in Nat
    BY <1>a, SentType
  <2>10. RunUpTo(<<>>, Sent(i))
    BY <2>9 DEF RunUpTo
  <2> QED
    BY <1>a, <2>2, <2>4, <2>6, <2>7, <2>8, <2>10 DEF InRun
<1>17. ASSUME NEW i \in Inst, HandleInput(i) PROVE InRun'
  <2>1. UNCHANGED <<ptyOut, wrote, wire, shown, reader, curConn, at, peer>>
    BY <1>17 DEF HandleInput
  <2> QED
    BY <1>a, <2>1, RunsKept DEF HeldByte, Served, Connected
<1>18. ASSUME NEW i \in Inst, InputEnds(i) PROVE InRun'
  <2>1. UNCHANGED <<ptyOut, wrote, wire, shown, reader, curConn, at, peer>>
    BY <1>18 DEF InputEnds, Connected
  <2> QED
    BY <1>a, <2>1, RunsKept DEF HeldByte, Served, Connected
<1>19. ASSUME NEW i \in Inst, Clear(i) PROVE InRun'
  <2>1. /\ UNCHANGED <<ptyOut, wrote, wire, shown, reader, at, peer>> /\ srv[i].at = "clear"
        /\ curConn' = [curConn EXCEPT ![i] = IF @ = srv[i].client THEN NoClient ELSE @]
    BY <1>19 DEF Clear
  <2>2. at[srv[i].client] = "left"
    BY <1>a, <2>1 DEF ServerKnows
  <2>3. \A d \in Client, j \in Inst : Served(d, j)' <=> Served(d, j)
    BY <1>a, <1>s, <2>1, <2>2 DEF Served, Connected, ServerTypes
  <2> QED
    BY <1>a, <2>1, <2>3, RunsKept DEF HeldByte
<1>20. ASSUME NEW c \in Client, Attach(c) PROVE InRun'
  <2>1. UNCHANGED <<ptyOut, wrote, wire, shown, reader, curConn, peer>> /\ at[c] # "up"
        /\ at' = [at EXCEPT ![c] = "checked"]
    BY <1>20 DEF Attach
  <2>2. \A d \in Client, j \in Inst : Served(d, j)' <=> Served(d, j)
    BY <1>a, <2>1 DEF Served, Connected, ClientTypes
  <2> QED
    BY <1>a, <2>1, <2>2, RunsKept DEF HeldByte
<1>21. ASSUME NEW c \in Client, Dial(c) PROVE InRun'
  <2>1. /\ UNCHANGED <<wire, shown, wrote, ptyOut, reader, curConn>> /\ at[c] = "checked"
        /\ \A d \in Client : d # c => at'[d] = at[d] /\ peer'[d] = peer[d]
    BY <1>a, <1>21 DEF Dial, ClientTypes
  <2>2. \A j \in Inst : curConn[j] # c
    BY <1>a, <1>s, <2>1 DEF OneServer, ServerKnows, Mine, Connected
  <2>3. \A d \in Client, j \in Inst : Served(d, j)' <=> Served(d, j)
    BY <2>1, <2>2 DEF Served, Connected
  <2> QED
    BY <1>a, <2>1, <2>3, RunsKept DEF HeldByte
<1>22. ASSUME NEW c \in Client, Type(c) PROVE InRun'
  <2>1. UNCHANGED <<ptyOut, wrote, wire, shown, reader, curConn, at, peer>>
    BY <1>22 DEF Type
  <2> QED
    BY <1>a, <2>1, RunsKept DEF HeldByte, Served, Connected
<1>23. ASSUME NEW c \in Client, Show(c) PROVE InRun'
  <2>1. /\ UNCHANGED <<wrote, ptyOut, reader, curConn, at, peer>> /\ wire[c] # <<>>
        /\ shown' = [shown EXCEPT ![c] = Head(wire[c])] /\ wire' = [wire EXCEPT ![c] = Tail(@)]
    BY <1>23 DEF Show
  <2>2. \A d \in Client, j \in Inst : Served(d, j)' <=> Served(d, j)
    BY <2>1 DEF Served, Connected
  <2>3. \A j \in Inst : HeldByte(j)' = HeldByte(j) /\ Sent(j)' = Sent(j)
    BY <2>1 DEF HeldByte, Sent
  <2>4. /\ shown'[c] = Head(wire[c]) /\ wire'[c] = Tail(wire[c]) /\ wire[c] \in Seq(Nat)
        /\ \A d \in Client : d # c => shown'[d] = shown[d] /\ wire'[d] = wire[d]
    BY <1>a, <2>1 DEF ClientTypes
  <2>5. ASSUME NEW j \in Inst, Served(c, j)
        PROVE  RunUpTo(wire'[c], Sent(j)) /\ shown'[c] = Sent(j) - Len(wire'[c])
    <3>1. Sent(j) \in Nat /\ RunUpTo(wire[c], Sent(j))
      BY <1>a, <2>5, SentType DEF InRun
    <3>2. /\ Head(wire[c]) = Sent(j) - Len(wire[c]) + 1 /\ Len(Tail(wire[c])) = Len(wire[c]) - 1
          /\ RunUpTo(Tail(wire[c]), Sent(j)) /\ Len(wire[c]) \in Nat
      BY <2>1, <2>4, <3>1, RunTail, LenProperties
    <3> QED
      BY <2>4, <3>1, <3>2
  <2>6. \E j \in Inst : Served(c, j)
    BY <1>a, <2>1 DEF InRun
  <2>7. \A d \in Client, j \in Inst : Served(d, j) =>
          RunUpTo(wire'[d], Sent(j)) /\ (shown'[d] = 0 \/ shown'[d] = Sent(j) - Len(wire'[d]))
    BY <1>a, <2>4, <2>5 DEF InRun
  <2>8. \A d \in Client : shown'[d] # 0 \/ wire'[d] # <<>> => \E j \in Inst : Served(d, j)
    BY <1>a, <2>4, <2>6 DEF InRun
  <2> QED
    BY <1>a, <2>1, <2>2, <2>3, <2>7, <2>8 DEF InRun
<1>24. ASSUME NEW c \in Client, TerminalStops(c) PROVE InRun'
  <2>1. UNCHANGED <<ptyOut, wrote, wire, shown, reader, curConn, at, peer>>
    BY <1>24 DEF TerminalStops
  <2> QED
    BY <1>a, <2>1, RunsKept DEF HeldByte, Served, Connected
<1>25. ASSUME NEW c \in Client, Returns(c) PROVE InRun'
  <2>1. /\ UNCHANGED <<wrote, ptyOut, reader, curConn>>
        /\ at'[c] = "left" /\ wire'[c] = <<>> /\ shown'[c] = 0
        /\ \A d \in Client : d # c => at'[d] = at[d] /\ peer'[d] = peer[d] /\ wire'[d] = wire[d] /\ shown'[d] = shown[d]
    BY <1>a, <1>25 DEF Returns, ClientTypes
  <2>2. /\ \A j \in Inst : ~Served(c, j)'
        /\ \A d \in Client, j \in Inst : d # c => (Served(d, j)' <=> Served(d, j))
    BY <2>1 DEF Served, Connected
  <2>3. \A j \in Inst : HeldByte(j)' = HeldByte(j) /\ Sent(j)' = Sent(j)
    BY <2>1 DEF HeldByte, Sent
  <2> QED
    BY <1>a, <2>1, <2>2, <2>3 DEF InRun
<1> QED
  BY <1>1, <1>2, <1>3, <1>4, <1>5, <1>6, <1>7, <1>8, <1>9, <1>10, <1>11, <1>12,
     <1>13, <1>14, <1>15, <1>16, <1>17, <1>18, <1>19, <1>20, <1>21, <1>22, <1>23,
     <1>24, <1>25 DEF ConNext, Detach, DoneSeen, EOFSeen

\* Two runs that follow each other are one.
LEMMA RunConcat ==
  ASSUME NEW s \in Seq(Nat), NEW t \in Seq(Nat), NEW n \in Nat,
         RunUpTo(t, n), RunUpTo(s, n - Len(t))
  PROVE  s \o t \in Seq(Nat) /\ Len(s \o t) = Len(s) + Len(t) /\ RunUpTo(s \o t, n)
<1>1. /\ s \o t \in Seq(Nat) /\ Len(s \o t) = Len(s) + Len(t) /\ Len(s) \in Nat /\ Len(t) \in Nat
      /\ \A k \in 1..(Len(s) + Len(t)) : (s \o t)[k] = IF k <= Len(s) THEN s[k] ELSE t[k - Len(s)]
  BY ConcatProperties, LenProperties
<1>2. Len(s) + Len(t) <= n
  BY <1>1 DEF RunUpTo
<1>3. ASSUME NEW k \in 1..(Len(s) + Len(t)) PROVE (s \o t)[k] = n - (Len(s) + Len(t)) + k
  <2>1. CASE k <= Len(s)
    BY <1>1, <2>1 DEF RunUpTo
  <2>2. CASE k > Len(s)
    <3>1. (s \o t)[k] = t[k - Len(s)] /\ k - Len(s) \in 1..Len(t)
      BY <1>1, <2>2
    <3> QED
      BY <1>1, <3>1 DEF RunUpTo
  <2> QED
    BY <1>1, <2>1, <2>2
<1> QED
  BY <1>1, <1>2, <1>3 DEF RunUpTo

\* No byte, or one.
LEMMA RunShort ==
  ASSUME NEW n \in Nat, NEW b \in Nat
  PROVE  /\ <<>> \in Seq(Nat) /\ Len(<<>>) = 0 /\ RunUpTo(<<>>, n)
         /\ <<b>> \in Seq(Nat) /\ Len(<<b>>) = 1 /\ (b = n /\ b > 0 => RunUpTo(<<b>>, n))
  BY DEF RunUpTo

\* What is on its way out of the PTY is a run.
LEMMA PendingRun ==
  ASSUME ServerTypes, InRun, NEW i \in Inst
  PROVE  /\ Pending(i) \in Seq(Nat) /\ RunUpTo(Pending(i), wrote[i])
         /\ Sent(i) = wrote[i] - Len(Pending(i))
<1>1. /\ Sent(i) \in Nat /\ HeldByte(i) \in {0, 1} /\ Sent(i) = wrote[i] - Len(ptyOut[i]) - HeldByte(i)
      /\ wrote[i] \in Nat /\ Len(ptyOut[i]) \in Nat /\ ptyOut[i] \in Seq(Nat)
  BY SentType
<1>2. RunUpTo(ptyOut[i], wrote[i]) /\ reader[i].byte \in Nat
  BY DEF InRun, ServerTypes
<1>3. CASE HeldByte(i) = 1
  <2>1. reader[i].byte = wrote[i] - Len(ptyOut[i]) /\ reader[i].byte > 0
    <3>1. reader[i].byte = Sent(i) + 1
      BY <1>3 DEF InRun
    <3> QED
      BY <1>1, <1>3, <3>1
  <2>2. Pending(i) = <<reader[i].byte>> \o ptyOut[i]
    <3>1. reader[i].at \in {"send", "write"}
      BY <1>3 DEF HeldByte
    <3> QED
      BY <3>1, Zenon DEF Pending
  <2>3. <<reader[i].byte>> \in Seq(Nat) /\ Len(<<reader[i].byte>>) = 1 /\ RunUpTo(<<reader[i].byte>>, wrote[i] - Len(ptyOut[i]))
    BY <1>2, <2>1, RunShort
  <2>4. /\ <<reader[i].byte>> \o ptyOut[i] \in Seq(Nat) /\ RunUpTo(<<reader[i].byte>> \o ptyOut[i], wrote[i])
        /\ Len(<<reader[i].byte>> \o ptyOut[i]) = 1 + Len(ptyOut[i])
    BY <1>1, <1>2, <2>3, RunConcat
  <2> QED
    BY <1>1, <1>3, <2>2, <2>4
<1>4. CASE HeldByte(i) = 0
  <2>1. Pending(i) = <<>> \o ptyOut[i]
    <3>1. reader[i].at \notin {"send", "write"}
      BY <1>4 DEF HeldByte
    <3> QED
      BY <3>1, Zenon DEF Pending
  <2>2. Pending(i) = ptyOut[i]
    BY <1>1, <2>1
  <2> QED
    BY <1>1, <1>2, <1>4, <2>2
<1> QED
  BY <1>1, <1>3, <1>4

\* The invariant is as strong as ConsoleSafe.
LEMMA ConInvSafe ==
  ASSUME ConInv
  PROVE  ConsoleSafe
<1>1. HostTypes /\ ServerTypes /\ ClientTypes /\ PtyBounded /\ InRun
  BY DEF ConInv, ConTypes
<1>2. ConTypeOK
  BY <1>1, ConSizes DEF ConTypeOK, HostTypes, ServerTypes, PtyBounded
<1>3. ASSUME NEW i \in Inst, NEW c \in Client, Served(c, i)
      PROVE  LET run == (IF shown[c] = 0 THEN <<>> ELSE <<shown[c]>>) \o wire[c] \o Pending(i)
             IN \A k \in 1..Len(run) : run[k] = wrote[i] - Len(run) + k
  <2>1. /\ Pending(i) \in Seq(Nat) /\ RunUpTo(Pending(i), wrote[i]) /\ Sent(i) = wrote[i] - Len(Pending(i))
        /\ Sent(i) \in Nat /\ wrote[i] \in Nat
    BY <1>1, PendingRun, SentType
  <2>2. /\ wire[c] \in Seq(Nat) /\ RunUpTo(wire[c], Sent(i)) /\ shown[c] \in Nat
        /\ (shown[c] = 0 \/ shown[c] = Sent(i) - Len(wire[c]))
    BY <1>1, <1>3 DEF InRun, ClientTypes
  <2>3. PICK s : s = IF shown[c] = 0 THEN <<>> ELSE <<shown[c]>>
    OBVIOUS
  <2>4. Sent(i) - Len(wire[c]) \in Nat
    BY <2>1, <2>2, LenProperties DEF RunUpTo
  <2>5. s \in Seq(Nat) /\ RunUpTo(s, Sent(i) - Len(wire[c]))
    <3>1. CASE shown[c] = 0
      BY <2>3, <2>4, <3>1, RunShort
    <3>2. CASE shown[c] # 0
      BY <2>2, <2>3, <2>4, <3>2, RunShort
    <3> QED
      BY <3>1, <3>2
  <2>6. s \o wire[c] \in Seq(Nat) /\ RunUpTo(s \o wire[c], Sent(i))
    BY <2>1, <2>2, <2>5, RunConcat
  <2>7. RunUpTo(s \o wire[c] \o Pending(i), wrote[i])
    BY <2>1, <2>6, RunConcat
  <2> QED
    BY <2>3, <2>7 DEF RunUpTo
<1>4. OutputWhole
  BY <1>3 DEF OutputWhole, Served
<1> QED
  BY <1>2, <1>4 DEF ConInv, ConsoleSafe

\* Before the first start.
LEMMA ConInitial ==
  ASSUME ConInit
  PROVE  ConInv
<1>1. HostTypes /\ ServerTypes /\ ClientTypes
  BY ConSizes DEF ConInit, HostTypes, ServerTypes, ClientTypes, Idle
<1>2. PtyBounded /\ Incarnations /\ Reachable /\ OneServer
  BY ConSizes DEF ConInit, PtyBounded, Incarnations, Reachable, OneServer, Idle
<1>3. ServerKnows
  BY DEF ConInit, ServerKnows, Idle
<1>4. InRun
  BY ConSizes DEF ConInit, InRun, RunUpTo, HeldByte, Served, Connected
<1> QED
  BY <1>1, <1>2, <1>3, <1>4 DEF ConInv, ConTypes

\* A step of the console keeps the invariant.
LEMMA ConStep ==
  ASSUME ConInv, [ConNext]_conVars
  PROVE  ConInv'
<1>1. CASE ConNext
  BY <1>1, ConTypesStep, PtyBoundedStep, IncarnationsStep, ReachableStep, OneServerStep,
     ServerKnowsStep, InRunStep DEF ConInv
<1>2. CASE UNCHANGED conVars
  <2>1. ConTypes' /\ PtyBounded'
    BY <1>2 DEF conVars, ConInv, ConTypes, HostTypes, ServerTypes, ClientTypes, PtyBounded
  <2>2. Incarnations' /\ OneServer' /\ Reachable'
    BY <1>2 DEF conVars, ConInv, Incarnations, OneServer, Reachable
  <2>3. ServerKnows'
    BY <1>2 DEF conVars, ConInv, ServerKnows, Mine, Connected
  <2>4. InRun'
    BY <1>2, RunsKept DEF conVars, ConInv, HeldByte, Served, Connected
  <2> QED
    BY <2>1, <2>2, <2>3, <2>4 DEF ConInv
<1> QED
  BY <1>1, <1>2

\* The console of a container (SetupSocketConsole, StartSocket and attach, over
\* every number of incarnations, clients and bytes): a client is served by the
\* goroutine that accepted it, it sees the output from where it was adopted
\* whole and in order, and the socket leads to the incarnation that is up
\* unless an earlier one was cleaned up late.
THEOREM ConsoleIsSafe == ConSpec => []ConsoleSafe
<1>1. ConInit => ConInv
  BY ConInitial
<1>2. ConInv /\ [ConNext]_conVars => ConInv'
  BY ConStep
<1>3. ConInv => ConsoleSafe
  BY ConInvSafe
<1> QED
  BY <1>1, <1>2, <1>3, PTL DEF ConSpec

-----------------------------------------------------------------------------
(* The keys typed into an attached terminal.                               *)

Chunk == Seq(Key) \ {<<>>}
Frame == [len : Nat, bytes : Seq(Key)]

KeyTypes ==
  /\ via \in {"socket", "fifo"}
  /\ input \in Seq(Key) /\ given \in Seq(Key) /\ taken \in Seq(Key) /\ out \in Seq(Key)
  /\ stdinCh \in Seq(Chunk) /\ Len(stdinCh) <= ChanCap
  /\ frames \in Seq(Frame)
  /\ \A i \in 1..Len(frames) : frames[i].len = Len(frames[i].bytes) % FrameMod
KeyFlags ==
  /\ eof \in BOOLEAN /\ joining \in BOOLEAN /\ filtering \in BOOLEAN
  /\ held \in BOOLEAN /\ detached \in BOOLEAN /\ garbled \in BOOLEAN
  /\ ~filtering => out = <<>>
  /\ via = "fifo" => frames = <<>>
  /\ detached => ~held /\ ~joining /\ taken = <<>>

\* The keys s are those of the input inp after the first x, up to the y-th.
Piece(inp, s, x, y) ==
  /\ x \in Nat /\ y \in Nat /\ y <= Len(inp) /\ y = x + Len(s)
  /\ \A j \in 1..Len(s) : s[j] = inp[x + j]

\* The container, the frames and the output of filter have the first keys of
\* the input, where filter has looked at k of them; frame i ends with key f[i].
Delivered(k, f) ==
  ~garbled =>
    /\ f \in [0..Len(frames) -> Nat] /\ \A i \in 0..Len(frames) : f[i] <= f[Len(frames)]
    /\ Piece(input, given, 0, f[0])
    /\ \A i \in 1..Len(frames) : Piece(input, frames[i].bytes, f[i - 1], f[i])
    /\ Piece(input, out, f[Len(frames)], IF detached THEN k - 2 ELSE IF held THEN k - 1 ELSE k)

\* The data at hand and the chunks have the rest; chunk i ends with key c[i].
Queued(k, c) ==
  ~detached =>
    /\ c \in [0..Len(stdinCh) -> Nat]
    /\ Piece(input, taken, k, c[0])
    /\ \A i \in 1..Len(stdinCh) : Piece(input, stdinCh[i], c[i - 1], c[i])
    /\ c[Len(stdinCh)] = Len(input)

\* The detach keys are not among the first k keys, or are the last two of them;
\* a Ctrl+P that is the last one is held, or was flushed at the end.
Searched(k) ==
  /\ k \in 0..Len(input)
  /\ \A j \in 1..(k - (IF detached THEN 2 ELSE 1)) : ~(input[j] = "p" /\ input[j + 1] = "q")
  /\ detached => k > 1 /\ input[k - 1] = "p" /\ input[k] = "q"
  /\ held => k > 0 /\ input[k] = "p"
  /\ ~detached /\ ~held /\ k > 0 /\ input[k] = "p" => eof /\ k = Len(input)

\* The inductive invariant of the keys.
KeysInv ==
  KeyTypes /\ KeyFlags /\ \E k \in Nat : \E f, c : Delivered(k, f) /\ Queued(k, c) /\ Searched(k)

\* A frame's length field says no more than the frame has.
LEMMA RemainderFits ==
  ASSUME NEW n \in Nat
  PROVE  n % FrameMod \in 0..n /\ n % FrameMod \in 0..(FrameMod - 1)
  BY AttachKeysAssumption, SMTT(30)

\* No keys are a piece of the input at any place.
LEMMA PieceEmpty ==
  ASSUME NEW inp \in Seq(Key), NEW x \in Nat, x <= Len(inp)
  PROVE  Piece(inp, <<>>, x, x)
  BY DEF Piece

\* A piece stays one when more is typed.
LEMMA PieceGrows ==
  ASSUME NEW inp \in Seq(Key), NEW t \in Seq(Key), NEW s \in Seq(Key), NEW x, NEW y, Piece(inp, s, x, y)
  PROVE  Piece(inp \o t, s, x, y)
<1>1. /\ Len(inp \o t) = Len(inp) + Len(t) /\ Len(inp) \in Nat /\ Len(t) \in Nat /\ Len(s) \in Nat
      /\ \A j \in 1..Len(inp) : (inp \o t)[j] = inp[j]
  OBVIOUS
<1>2. \A j \in 1..Len(s) : x + j \in 1..Len(inp)
  BY <1>1 DEF Piece
<1>g. PICK g : g = inp \o t
  OBVIOUS
<1> QED
  BY <1>1, <1>2, <1>g DEF Piece

\* A piece without its first key is one.
LEMMA PieceTail ==
  ASSUME NEW inp \in Seq(Key), NEW s \in Seq(Key), NEW x, NEW y, Piece(inp, s, x, y), s # <<>>
  PROVE  Piece(inp, Tail(s), x + 1, y) /\ Head(s) = inp[x + 1] /\ x + 1 <= y /\ x + 1 \in 1..Len(inp)
<1>1. /\ Len(Tail(s)) = Len(s) - 1 /\ Len(s) \in Nat /\ Len(s) > 0 /\ Head(s) = s[1] /\ Len(inp) \in Nat
      /\ \A j \in 1..Len(Tail(s)) : Tail(s)[j] = s[j + 1]
  BY HeadTailProperties
<1>g. PICK g : g = Tail(s)
  OBVIOUS
<1>2. \A j \in 1..Len(g) : g[j] = inp[x + 1 + j]
  <2> TAKE j \in 1..Len(g)
  <2>1. j + 1 \in 1..Len(s) /\ g[j] = s[j + 1]
    BY <1>1, <1>g
  <2>2. x + (j + 1) = x + 1 + j
    BY <1>1, <1>g DEF Piece
  <2> QED
    BY <2>1, <2>2 DEF Piece
<1> QED
  BY <1>1, <1>2, <1>g DEF Piece

\* Two pieces that meet are one.
LEMMA PieceConcat ==
  ASSUME NEW inp \in Seq(Key), NEW s \in Seq(Key), NEW t \in Seq(Key), NEW x, NEW y, NEW z,
         Piece(inp, s, x, y), Piece(inp, t, y, z)
  PROVE  Piece(inp, s \o t, x, z)
<1>g. PICK g : g = s \o t
  OBVIOUS
<1>1. /\ Len(g) = Len(s) + Len(t) /\ Len(s) \in Nat /\ Len(t) \in Nat
      /\ \A j \in 1..(Len(s) + Len(t)) : g[j] = IF j <= Len(s) THEN s[j] ELSE t[j - Len(s)]
  BY <1>g, ConcatProperties
<1>2. \A j \in 1..Len(g) : g[j] = inp[x + j]
  <2> TAKE j \in 1..Len(g)
  <2>1. CASE j <= Len(s)
    BY <1>1, <2>1 DEF Piece
  <2>2. CASE ~(j <= Len(s))
    <3>1. j - Len(s) \in 1..Len(t) /\ g[j] = t[j - Len(s)] /\ y + (j - Len(s)) = x + j
      BY <1>1, <2>2 DEF Piece
    <3>2. t[j - Len(s)] = inp[y + (j - Len(s))]
      BY <3>1 DEF Piece
    <3> QED
      BY <3>1, <3>2
  <2> QED
    BY <2>1, <2>2
<1>3. x \in Nat /\ z \in Nat /\ z <= Len(inp) /\ z = x + Len(g)
  BY <1>1 DEF Piece
<1> QED
  BY <1>2, <1>3, <1>g, Zenon DEF Piece

\* A key of the input is a piece of it.
LEMMA PieceOne ==
  ASSUME NEW inp \in Seq(Key), NEW x \in Nat, x + 1 <= Len(inp)
  PROVE  Piece(inp, <<inp[x + 1]>>, x, x + 1)
  BY DEF Piece

\* The parts of the state.
LEMMA KeyParts ==
  ASSUME KeyTypes
  PROVE  /\ given \in Seq(Key) /\ out \in Seq(Key) /\ taken \in Seq(Key) /\ input \in Seq(Key)
         /\ \A i \in 1..Len(frames) : frames[i] \in Frame /\ frames[i].bytes \in Seq(Key)
         /\ \A i \in 1..Len(stdinCh) : stdinCh[i] \in Seq(Key) /\ stdinCh[i] # <<>>
         /\ Len(input) \in Nat /\ Len(frames) \in Nat /\ Len(stdinCh) \in Nat
<1>1. frames \in Seq(Frame) /\ stdinCh \in Seq(Chunk)
  BY DEF KeyTypes
<1>2. \A i \in 1..Len(frames) : frames[i] \in Frame
  BY <1>1, ElementOfSeq
<1>3. \A i \in 1..Len(stdinCh) : stdinCh[i] \in Chunk
  BY <1>1, ElementOfSeq
<1>4. \A x \in Frame : x.bytes \in Seq(Key)
  BY DEF Frame
<1>5. \A x \in Chunk : x \in Seq(Key) /\ x # <<>>
  BY DEF Chunk
<1> QED
  BY <1>1, <1>2, <1>3, <1>4, <1>5 DEF KeyTypes

\* Nothing is typed yet.
LEMMA KeysInitial == KeysInit => KeysInv
<1> SUFFICES ASSUME KeysInit PROVE KeysInv
  OBVIOUS
<1>e. <<>> \in Seq(Key) /\ <<>> \in Seq(Chunk) /\ <<>> \in Seq(Frame) /\ Len(<<>>) = 0
  OBVIOUS
<1>1. KeyTypes /\ KeyFlags
  <2>1. KeyTypes
    BY <1>e, AttachKeysAssumption DEF KeysInit, KeyTypes
  <2>2. KeyFlags
    BY Zenon DEF KeysInit, KeyFlags
  <2> QED
    BY <2>1, <2>2
<1>f. PICK f : f = [i \in 0..0 |-> 0]
  OBVIOUS
<1>2. f \in [0..0 -> Nat] /\ f[0] = 0
  BY <1>f
<1>3. Piece(<<>>, <<>>, 0, 0)
  BY <1>e DEF Piece
<1>4. Delivered(0, f) /\ Queued(0, f) /\ Searched(0)
  BY <1>e, <1>2, <1>3 DEF KeysInit, Delivered, Queued, Searched
<1> QED
  BY <1>1, <1>4 DEF KeysInv

\* A chunk that is read is the next piece of the input.
LEMMA ReadKeeps ==
  ASSUME KeyTypes, KeyFlags, NEW k \in Nat, NEW f, NEW c, Delivered(k, f), Queued(k, c), Searched(k),
         NEW n \in 1..MaxChunk, NEW data \in [1..n -> Key], ReadStdin(data)
  PROVE  KeysInv'
<1>0. /\ ~eof /\ ~detached /\ input' = input \o data /\ stdinCh' = Append(stdinCh, data)
      /\ Len(stdinCh) < (IF via = "socket" THEN ChanCap ELSE 1)
      /\ UNCHANGED <<via, eof, taken, joining, filtering, out, held, detached, frames, garbled, given>>
  BY DEF ReadStdin
<1>1. data \in Seq(Key) /\ Len(data) = n /\ data # <<>>
  BY AttachKeysAssumption
<1>2. /\ input' \in Seq(Key) /\ Len(input') = Len(input) + n /\ Len(input) \in Nat
      /\ \A j \in 1..Len(input) : input'[j] = input[j]
      /\ \A j \in 1..n : input'[Len(input) + j] = data[j]
  <2>0. input \in Seq(Key) /\ Len(input) \in Nat
    BY DEF KeyTypes
  <2>1. /\ input' \in Seq(Key) /\ Len(input') = Len(input) + Len(data)
        /\ \A i \in 1..(Len(input) + Len(data)) :
             input'[i] = IF i <= Len(input) THEN input[i] ELSE data[i - Len(input)]
    BY <1>0, <1>1, <2>0, ConcatProperties
  <2>2. \A j \in 1..n : input'[Len(input) + j] = data[j]
    <3> TAKE j \in 1..n
    <3>1. Len(input) + j \in 1..(Len(input) + Len(data)) /\ ~(Len(input) + j <= Len(input))
          /\ (Len(input) + j) - Len(input) = j
      BY <1>1, <2>0
    <3> QED
      BY <2>1, <3>1
  <2> QED
    BY <1>1, <2>0, <2>1, <2>2
<1>3. /\ stdinCh' \in Seq(Chunk) /\ Len(stdinCh') = Len(stdinCh) + 1 /\ Len(stdinCh) \in Nat
      /\ \A i \in 1..Len(stdinCh) : stdinCh'[i] = stdinCh[i]
      /\ stdinCh'[Len(stdinCh) + 1] = data
  BY <1>0, <1>1 DEF KeyTypes, Chunk
<1>4. KeyTypes' /\ KeyFlags'
  <2>1. KeyTypes'
    BY <1>0, <1>2, <1>3, AttachKeysAssumption DEF KeyTypes
  <2>2. KeyFlags'
    BY <1>0, Zenon DEF KeyFlags
  <2> QED
    BY <2>1, <2>2
<1>5. \A s \in Seq(Key) : \A x, y : Piece(input, s, x, y) => Piece(input', s, x, y)
  BY <1>0, <1>1, PieceGrows, Zenon DEF KeyTypes
<1>6. \A i \in 1..Len(frames) : frames[i].bytes \in Seq(Key)
  BY KeyParts
<1>7. \A i \in 1..Len(stdinCh) : stdinCh[i] \in Seq(Key)
  BY KeyParts
<1>8. given \in Seq(Key) /\ out \in Seq(Key) /\ taken \in Seq(Key)
  BY KeyParts
<1>9. Delivered(k, f)'
  BY <1>0, <1>5, <1>6, <1>8 DEF Delivered
<1>10. Searched(k)'
  BY <1>0, <1>2 DEF Searched
<1>d. PICK d : d = [i \in 0..(Len(stdinCh) + 1) |-> IF i <= Len(stdinCh) THEN c[i] ELSE Len(input) + n]
  OBVIOUS
<1>11. Queued(k, d)'
  <2>1. /\ c \in [0..Len(stdinCh) -> Nat]
        /\ Piece(input, taken, k, c[0])
        /\ \A i \in 1..Len(stdinCh) : Piece(input, stdinCh[i], c[i - 1], c[i])
        /\ c[Len(stdinCh)] = Len(input)
    BY <1>0 DEF Queued
  <2>2. /\ d \in [0..Len(stdinCh') -> Nat]
        /\ \A i \in 0..Len(stdinCh) : d[i] = c[i]
        /\ d[Len(stdinCh')] = Len(input')
    BY <1>2, <1>3, <1>d, <2>1
  <2>3. Piece(input', taken, k, d[0])
    BY <1>3, <1>5, <1>8, <2>1, <2>2
  <2>4. ASSUME NEW i \in 1..Len(stdinCh')
        PROVE  Piece(input', stdinCh'[i], d[i - 1], d[i])
    <3>1. CASE i = Len(stdinCh')
      <4>1. Piece(input', data, Len(input), Len(input'))
        BY <1>1, <1>2 DEF Piece
      <4>2. d[i - 1] = Len(input) /\ d[i] = Len(input') /\ stdinCh'[i] = data
        BY <1>3, <2>1, <2>2, <3>1
      <4> QED
        BY <4>1, <4>2
    <3>2. CASE i \in 1..Len(stdinCh)
      <4>1. d[i] = c[i] /\ d[i - 1] = c[i - 1] /\ stdinCh'[i] = stdinCh[i]
        BY <1>3, <2>2, <3>2
      <4> QED
        BY <1>5, <1>7, <2>1, <3>2, <4>1
    <3> QED
      BY <1>3, <3>1, <3>2
  <2> QED
    BY <1>0, <2>2, <2>3, <2>4 DEF Queued
<1> QED
  BY <1>4, <1>9, <1>10, <1>11 DEF KeysInv

\* The cuts of the chunks, without the first.
LEMMA ChunkTaken ==
  ASSUME KeyTypes, ~detached, NEW k, NEW c, Queued(k, c), stdinCh # <<>>
  PROVE  \E d : /\ d \in [0..Len(Tail(stdinCh)) -> Nat]
                /\ Piece(input, Head(stdinCh), c[0], d[0])
                /\ \A i \in 1..Len(Tail(stdinCh)) : Piece(input, Tail(stdinCh)[i], d[i - 1], d[i])
                /\ d[Len(Tail(stdinCh))] = Len(input)
                /\ Tail(stdinCh) \in Seq(Chunk) /\ Head(stdinCh) \in Seq(Key) /\ Head(stdinCh) # <<>>
                /\ Len(Tail(stdinCh)) = Len(stdinCh) - 1
<1>1. stdinCh \in Seq(Chunk)
  BY DEF KeyTypes
<1>t. PICK t : t = Tail(stdinCh)
  OBVIOUS
<1>2. /\ t \in Seq(Chunk) /\ Len(t) = Len(stdinCh) - 1 /\ Head(stdinCh) = stdinCh[1] /\ Head(stdinCh) \in Chunk
      /\ Len(t) \in Nat
      /\ \A i \in 1..Len(t) : t[i] = stdinCh[i + 1]
  BY <1>1, <1>t, HeadTailProperties
<1>3. /\ c \in [0..Len(stdinCh) -> Nat]
      /\ \A i \in 1..Len(stdinCh) : Piece(input, stdinCh[i], c[i - 1], c[i])
      /\ c[Len(stdinCh)] = Len(input)
  BY DEF Queued
<1>d. PICK d : d = [i \in 0..Len(t) |-> c[i + 1]]
  OBVIOUS
<1>4. /\ d \in [0..Len(t) -> Nat] /\ \A i \in 0..Len(t) : d[i] = c[i + 1]
  BY <1>2, <1>3, <1>d
<1>5. Piece(input, Head(stdinCh), c[0], d[0])
  <2>1. 1 \in 1..Len(stdinCh) /\ 1 - 1 = 0 /\ d[0] = c[1]
    BY <1>2, <1>4
  <2> QED
    BY <1>2, <1>3, <2>1
<1>6. \A i \in 1..Len(t) : Piece(input, t[i], d[i - 1], d[i])
  <2> TAKE i \in 1..Len(t)
  <2>1. i + 1 \in 1..Len(stdinCh) /\ (i + 1) - 1 = i /\ d[i] = c[i + 1] /\ d[i - 1] = c[i] /\ t[i] = stdinCh[i + 1]
    BY <1>2, <1>4
  <2>2. Piece(input, stdinCh[i + 1], c[(i + 1) - 1], c[i + 1])
    BY <1>3, <2>1
  <2> QED
    BY <2>1, <2>2
<1>7. d[Len(t)] = Len(input)
  BY <1>2, <1>3, <1>4
<1>8. Head(stdinCh) \in Seq(Key) /\ Head(stdinCh) # <<>>
  BY <1>2 DEF Chunk
<1> QED
  BY <1>2, <1>4, <1>5, <1>6, <1>7, <1>8, <1>t

\* The first chunk becomes the data at hand.
LEMMA TakeKeeps ==
  ASSUME KeyTypes, KeyFlags, NEW k \in Nat, NEW f, NEW c, Delivered(k, f), Queued(k, c), Searched(k),
         TakeChunk
  PROVE  KeysInv'
<1>0. /\ taken = <<>> /\ stdinCh # <<>> /\ ~detached
      /\ taken' = Head(stdinCh) /\ stdinCh' = Tail(stdinCh)
      /\ UNCHANGED <<via, input, eof, held, filtering, out, detached, frames, garbled, given>>
  BY DEF TakeChunk, TakesChunk
<1>b. joining' \in BOOLEAN
  BY DEF TakeChunk, TakesChunk
<1>1. PICK d :
        /\ d \in [0..Len(stdinCh') -> Nat]
        /\ Piece(input, Head(stdinCh), c[0], d[0])
        /\ \A i \in 1..Len(stdinCh') : Piece(input, stdinCh'[i], d[i - 1], d[i])
        /\ d[Len(stdinCh')] = Len(input)
        /\ stdinCh' \in Seq(Chunk) /\ Head(stdinCh) \in Seq(Key) /\ Head(stdinCh) # <<>>
        /\ Len(stdinCh') = Len(stdinCh) - 1
  BY <1>0, ChunkTaken
<1>2. KeyTypes'
  <2>1. Len(stdinCh) \in Nat /\ ChanCap \in Nat
    BY AttachKeysAssumption, KeyParts
  <2> QED
    BY <1>0, <1>1, <2>1 DEF KeyTypes
<1>3. KeyFlags'
  BY <1>0, <1>b, Zenon DEF KeyFlags
<1>4. c[0] = k
  BY <1>0 DEF Queued, Piece
<1>5. Queued(k, d)'
  BY <1>0, <1>1, <1>4 DEF Queued
<1>6. Delivered(k, f)' /\ Searched(k)'
  BY <1>0 DEF Delivered, Searched
<1> QED
  BY <1>2, <1>3, <1>5, <1>6 DEF KeysInv

\* The first chunk is joined to the data at hand.
LEMMA JoinKeeps ==
  ASSUME KeyTypes, KeyFlags, NEW k \in Nat, NEW f, NEW c, Delivered(k, f), Queued(k, c), Searched(k),
         JoinChunk
  PROVE  KeysInv'
<1>0. /\ joining /\ stdinCh # <<>>
      /\ taken' = taken \o Head(stdinCh) /\ stdinCh' = Tail(stdinCh)
      /\ UNCHANGED <<via, input, eof, joining, held, filtering, out, detached, frames, garbled, given>>
  BY DEF JoinChunk
<1>b. ~detached
  BY <1>0 DEF KeyFlags
<1>1. PICK d :
        /\ d \in [0..Len(stdinCh') -> Nat]
        /\ Piece(input, Head(stdinCh), c[0], d[0])
        /\ \A i \in 1..Len(stdinCh') : Piece(input, stdinCh'[i], d[i - 1], d[i])
        /\ d[Len(stdinCh')] = Len(input)
        /\ stdinCh' \in Seq(Chunk) /\ Head(stdinCh) \in Seq(Key) /\ Head(stdinCh) # <<>>
        /\ Len(stdinCh') = Len(stdinCh) - 1
  BY <1>0, <1>b, ChunkTaken
<1>2. taken \in Seq(Key) /\ input \in Seq(Key) /\ Piece(input, taken, k, c[0])
  BY <1>b, KeyParts DEF Queued
<1>3. taken' \in Seq(Key) /\ Piece(input, taken', k, d[0])
  BY <1>0, <1>1, <1>2, PieceConcat, ConcatProperties
<1>4. KeyTypes'
  <2>1. Len(stdinCh) \in Nat /\ ChanCap \in Nat
    BY AttachKeysAssumption, KeyParts
  <2> QED
    BY <1>0, <1>1, <1>3, <2>1 DEF KeyTypes
<1>5. KeyFlags'
  BY <1>0, <1>b, Zenon DEF KeyFlags
<1>6. Queued(k, d)'
  BY <1>0, <1>1, <1>3 DEF Queued
<1>7. Delivered(k, f)' /\ Searched(k)'
  BY <1>0 DEF Delivered, Searched
<1> QED
  BY <1>4, <1>5, <1>6, <1>7 DEF KeysInv

\* filter looks at the next key: it is held, returned, or ends the detach keys.
LEMMA FilterKeeps ==
  ASSUME KeyTypes, KeyFlags, NEW k \in Nat, NEW f, NEW c, Delivered(k, f), Queued(k, c), Searched(k),
         FilterKey
  PROVE  KeysInv'
<1>b. PICK b : b = Head(taken)
  OBVIOUS
<1>0. /\ taken # <<>> /\ joining' = FALSE /\ filtering' = TRUE
      /\ UNCHANGED <<via, input, eof, stdinCh, frames, garbled, given>>
      /\ IF held /\ b = "q"
         THEN detached' = TRUE /\ held' = FALSE /\ taken' = <<>> /\ UNCHANGED out
         ELSE /\ out' = (IF held THEN Append(out, "p") ELSE out) \o (IF b = "p" THEN <<>> ELSE <<b>>)
              /\ held' = (b = "p") /\ taken' = Tail(taken) /\ UNCHANGED detached
  BY <1>b, Zenon DEF FilterKey
<1>1. ~detached /\ held \in BOOLEAN
  BY <1>0 DEF KeyFlags
<1>2. /\ input \in Seq(Key) /\ taken \in Seq(Key) /\ out \in Seq(Key) /\ Len(input) \in Nat
      /\ Piece(input, taken, k, c[0])
  BY <1>1, KeyParts DEF Queued
<1>3. Piece(input, Tail(taken), k + 1, c[0]) /\ b = input[k + 1] /\ k + 1 \in 1..Len(input)
      /\ Tail(taken) \in Seq(Key) /\ b \in Key
  BY <1>0, <1>2, <1>b, PieceTail, HeadTailProperties
<1>4. \A j \in 1..(k - 1) : ~(input[j] = "p" /\ input[j + 1] = "q")
  BY <1>1 DEF Searched
<1>5. ~held => k = 0 \/ input[k] # "p"
  BY <1>1, <1>2, <1>3 DEF Searched
<1>6. held => k \in 1..Len(input) /\ input[k] = "p" /\ "p" \in Key
  <2>1. held => k \in 1..Len(input) /\ input[k] = "p"
    BY <1>2 DEF Searched
  <2> QED
    BY <1>2, <2>1, ElementOfSeq
<1>7. CASE held /\ b = "q"
  <2>0. /\ detached' /\ ~held' /\ taken' = <<>> /\ out' = out /\ detached' \in BOOLEAN /\ held' \in BOOLEAN
    BY <1>0, <1>7, Zenon
  <2>1. KeyTypes'
    BY <1>0, <2>0, EmptySeq DEF KeyTypes
  <2>2. KeyFlags'
    BY <1>0, <2>0, Zenon DEF KeyFlags
  <2>3. Searched(k + 1)'
    BY <1>0, <1>2, <1>3, <1>4, <1>6, <1>7, <2>0 DEF Searched
  <2>4. Queued(k + 1, c)'
    BY <2>0 DEF Queued
  <2>5. (k + 1) - 2 = k - 1
    OBVIOUS
  <2>6. Delivered(k + 1, f)'
    BY <1>0, <1>1, <1>7, <2>0, <2>5 DEF Delivered
  <2> QED
    BY <2>1, <2>2, <2>3, <2>4, <2>6 DEF KeysInv
<1>8. CASE ~(held /\ b = "q")
  <2>x. PICK x : x = IF held THEN Append(out, "p") ELSE out
    OBVIOUS
  <2>y. PICK y : y = IF b = "p" THEN <<>> ELSE <<b>>
    OBVIOUS
  <2>0. out' = x \o y /\ held' = (b = "p") /\ taken' = Tail(taken) /\ detached' = detached
    BY <1>0, <1>8, <2>x, <2>y, Zenon
  <2>1. x \in Seq(Key) /\ y \in Seq(Key)
    BY <1>2, <1>3, <1>6, <2>x, <2>y
  <2>2. out' \in Seq(Key)
    BY <2>0, <2>1, ConcatProperties
  <2>3. KeyTypes'
    BY <1>0, <1>3, <2>0, <2>2 DEF KeyTypes
  <2>4. KeyFlags'
    BY <1>0, <1>1, <2>0, Zenon DEF KeyFlags
  <2>5. Searched(k + 1)'
    <3>1. \A j \in 1..k : ~(input[j] = "p" /\ input[j + 1] = "q")
      <4> TAKE j \in 1..k
      <4>1. CASE j = k
        BY <1>3, <1>5, <1>8, <4>1
      <4>2. CASE j # k
        BY <1>4, <4>2
      <4> QED
        BY <4>1, <4>2
    <3>2. (k + 1) - 1 = k /\ k + 1 > 0 /\ k + 1 \in 0..Len(input)
      BY <1>2, <1>3
    <3>3. ~detached' /\ input' = input /\ (held' <=> b = "p")
      BY <1>0, <1>1, <2>0
    <3> QED
      BY <1>3, <3>1, <3>2, <3>3 DEF Searched
  <2>6. Queued(k + 1, c)'
    BY <1>0, <1>1, <1>3, <2>0 DEF Queued
  <2>7. ASSUME ~garbled
        PROVE  Piece(input, out', f[Len(frames)], IF held' THEN (k + 1) - 1 ELSE k + 1)
    <3>1. Piece(input, out, f[Len(frames)], IF held THEN k - 1 ELSE k)
      BY <1>1, <2>7 DEF Delivered
    <3>2. Piece(input, x, f[Len(frames)], k)
      <4>1. CASE held
        <5>1. k - 1 \in Nat /\ (k - 1) + 1 = k /\ k <= Len(input)
          BY <1>2, <1>6, <4>1
        <5>2. Piece(input, <<"p">>, k - 1, k)
          BY <1>2, <1>6, <4>1, <5>1 DEF Piece
        <5>3. x = out \o <<"p">> /\ <<"p">> \in Seq(Key)
          BY <1>2, <1>6, <2>x, <4>1, AppendIsConcat
        <5>4. Piece(input, out, f[Len(frames)], k - 1)
          BY <3>1, <4>1
        <5> QED
          BY <1>2, <5>2, <5>3, <5>4, PieceConcat
      <4>2. CASE ~held
        BY <2>x, <3>1, <4>2
      <4> QED
        BY <4>1, <4>2
    <3>3. CASE b = "p"
      <4>1. y = <<>> /\ held'
        BY <2>0, <2>y, <3>3
      <4>2. Piece(input, <<>>, k, k)
        BY <1>2, <1>3, PieceEmpty
      <4>3. Piece(input, x \o y, f[Len(frames)], k)
        BY <1>2, <2>1, <3>2, <4>1, <4>2, PieceConcat
      <4>4. (k + 1) - 1 = k
        OBVIOUS
      <4> QED
        BY <2>0, <4>1, <4>3, <4>4
    <3>4. CASE b # "p"
      <4>1. y = <<b>> /\ ~held'
        BY <2>0, <2>y, <3>4
      <4>2. Piece(input, <<b>>, k, k + 1)
        BY <1>2, <1>3, PieceOne
      <4>3. Piece(input, x \o y, f[Len(frames)], k + 1)
        BY <1>2, <2>1, <3>2, <4>1, <4>2, PieceConcat
      <4> QED
        BY <2>0, <4>1, <4>3
    <3> QED
      BY <3>3, <3>4
  <2>8. Delivered(k + 1, f)'
    BY <1>0, <1>1, <2>0, <2>7 DEF Delivered
  <2> QED
    BY <2>3, <2>4, <2>5, <2>6, <2>8 DEF KeysInv
<1> QED
  BY <1>7, <1>8

\* What filter returned is the next frame, or goes to the container.
LEMMA ForwardKeeps ==
  ASSUME KeyTypes, KeyFlags, NEW k \in Nat, NEW f, NEW c, Delivered(k, f), Queued(k, c), Searched(k),
         Forward
  PROVE  KeysInv'
<1>0. /\ filtering /\ taken = <<>> /\ filtering' = FALSE /\ out' = <<>>
      /\ UNCHANGED <<via, input, eof, stdinCh, taken, joining, held, detached, garbled>>
  BY DEF Forward
<1>1. IF via = "socket"
      THEN /\ frames' = IF out = <<>> THEN frames
                        ELSE Append(frames, [len |-> Len(out) % FrameMod, bytes |-> out])
           /\ given' = given
      ELSE given' = given \o out /\ frames' = frames
  BY DEF Forward
<1>e. PICK e : e = IF detached THEN k - 2 ELSE IF held THEN k - 1 ELSE k
  OBVIOUS
<1>2. /\ given \in Seq(Key) /\ out \in Seq(Key) /\ input \in Seq(Key) /\ Len(frames) \in Nat
      /\ Len(out) \in Nat /\ frames \in Seq(Frame)
  BY KeyParts DEF KeyTypes
<1>3. Queued(k, c)' /\ Searched(k)'
  BY <1>0 DEF Queued, Searched
<1>4. ASSUME ~garbled
      PROVE  /\ f \in [0..Len(frames) -> Nat] /\ \A i \in 0..Len(frames) : f[i] <= f[Len(frames)]
             /\ Piece(input, given, 0, f[0])
             /\ \A i \in 1..Len(frames) : Piece(input, frames[i].bytes, f[i - 1], f[i])
             /\ Piece(input, out, f[Len(frames)], e) /\ Piece(input, <<>>, e, e)
  <2>1. /\ f \in [0..Len(frames) -> Nat] /\ \A i \in 0..Len(frames) : f[i] <= f[Len(frames)]
        /\ Piece(input, given, 0, f[0])
        /\ \A i \in 1..Len(frames) : Piece(input, frames[i].bytes, f[i - 1], f[i])
        /\ Piece(input, out, f[Len(frames)], e)
    BY <1>4, <1>e, Zenon DEF Delivered
  <2>2. e \in Nat /\ e <= Len(input)
    BY <2>1 DEF Piece
  <2> QED
    BY <1>2, <2>1, <2>2, PieceEmpty
<1>5. <<>> \in Seq(Key) /\ Len(<<>>) = 0
  OBVIOUS
<1>6. CASE via = "socket" /\ out # <<>>
  <2>h. PICK h : h = [len |-> Len(out) % FrameMod, bytes |-> out]
    OBVIOUS
  <2>1. Len(out) % FrameMod \in Nat
    BY <1>2, RemainderFits
  <2>2. h \in Frame /\ h.len = Len(out) % FrameMod /\ h.bytes = out
    BY <1>2, <2>1, <2>h DEF Frame
  <2>3. frames' = Append(frames, h) /\ given' = given
    BY <1>1, <1>6, <2>h
  <2>4. /\ frames' \in Seq(Frame) /\ Len(frames') = Len(frames) + 1
        /\ \A i \in 1..Len(frames) : frames'[i] = frames[i]
        /\ frames'[Len(frames) + 1] = h
    BY <1>2, <2>2, <2>3, AppendProperties
  <2>5. KeyTypes'
    <3>1. \A i \in 1..Len(frames') : frames'[i].len = Len(frames'[i].bytes) % FrameMod
      <4> TAKE i \in 1..Len(frames')
      <4>1. CASE i = Len(frames) + 1
        BY <2>2, <2>4, <4>1
      <4>2. CASE i \in 1..Len(frames)
        BY <2>4, <4>2 DEF KeyTypes
      <4> QED
        BY <1>2, <2>4, <4>1, <4>2
    <3> QED
      BY <1>0, <1>5, <2>3, <2>4, <3>1 DEF KeyTypes
  <2>6. KeyFlags'
    BY <1>0, <1>6, Zenon DEF KeyFlags
  <2>g. PICK g : g = [i \in 0..(Len(frames) + 1) |-> IF i <= Len(frames) THEN f[i] ELSE e]
    OBVIOUS
  <2>7. ASSUME ~garbled
        PROVE  /\ g \in [0..Len(frames') -> Nat] /\ \A i \in 0..Len(frames') : g[i] <= g[Len(frames')]
               /\ Piece(input, given, 0, g[0])
               /\ \A i \in 1..Len(frames') : Piece(input, frames'[i].bytes, g[i - 1], g[i])
               /\ Piece(input, <<>>, g[Len(frames')], e)
    <3>0. e \in Nat
      BY <1>4, <2>7 DEF Piece
    <3>1. /\ g \in [0..Len(frames') -> Nat]
          /\ \A i \in 0..Len(frames) : g[i] = f[i]
          /\ g[Len(frames) + 1] = e
      BY <1>2, <1>4, <2>4, <2>7, <2>g, <3>0
    <3>2. ASSUME NEW i \in 1..Len(frames')
          PROVE  Piece(input, frames'[i].bytes, g[i - 1], g[i])
      <4>1. CASE i = Len(frames) + 1
        <5>1. i - 1 = Len(frames) /\ g[i - 1] = f[Len(frames)] /\ g[i] = e /\ frames'[i].bytes = out
          BY <1>2, <2>2, <2>4, <3>1, <4>1
        <5> QED
          BY <1>4, <2>7, <5>1
      <4>2. CASE i \in 1..Len(frames)
        <5>1. g[i - 1] = f[i - 1] /\ g[i] = f[i] /\ frames'[i] = frames[i]
          BY <1>2, <2>4, <3>1, <4>2
        <5> QED
          BY <1>4, <2>7, <4>2, <5>1
      <4> QED
        BY <1>2, <2>4, <4>1, <4>2
    <3>3. g[0] = f[0] /\ g[Len(frames')] = e
      BY <1>2, <2>4, <3>1
    <3>4. \A i \in 0..Len(frames') : g[i] <= e
      <4>1. f[Len(frames)] <= e /\ f[Len(frames)] \in Nat
        BY <1>2, <1>4, <2>7 DEF Piece
      <4>2. \A i \in 0..Len(frames) : f[i] <= f[Len(frames)] /\ f[i] \in Nat
        BY <1>4, <2>7
      <4> TAKE i \in 0..Len(frames')
      <4>3. CASE i = Len(frames) + 1
        BY <3>0, <3>1, <4>3
      <4>4. CASE i \in 0..Len(frames)
        <5>1. g[i] = f[i] /\ f[i] <= f[Len(frames)] /\ f[i] \in Nat
          BY <3>1, <4>2, <4>4
        <5> QED
          BY <3>0, <4>1, <5>1
      <4>5. Len(frames) \in Nat /\ Len(frames') = Len(frames) + 1
        BY <1>2, <2>4
      <4>6. i = Len(frames) + 1 \/ i \in 0..Len(frames)
        BY <4>5
      <4> QED
        BY <4>3, <4>4, <4>6
    <3> QED
      BY <1>4, <2>7, <3>1, <3>2, <3>3, <3>4
  <2>8. Delivered(k, g)'
    BY <1>0, <1>e, <2>3, <2>7, Zenon DEF Delivered
  <2> QED
    BY <1>3, <2>5, <2>6, <2>8 DEF KeysInv
<1>7. CASE via = "socket" /\ out = <<>>
  <2>1. frames' = frames /\ given' = given /\ out' = out
    BY <1>0, <1>1, <1>7
  <2>2. KeyTypes'
    BY <1>0, <2>1 DEF KeyTypes
  <2>3. KeyFlags'
    BY <1>0, <2>1, Zenon DEF KeyFlags
  <2>4. Delivered(k, f)'
    BY <1>0, <2>1 DEF Delivered
  <2> QED
    BY <1>3, <2>2, <2>3, <2>4 DEF KeysInv
<1>8. CASE via # "socket"
  <2>1. frames' = frames /\ given' = given \o out /\ frames = <<>>
    BY <1>1, <1>8 DEF KeyTypes, KeyFlags
  <2>2. given' \in Seq(Key)
    BY <1>2, <2>1, ConcatProperties
  <2>3. KeyTypes'
    BY <1>0, <1>5, <2>1, <2>2 DEF KeyTypes
  <2>4. KeyFlags'
    BY <1>0, <2>1, Zenon DEF KeyFlags
  <2>g. PICK g : g = [i \in 0..0 |-> e]
    OBVIOUS
  <2>5. ASSUME ~garbled
        PROVE  /\ g \in [0..Len(frames') -> Nat] /\ \A i \in 0..Len(frames') : g[i] <= g[Len(frames')]
               /\ Piece(input, given', 0, g[0])
               /\ \A i \in 1..Len(frames') : Piece(input, frames'[i].bytes, g[i - 1], g[i])
               /\ Piece(input, <<>>, g[Len(frames')], e)
    <3>0. e \in Nat
      BY <1>4, <2>5 DEF Piece
    <3>1. Len(frames') = 0 /\ g \in [0..0 -> Nat] /\ g[0] = e /\ Len(frames) = 0
      BY <1>5, <2>1, <2>g, <3>0
    <3>2. Piece(input, given', 0, e)
      BY <1>2, <1>4, <2>1, <2>5, <3>1, PieceConcat
    <3>3. \A i \in 0..0 : g[i] <= g[0]
      BY <3>0, <3>1
    <3> QED
      BY <1>4, <2>5, <3>1, <3>2, <3>3
  <2>6. Delivered(k, g)'
    BY <1>0, <1>e, <2>1, <2>5, Zenon DEF Delivered
  <2> QED
    BY <1>3, <2>3, <2>4, <2>6 DEF KeysInv
<1> QED
  BY <1>6, <1>7, <1>8

\* The Ctrl+P held at the end of the input goes to the container.
LEMMA FlushKeeps ==
  ASSUME KeyTypes, KeyFlags, NEW k \in Nat, NEW f, NEW c, Delivered(k, f), Queued(k, c), Searched(k),
         Flush
  PROVE  KeysInv'
<1>0. /\ via = "fifo" /\ eof /\ held /\ taken = <<>> /\ ~filtering /\ stdinCh = <<>>
      /\ held' = FALSE /\ given' = Append(given, "p")
      /\ UNCHANGED <<via, input, eof, stdinCh, taken, joining, filtering, out, detached, frames, garbled>>
  BY DEF Flush
<1>1. ~detached /\ out = <<>> /\ frames = <<>>
  BY <1>0 DEF KeyFlags
<1>2. Len(<<>>) = 0
  OBVIOUS
<1>3. c[0] = k /\ c[0] = Len(input) /\ k = Len(input)
  BY <1>0, <1>1, <1>2 DEF Queued, Piece
<1>4. given \in Seq(Key) /\ input \in Seq(Key) /\ Len(input) \in Nat
  BY KeyParts
<1>5. k \in 1..Len(input) /\ input[k] = "p" /\ "p" \in Key
  <2>1. k \in 1..Len(input) /\ input[k] = "p"
    BY <1>0, <1>4 DEF Searched
  <2> QED
    BY <1>4, <2>1, ElementOfSeq
<1>6. given' \in Seq(Key) /\ given' = given \o <<"p">> /\ <<"p">> \in Seq(Key)
  BY <1>0, <1>4, <1>5, AppendIsConcat, AppendProperties
<1>7. KeyTypes'
  BY <1>0, <1>6 DEF KeyTypes
<1>8. KeyFlags'
  BY <1>0, <1>1, Zenon DEF KeyFlags
<1>9. Queued(k, c)'
  BY <1>0 DEF Queued
<1>10. Searched(k)'
  BY <1>0, <1>1, <1>3, <1>5 DEF Searched
<1>g. PICK g : g = [i \in 0..0 |-> k]
  OBVIOUS
<1>11. ASSUME ~garbled
       PROVE  /\ g \in [0..0 -> Nat] /\ g[0] = k /\ g[0] <= g[0]
              /\ Piece(input, given', 0, k) /\ Piece(input, <<>>, k, k)
  <2>1. Piece(input, given, 0, f[0]) /\ Piece(input, <<>>, f[0], k - 1)
    BY <1>0, <1>1, <1>2, <1>11 DEF Delivered
  <2>2. f[0] = k - 1
    BY <1>2, <1>4, <1>5, <2>1 DEF Piece
  <2>3. k - 1 \in Nat /\ (k - 1) + 1 = k /\ k <= Len(input)
    BY <1>4, <1>5
  <2>4. Piece(input, <<"p">>, k - 1, k)
    BY <1>4, <1>5, <2>3 DEF Piece
  <2>5. Piece(input, given', 0, k)
    BY <1>4, <1>6, <2>1, <2>2, <2>4, PieceConcat
  <2> QED
    BY <1>4, <1>g, <2>3, <2>5, PieceEmpty
<1>12. Delivered(k, g)'
  BY <1>0, <1>1, <1>2, <1>11 DEF Delivered
<1> QED
  BY <1>7, <1>8, <1>9, <1>10, <1>12 DEF KeysInv

\* The container is given the first frame, or the frames are out of step.
LEMMA ServerKeeps ==
  ASSUME KeyTypes, KeyFlags, NEW k \in Nat, NEW f, NEW c, Delivered(k, f), Queued(k, c), Searched(k),
         ServerReads
  PROVE  KeysInv'
<1>h. PICK h : h = Head(frames)
  OBVIOUS
<1>0. /\ frames # <<>> /\ ~garbled
      /\ given' = given \o SubSeq(h.bytes, 1, h.len) /\ garbled' = (h.len # Len(h.bytes))
      /\ frames' = Tail(frames)
      /\ UNCHANGED <<via, input, eof, stdinCh, taken, joining, filtering, out, held, detached>>
  BY <1>h, Zenon DEF ServerReads
<1>1. frames \in Seq(Frame) /\ Len(frames) \in Nat /\ input \in Seq(Key) /\ given \in Seq(Key)
  BY KeyParts DEF KeyTypes
<1>2. /\ frames' \in Seq(Frame) /\ Len(frames') = Len(frames) - 1 /\ Len(frames') \in Nat
      /\ \A i \in 1..Len(frames') : frames'[i] = frames[i + 1]
      /\ h = frames[1] /\ 1 \in 1..Len(frames)
  BY <1>0, <1>1, <1>h, HeadTailProperties
<1>3. h \in Frame /\ h.bytes \in Seq(Key) /\ h.len = Len(h.bytes) % FrameMod /\ Len(h.bytes) \in Nat
  BY <1>2, KeyParts DEF KeyTypes
<1>4. h.len \in 0..Len(h.bytes)
  BY <1>3, RemainderFits
<1>s. PICK s : s = SubSeq(h.bytes, 1, h.len)
  OBVIOUS
<1>5. /\ s \in Seq(Key) /\ (h.len = Len(h.bytes) => s = h.bytes)
  BY <1>3, <1>4, <1>s
<1>6. given' \in Seq(Key)
  BY <1>0, <1>1, <1>s, <1>5, ConcatProperties
<1>7. KeyTypes'
  <2>1. \A i \in 1..Len(frames') : frames'[i].len = Len(frames'[i].bytes) % FrameMod
    <3> TAKE i \in 1..Len(frames')
    <3>1. i + 1 \in 1..Len(frames) /\ frames'[i] = frames[i + 1]
      BY <1>1, <1>2
    <3> QED
      BY <3>1 DEF KeyTypes
  <2> QED
    BY <1>0, <1>2, <1>6, <2>1 DEF KeyTypes
<1>8. KeyFlags'
  <2>1. via # "fifo"
    BY <1>0 DEF KeyFlags
  <2>2. garbled' \in BOOLEAN
    BY <1>0
  <2> QED
    BY <1>0, <2>1, <2>2, Zenon DEF KeyFlags
<1>9. Queued(k, c)' /\ Searched(k)'
  BY <1>0 DEF Queued, Searched
<1>g. PICK g : g = [i \in 0..Len(frames') |-> f[i + 1]]
  OBVIOUS
<1>10. ASSUME ~garbled'
       PROVE  /\ g \in [0..Len(frames') -> Nat] /\ \A i \in 0..Len(frames') : g[i] <= g[Len(frames')]
              /\ Piece(input, given', 0, g[0])
              /\ \A i \in 1..Len(frames') : Piece(input, frames'[i].bytes, g[i - 1], g[i])
              /\ g[Len(frames')] = f[Len(frames)]
  <2>1. /\ f \in [0..Len(frames) -> Nat] /\ \A i \in 0..Len(frames) : f[i] <= f[Len(frames)]
        /\ Piece(input, given, 0, f[0])
        /\ \A i \in 1..Len(frames) : Piece(input, frames[i].bytes, f[i - 1], f[i])
    BY <1>0 DEF Delivered
  <2>2. g \in [0..Len(frames') -> Nat] /\ \A i \in 0..Len(frames') : g[i] = f[i + 1]
    BY <1>1, <1>2, <1>g, <2>1
  <2>3. given' = given \o h.bytes
    BY <1>0, <1>5, <1>10, <1>s
  <2>4. Piece(input, h.bytes, f[0], f[1])
    <3>1. 1 - 1 = 0
      OBVIOUS
    <3> QED
      BY <1>2, <2>1, <3>1
  <2>5. Piece(input, given', 0, g[0])
    <3>1. g[0] = f[1]
      BY <1>2, <2>2
    <3> QED
      BY <1>1, <1>3, <2>1, <2>3, <2>4, <3>1, PieceConcat
  <2>6. ASSUME NEW i \in 1..Len(frames')
        PROVE  Piece(input, frames'[i].bytes, g[i - 1], g[i])
    <3>0. i + 1 \in 1..Len(frames) /\ (i + 1) - 1 = i /\ (i - 1) + 1 = i /\ i \in 0..Len(frames') /\ i - 1 \in 0..Len(frames')
      BY <1>1, <1>2
    <3>1. i + 1 \in 1..Len(frames) /\ (i + 1) - 1 = i /\ g[i] = f[i + 1] /\ g[i - 1] = f[i] /\ frames'[i] = frames[i + 1]
      BY <1>1, <1>2, <2>2, <3>0
    <3>2. Piece(input, frames[i + 1].bytes, f[(i + 1) - 1], f[i + 1])
      BY <2>1, <3>1
    <3> QED
      BY <3>1, <3>2
  <2>7. g[Len(frames')] = f[Len(frames)]
    BY <1>1, <1>2, <2>2
  <2>8. \A i \in 0..Len(frames') : g[i] <= f[Len(frames)]
    BY <1>1, <1>2, <2>1, <2>2
  <2> QED
    BY <2>2, <2>5, <2>6, <2>7, <2>8
<1>11. Delivered(k, g)'
  BY <1>0, <1>10 DEF Delivered
<1> QED
  BY <1>7, <1>8, <1>9, <1>11 DEF KeysInv

\* Every step keeps the invariant of the keys.
LEMMA KeysStep == KeysInv /\ [KeysNext]_keyVars => KeysInv'
<1> SUFFICES ASSUME KeysInv, [KeysNext]_keyVars PROVE KeysInv'
  OBVIOUS
<1>1. KeyTypes /\ KeyFlags
  BY DEF KeysInv
<1>2. PICK k \in Nat : \E f, c : Delivered(k, f) /\ Queued(k, c) /\ Searched(k)
  BY DEF KeysInv
<1>3. PICK f, c : Delivered(k, f) /\ Queued(k, c) /\ Searched(k)
  BY <1>2
<1>4. ASSUME NEW n \in 1..MaxChunk, NEW data \in [1..n -> Key], ReadStdin(data)
      PROVE  KeysInv'
  BY <1>1, <1>3, <1>4, ReadKeeps
<1>5. CASE StdinEnds
  <2>1. eof' = TRUE /\ UNCHANGED <<via, input, stdinCh, taken, joining, filtering, out, held, detached, frames, garbled, given>>
    BY <1>5 DEF StdinEnds
  <2>2. KeyTypes'
    BY <1>1, <2>1 DEF KeyTypes
  <2>3. KeyFlags'
    BY <1>1, <2>1, Zenon DEF KeyFlags
  <2>4. Delivered(k, f)' /\ Queued(k, c)'
    BY <1>3, <2>1 DEF Delivered, Queued
  <2>5. Searched(k)'
    BY <1>3, <2>1 DEF Searched
  <2> QED
    BY <2>2, <2>3, <2>4, <2>5 DEF KeysInv
<1>6. CASE TakeChunk
  BY <1>1, <1>3, <1>6, TakeKeeps
<1>7. CASE JoinChunk
  BY <1>1, <1>3, <1>7, JoinKeeps
<1>8. CASE FilterKey
  BY <1>1, <1>3, <1>8, FilterKeeps
<1>9. CASE Forward
  BY <1>1, <1>3, <1>9, ForwardKeeps
<1>10. CASE Flush
  BY <1>1, <1>3, <1>10, FlushKeeps
<1>11. CASE ServerReads
  BY <1>1, <1>3, <1>11, ServerKeeps
<1>12. CASE UNCHANGED keyVars
  <2>1. UNCHANGED <<via, input, eof, stdinCh, taken, joining, filtering, out, held, detached, frames, garbled, given>>
    BY <1>12 DEF keyVars
  <2>2. KeyTypes' /\ KeyFlags'
    BY <1>1, <2>1 DEF KeyTypes, KeyFlags
  <2>3. Delivered(k, f)' /\ Queued(k, c)' /\ Searched(k)'
    BY <1>3, <2>1 DEF Delivered, Queued, Searched
  <2> QED
    BY <2>2, <2>3 DEF KeysInv
<1> QED
  BY <1>4, <1>5, <1>6, <1>7, <1>8, <1>9, <1>10, <1>11, <1>12 DEF KeysNext

\* The order of the naturals.
LessThan == {ss \in Nat \X Nat : ss[1] < ss[2]}

\* A set of naturals that is not empty has a least element.
LEMMA LeastOfNaturals ==
  ASSUME NEW S \in SUBSET Nat, S # {}
  PROVE  \E x \in S : \A y \in S : x <= y
<1>1. IsWellFoundedOn(LessThan, Nat)
  BY NatLessThanWellFounded, Zenon DEF OpToRel, LessThan
<1>2. PICK x \in S : \A y \in S : ~ (<<y, x>> \in LessThan)
  BY <1>1, WFMin, Zenon
<1>3. \A y \in S : x <= y
  <2> TAKE y \in S
  <2>1. ~ (<<y, x>> \in LessThan)
    BY <1>2, Zenon
  <2>2. x \in Nat /\ y \in Nat
    BY Zenon
  <2>3. ~(y < x)
    BY <2>1, <2>2, SMT DEF LessThan
  <2> QED
    BY <2>2, <2>3
<1> QED
  BY <1>3

\* The input has the detach keys where filter found them, and nowhere before.
LEMMA WhatIsMeant ==
  ASSUME NEW k \in Nat, KeyTypes, Searched(k)
  PROVE  /\ detached => /\ DetachAt # {} /\ Wanted \in Seq(Key) /\ Len(Wanted) = k - 2
                        /\ \A j \in 1..(k - 2) : Wanted[j] = input[j]
         /\ ~detached /\ DetachAt = {} => Wanted = input
         /\ ~detached /\ DetachAt # {} =>
              /\ Wanted \in Seq(Key) /\ Len(Wanted) \in (k - 1)..(Len(input) - 1) /\ k < Len(input)
              /\ ~held => Len(Wanted) >= k
              /\ \A j \in 1..Len(Wanted) : Wanted[j] = input[j]
<1>0. input \in Seq(Key) /\ Len(input) \in Nat
  BY KeyParts
<1>1. DetachAt \subseteq Nat /\ \A j \in DetachAt : j \in 1..(Len(input) - 1)
  BY <1>0 DEF DetachAt
<1>2. DetachAt = {} => Wanted = input
  BY DEF Wanted, Meant
<1>3. ASSUME DetachAt # {}, NEW m \in DetachAt, \A j \in DetachAt : m <= j
      PROVE  /\ Wanted \in Seq(Key) /\ Len(Wanted) = m - 1
             /\ \A j \in 1..(m - 1) : Wanted[j] = input[j]
  <2>1. m = CHOOSE j \in DetachAt : \A i \in DetachAt : j <= i
    <3>1. \A j \in DetachAt : (\A i \in DetachAt : j <= i) => j = m
      BY <1>1, <1>3
    <3> QED
      BY <1>3, <3>1
  <2>2. Meant = SubSeq(input, 1, m)
    BY <1>3, <2>1 DEF Meant
  <2>3. m \in 1..Len(input)
    BY <1>0, <1>1, <1>3
  <2>4. /\ Meant \in Seq(Key) /\ Len(Meant) = m
        /\ \A j \in 1..m : Meant[j] = input[j]
    BY <1>0, <2>2, <2>3
  <2>5. Wanted = SubSeq(Meant, 1, m - 1)
    BY <1>3, <2>4 DEF Wanted, Front
  <2>m. PICK t : t = Meant
    OBVIOUS
  <2> QED
    BY <2>3, <2>4, <2>5, <2>m
<1>4. ASSUME detached
      PROVE  /\ k - 1 \in DetachAt /\ \A j \in DetachAt : k - 1 <= j
  <2>1. /\ k \in 0..Len(input) /\ k > 1 /\ input[k - 1] = "p" /\ input[k] = "q"
        /\ \A j \in 1..(k - 2) : ~(input[j] = "p" /\ input[j + 1] = "q")
    BY <1>4 DEF Searched
  <2>2. k - 1 \in DetachAt
    <3>1. (k - 1) + 1 = k /\ k - 1 \in 1..(Len(input) - 1)
      BY <1>0, <2>1
    <3> QED
      BY <2>1, <3>1 DEF DetachAt
  <2>3. ASSUME NEW j \in DetachAt PROVE k - 1 <= j
    <3>1. j \in Nat /\ j >= 1 /\ input[j] = "p" /\ input[j + 1] = "q"
      BY <1>1 DEF DetachAt
    <3> QED
      BY <2>1, <3>1
  <2> QED
    BY <2>2, <2>3
<1>5. ASSUME ~detached, NEW j \in DetachAt
      PROVE  j >= k /\ k < Len(input) /\ (~held => j >= k + 1)
  <2>1. j \in 1..(Len(input) - 1) /\ input[j] = "p" /\ input[j + 1] = "q"
    BY DEF DetachAt
  <2>2. k \in 0..Len(input) /\ \A i \in 1..(k - 1) : ~(input[i] = "p" /\ input[i + 1] = "q")
    BY <1>5 DEF Searched
  <2>3. j >= k
    BY <1>0, <2>1, <2>2
  <2>4. k < Len(input)
    BY <1>0, <2>1, <2>2, <2>3
  <2>5. ~held => j # k
    BY <1>5, <2>1, <2>4, <2>2 DEF Searched
  <2> QED
    BY <2>1, <2>3, <2>4, <2>5
<1>6. DetachAt # {} => \E m \in DetachAt : \A j \in DetachAt : m <= j
  BY <1>1, LeastOfNaturals
<1>7. ASSUME detached
      PROVE  /\ DetachAt # {} /\ Wanted \in Seq(Key) /\ Len(Wanted) = k - 2
             /\ \A j \in 1..(k - 2) : Wanted[j] = input[j]
  <2>1. (k - 1) - 1 = k - 2 /\ DetachAt # {}
    BY <1>4, <1>7
  <2> QED
    BY <1>3, <1>4, <1>7, <2>1
<1>8. ASSUME ~detached, DetachAt # {}
      PROVE  /\ Wanted \in Seq(Key) /\ Len(Wanted) \in (k - 1)..(Len(input) - 1) /\ k < Len(input)
             /\ ~held => Len(Wanted) >= k
             /\ \A j \in 1..Len(Wanted) : Wanted[j] = input[j]
  <2>1. PICK m \in DetachAt : \A j \in DetachAt : m <= j
    BY <1>6, <1>8
  <2>2. /\ Wanted \in Seq(Key) /\ Len(Wanted) = m - 1
        /\ \A j \in 1..(m - 1) : Wanted[j] = input[j]
    BY <1>3, <1>8, <2>1
  <2>3. m >= k /\ k < Len(input) /\ (~held => m >= k + 1) /\ m \in 1..(Len(input) - 1)
    BY <1>1, <1>5, <1>8
  <2> QED
    BY <1>0, <2>2, <2>3
<1> QED
  BY <1>2, <1>7, <1>8

\* The invariant says what the container was given.
LEMMA KeysInvIsSafe == KeysInv => KeysSafe
<1> SUFFICES ASSUME KeysInv PROVE KeysSafe
  OBVIOUS
<1>1. KeyTypes /\ KeyFlags
  BY DEF KeysInv
<1>2. PICK k \in Nat : \E f, c : Delivered(k, f) /\ Queued(k, c) /\ Searched(k)
  BY DEF KeysInv
<1>3. PICK f, c : Delivered(k, f) /\ Queued(k, c) /\ Searched(k)
  BY <1>2
<1>4. KeysTypeOK
  <2>1. \A i \in 1..Len(frames) : Len(frames[i].bytes) \in Nat
    BY <1>1, KeyParts
  <2>2. \A i \in 1..Len(frames) : frames[i].len \in 0..(FrameMod - 1)
    BY <1>1, <2>1, RemainderFits DEF KeyTypes
  <2> QED
    BY <1>1, <2>2 DEF KeysTypeOK, KeyTypes
<1>5. ASSUME ~garbled PROVE IsPrefix(given, Wanted) /\ (detached => DetachAt # {})
               /\ (Quiet => /\ detached = (DetachAt # {})
                            /\ given = (IF held THEN Front(Wanted) ELSE Wanted))
  <2>e. PICK e : e = IF detached THEN k - 2 ELSE IF held THEN k - 1 ELSE k
    OBVIOUS
  <2>0. /\ given \in Seq(Key) /\ input \in Seq(Key) /\ Len(input) \in Nat /\ Len(given) \in Nat /\ Len(frames) \in Nat
        /\ k \in 0..Len(input) /\ detached \in BOOLEAN /\ held \in BOOLEAN
    BY <1>1, <1>3, KeyParts DEF Searched, KeyFlags
  <2>1. /\ f \in [0..Len(frames) -> Nat] /\ f[0] <= f[Len(frames)]
        /\ Piece(input, given, 0, f[0]) /\ Piece(input, out, f[Len(frames)], e)
    BY <1>3, <1>5, <2>0, <2>e DEF Delivered
  <2>2. /\ Len(given) <= e /\ e \in Nat /\ e <= Len(input) /\ (\A j \in 1..Len(given) : given[j] = input[j])
        /\ (frames = <<>> /\ out = <<>> => Len(given) = e)
    <3>1. f[0] = Len(given) /\ \A j \in 1..Len(given) : given[j] = input[0 + j]
      BY <2>0, <2>1 DEF Piece
    <3>2. f[Len(frames)] \in Nat /\ e \in Nat /\ f[Len(frames)] <= e /\ e <= Len(input) /\ (out = <<>> => f[Len(frames)] = e)
      <4>1. Len(out) \in Nat
        BY <1>1 DEF KeyTypes
      <4> QED
        BY <2>1, <4>1 DEF Piece
    <3>3. \A j \in 1..Len(given) : 0 + j = j
      OBVIOUS
    <3>4. frames = <<>> => Len(frames) = 0
      OBVIOUS
    <3> QED
      BY <2>0, <2>1, <3>1, <3>2, <3>3, <3>4
  <2>w. PICK w : w = Wanted
    OBVIOUS
  <2>3. /\ detached => DetachAt # {} /\ Len(w) = k - 2
        /\ w \in Seq(Key) /\ Len(w) \in Nat /\ e <= Len(w) /\ Len(w) <= Len(input)
        /\ \A j \in 1..Len(w) : w[j] = input[j]
        /\ ~detached /\ DetachAt = {} => w = input
        /\ ~detached /\ DetachAt # {} => k < Len(input)
    <3>1. /\ detached => /\ DetachAt # {} /\ w \in Seq(Key) /\ Len(w) = k - 2
                         /\ \A j \in 1..(k - 2) : w[j] = input[j]
          /\ ~detached /\ DetachAt = {} => w = input
          /\ ~detached /\ DetachAt # {} =>
               /\ w \in Seq(Key) /\ Len(w) \in (k - 1)..(Len(input) - 1) /\ k < Len(input)
               /\ ~held => Len(w) >= k
               /\ \A j \in 1..Len(w) : w[j] = input[j]
      BY <1>1, <1>3, <2>w, WhatIsMeant
    <3>2. CASE detached
      BY <2>0, <2>2, <2>e, <3>1, <3>2
    <3>3. CASE ~detached /\ DetachAt = {}
      BY <2>0, <2>2, <2>e, <3>1, <3>3
    <3>4. CASE ~detached /\ DetachAt # {}
      BY <2>0, <2>2, <2>e, <3>1, <3>4
    <3> QED
      BY <3>2, <3>3, <3>4
  <2>4. IsPrefix(given, w)
    <3>1. Len(given) <= Len(w)
      BY <2>0, <2>2, <2>3
    <3>2. /\ SubSeq(given, 1, Len(given)) \in Seq(Key) /\ SubSeq(w, 1, Len(given)) \in Seq(Key)
          /\ Len(SubSeq(given, 1, Len(given))) = Len(given) /\ Len(SubSeq(w, 1, Len(given))) = Len(given)
          /\ \A j \in 1..Len(given) : SubSeq(given, 1, Len(given))[j] = given[j] /\ SubSeq(w, 1, Len(given))[j] = w[j]
      BY <2>0, <2>3, <3>1
    <3>3. \A j \in 1..Len(given) : given[j] = w[j]
      BY <2>0, <2>2, <2>3, <3>1
    <3>4. SubSeq(given, 1, Len(given)) = SubSeq(w, 1, Len(given))
      BY <3>2, <3>3, SeqEqual
    <3> QED
      BY <3>1, <3>4 DEF IsPrefix
  <2>5. ASSUME Quiet
        PROVE  detached = (DetachAt # {}) /\ given = (IF held THEN Front(w) ELSE w)
    <3>1. stdinCh = <<>> /\ taken = <<>> /\ ~filtering /\ frames = <<>> /\ out = <<>>
      BY <1>1, <2>5 DEF Quiet, KeyFlags
    <3>2. Len(given) = e
      BY <2>2, <3>1
    <3>3. ASSUME ~detached PROVE k = Len(input)
      <4>1. Len(<<>>) = 0
        OBVIOUS
      <4>2. c[0] = Len(input) /\ Piece(input, <<>>, k, c[0])
        BY <1>3, <3>1, <3>3, <4>1 DEF Queued
      <4> QED
        BY <4>1, <4>2 DEF Piece
    <3>4. detached = (DetachAt # {})
      <4>1. detached <=> DetachAt # {}
        BY <2>0, <2>3, <3>3
      <4> QED
        BY <2>0, <4>1
    <3>5. CASE detached
      <4>1. ~held /\ Len(given) = Len(w)
        BY <1>1, <2>3, <2>e, <3>2, <3>5 DEF KeyFlags
      <4>2. given = w
        BY <2>0, <2>2, <2>3, <4>1, SeqEqual
      <4> QED
        BY <3>4, <4>1, <4>2
    <3>6. CASE ~detached
      <4>1. w = input /\ k = Len(input)
        BY <2>0, <2>3, <3>3, <3>6
      <4>2. CASE held
        <5>1. Len(given) = Len(input) - 1
          BY <2>e, <3>2, <3>6, <4>1, <4>2
        <5>2. /\ Front(w) \in Seq(Key) /\ Len(Front(w)) = Len(input) - 1
              /\ \A j \in 1..(Len(input) - 1) : Front(w)[j] = input[j]
          BY <2>0, <4>1, <5>1 DEF Front
        <5>3. given = Front(w)
          BY <2>0, <2>2, <5>1, <5>2, SeqEqual
        <5> QED
          BY <3>4, <4>2, <5>3
      <4>3. CASE ~held
        <5>1. Len(given) = Len(w)
          BY <2>e, <3>2, <3>6, <4>1, <4>3
        <5>2. given = w
          BY <2>0, <2>2, <2>3, <5>1, SeqEqual
        <5> QED
          BY <3>4, <4>3, <5>2
      <4> QED
        BY <4>2, <4>3
    <3> QED
      BY <3>5, <3>6
  <2> QED
    BY <2>3, <2>4, <2>5, <2>w
<1>6. KeysArrive
  BY <1>5 DEF KeysArrive
<1> QED
  BY <1>4, <1>6 DEF KeysSafe

\* What is typed into an attached terminal reaches the container in order and
\* whole up to the detach keys, and these are found, however the reads cut it
\* up: for every input, chunk size, queue and width of the length field.
THEOREM KeysAreSafe == KeysSpec => []KeysSafe
<1>1. KeysInit => KeysInv
  BY KeysInitial
<1>2. KeysInv /\ [KeysNext]_keyVars => KeysInv'
  BY KeysStep
<1>3. KeysInv => KeysSafe
  BY KeysInvIsSafe
<1> QED
  BY <1>1, <1>2, <1>3, PTL DEF KeysSpec

-----------------------------------------------------------------------------
(* Builds and what they publish.                                           *)

Marks == SUBSET (Nat \X Nat)
Published == [by : Builder \cup {"old"}, data : Marks]
BuildPlaces == {"idle", "base", "steps", "run", "sidecar", "push", "install", "image", "cleanup", "ended", "dead"}

\* The types of what a build works on, and of what it publishes.
StageTypes ==
  /\ job \in Jobs /\ bpc \in [Builder -> BuildPlaces]
  /\ cur \in [Builder -> Nat \ {0}] /\ step \in [Builder -> Nat \ {0}] /\ upper \in [Builder -> Marks]
  /\ stageImg \in [Builder -> [Stage -> [there : BOOLEAN, data : Marks]]]
  /\ stageSqfs \in [Builder -> SUBSET Nat]
  /\ mapOf \in [Builder -> [Stage -> 0..MaxStage]] /\ maps \in [Builder -> [Stage -> Marks]]
  /\ conDirs \subseteq Builder \X Stage /\ recs \subseteq Builder \X Stage
PublishTypes ==
  /\ staged \in [Builder -> {"none", "part", "whole"}] /\ sidecarOf \in [Builder -> Marks]
  /\ oldSidecar \in [Builder -> Published] /\ tagImg \in Published /\ tagSide \in Published
  /\ before \in [Builder -> Published] /\ verdict \in [Builder -> {"none", "ok", "failed"}]
  /\ installed \subseteq Builder /\ mixed \in BOOLEAN

\* A build that has stages is at one of its stages.
AtStage ==
  \A b \in Builder :
    /\ cur[b] \in 1..LastStage(b) \/ (bpc[b] = "idle" /\ cur[b] = 1)
    /\ stageSqfs[b] \subseteq 1..LastStage(b)

\* As long as no two builds met between their renames, the one that is there
\* has the sidecar of the tag, and remembers the one that goes with the image.
Between ==
  ~mixed => \A b \in Builder : bpc[b] = "image" =>
    /\ tagSide.by = b /\ oldSidecar[b].by = tagImg.by
    /\ \A c \in Builder : bpc[c] = "image" => c = b

\* Who replaced the image, and what a build found when it began: nobody
\* publishes twice, so what it found does not come back once it has published.
Replaced ==
  /\ tagImg.by \in installed \cup {"old"}
  /\ \A b \in Builder : before[b].by \in installed \cup {"old"}
  /\ installed = {} => tagImg = Old /\ \A b \in Builder : before[b] = Old
  /\ \A b \in installed : bpc[b] \in {"push", "cleanup", "ended", "dead"} /\ tagImg.by # before[b].by
  /\ \A b \in installed : bpc[b] = "push" => ~job[b].inVM
  /\ \A b \in Builder : job[b].inVM /\ verdict[b] # "none" => bpc[b] \in {"ended", "dead"}

\* What is on disk, and what the build knows to remove.
Removable ==
  /\ \A b \in Builder : \A s \in Stage : stageImg[b][s].there => s \in stageSqfs[b]
  /\ \A b \in Builder : staged[b] = "whole" =>
       bpc[b] \in {"install", "dead"} \/ (bpc[b] = "push" /\ job[b].inVM)

BuildInv ==
  /\ StageTypes /\ PublishTypes /\ AtStage /\ Between /\ TagMatches /\ Replaced /\ VerdictTrue
  /\ Removable /\ NothingLeft

\* The sizes.
LEMMA BuildSizes == MaxStage \in Nat /\ Stage \subseteq Nat \ {0} /\ "old" \notin Builder
<1>1. MaxStage \in Nat /\ "old" \notin Builder
  BY BuildAssumption, Zenon
<1> QED
  BY <1>1 DEF Stage

\* Whoever is told, the host is not told of a guest.
Hushed == \A c \in Builder : job[c].inVM => verdict'[c] = verdict[c]
LEMMA ToldHushed ==
  ASSUME PublishTypes, NEW b \in Builder, NEW what, Told(b, what) \/ UNCHANGED verdict
  PROVE  Hushed
  BY DEF PublishTypes, Told, Hushed

\* A build goes on without replacing the image.
LEMMA ReplacedMoves ==
  ASSUME StageTypes, PublishTypes, Replaced, NEW b \in Builder, NEW p,
         bpc' = [bpc EXCEPT ![b] = p], bpc[b] \notin {"ended", "dead"},
         b \in installed => p \in {"cleanup", "ended", "dead"},
         UNCHANGED <<job, tagImg, before, installed>>, Hushed
  PROVE  Replaced'
<1>1. \A c \in Builder : c # b => bpc'[c] = bpc[c]
  BY DEF StageTypes
<1>2. bpc'[b] = p
  BY DEF StageTypes
<1>3. \A c \in installed : c \in Builder /\ bpc'[c] \in {"push", "cleanup", "ended", "dead"}
  BY <1>1, <1>2 DEF Replaced, PublishTypes
<1>4. \A c \in installed : bpc'[c] = "push" => ~job[c].inVM
  BY <1>1, <1>2 DEF Replaced, PublishTypes
<1>5. \A c \in Builder : job[c].inVM /\ verdict'[c] # "none" => bpc'[c] \in {"ended", "dead"}
  BY <1>1, <1>2 DEF Replaced, Hushed
<1> QED
  BY <1>3, <1>4, <1>5 DEF Replaced

\* The Dockerfiles: the stages are few, and a base is an earlier one.
LEMMA Documents ==
  ASSUME StageTypes, NEW b \in Builder
  PROVE  /\ LastStage(b) \in 0..MaxStage
         /\ \A s \in 1..LastStage(b) : /\ Doc(b)[s].from \in Nat /\ Doc(b)[s].from < s
                                       /\ Doc(b)[s].steps \in Seq(Instructions)
<1>1. job \in Jobs
  BY DEF StageTypes
<1>2. /\ job[b].doc \in Seq([from : Nat, steps : Seq(Instructions)])
      /\ Len(job[b].doc) \in 0..MaxStage
      /\ \A s \in 1..Len(job[b].doc) : job[b].doc[s].from < s
  BY <1>1, BuildAssumption, Zenon
<1>3. ASSUME NEW s \in 1..LastStage(b)
      PROVE  Doc(b)[s].from \in Nat /\ Doc(b)[s].steps \in Seq(Instructions)
  <2> DEFINE Stages == [from : Nat, steps : Seq(Instructions)]
  <2> HIDE DEF Stages
  <2>0. job[b].doc \in Seq(Stages)
    BY <1>2 DEF Stages
  <2>1. Doc(b)[s] \in Stages
    BY <2>0, <1>3 DEF Doc, LastStage
  <2> QED
    BY <2>1 DEF Stages
<1> QED
  BY <1>2, <1>3 DEF Doc, LastStage

\* A build at work is at a stage of its Dockerfile, and what it does there is
\* an instruction.
LEMMA AtWork ==
  ASSUME StageTypes, AtStage, NEW b \in Builder, bpc[b] # "idle"
  PROVE  /\ cur[b] \in Stage /\ cur[b] <= LastStage(b) /\ LastStage(b) \in Stage
         /\ At(b).from \in 0..MaxStage /\ At(b).from < cur[b] /\ At(b).steps \in Seq(Instructions)
         /\ Mark(b) \in Nat \X Nat
<1>1. cur[b] \in 1..LastStage(b) /\ LastStage(b) \in 0..MaxStage
  BY Documents DEF AtStage
<1>2. At(b).from \in Nat /\ At(b).from < cur[b] /\ At(b).steps \in Seq(Instructions)
  BY <1>1, Documents DEF At
<1>3. cur[b] \in Nat /\ step[b] \in Nat
  BY DEF StageTypes
<1> QED
  BY <1>1, <1>2, <1>3, BuildSizes DEF Stage, Mark

LEMMA AnInstruction ==
  ASSUME StageTypes, AtStage, NEW b \in Builder, ToDo(b)
  PROVE  Instr(b).stage \in Stage
<1>1. At(b).steps \in Seq(Instructions) /\ step[b] \in 1..Len(At(b).steps)
  BY AtWork, SMTT(30) DEF ToDo, StageTypes
<1>2. Instr(b) \in Instructions
  BY <1>1 DEF Instr
<1> QED
  BY <1>2 DEF Instructions

\* What a build writes, or takes with it, is marks.
LEMMA SomeMarks ==
  ASSUME StageTypes, AtStage, NEW b \in Builder, bpc[b] # "idle"
  PROVE  BaseData(b) \in Marks /\ stageImg[b][LastStage(b)].data \in Marks
<1>1. At(b).from # 0 => At(b).from \in Stage
  BY AtWork, BuildSizes DEF Stage
<1>2. \A s \in Stage : stageImg[b][s] \in [there : BOOLEAN, data : Marks]
  BY DEF StageTypes
<1> QED
  BY <1>1, <1>2, AtWork DEF BaseData, Marks

\* At most one build is between its renames, unless that was so before.
LEMMA BetweenStep ==
  ASSUME BuildInv, BuildNext
  PROVE  (Between /\ TagMatches)'
<1>a. StageTypes /\ PublishTypes /\ Between /\ TagMatches
  BY DEF BuildInv
<1> USE DEF tagVars, stageVars, sideVars, restVars
<1>1. ASSUME NEW b \in Builder, Begin(b) PROVE (Between /\ TagMatches)'
  BY <1>a, <1>1 DEF Begin, Goes, Between, TagMatches, StageTypes, PublishTypes
<1>2. ASSUME NEW b \in Builder, ResolveBase(b) PROVE (Between /\ TagMatches)'
  BY <1>a, <1>2 DEF ResolveBase, Goes, Between, TagMatches, StageTypes, PublishTypes
<1>3. ASSUME NEW b \in Builder, ApplyCopy(b) PROVE (Between /\ TagMatches)'
  BY <1>a, <1>3 DEF ApplyCopy, Goes, ToDo, Gives, Told, Advance, Between, TagMatches, StageTypes, PublishTypes
<1>4. ASSUME NEW b \in Builder, ApplyLabel(b) PROVE (Between /\ TagMatches)'
  BY <1>a, <1>4 DEF ApplyLabel, Goes, ToDo, Advance, Between, TagMatches, StageTypes, PublishTypes
<1>5. ASSUME NEW b \in Builder, BuildRun(b) PROVE (Between /\ TagMatches)'
  BY <1>a, <1>5 DEF BuildRun, Goes, ToDo, Gives, Told, Between, TagMatches, StageTypes, PublishTypes
<1>6. ASSUME NEW b \in Builder, BuildRunEnds(b) PROVE (Between /\ TagMatches)'
  BY <1>a, <1>6 DEF BuildRunEnds, Goes, Advance, Between, TagMatches, StageTypes, PublishTypes
<1>7. ASSUME NEW b \in Builder, StageFails(b) PROVE (Between /\ TagMatches)'
  BY <1>a, <1>7 DEF StageFails, Goes, Gives, Told, Between, TagMatches, StageTypes, PublishTypes
<1>8. ASSUME NEW b \in Builder, Finish(b) PROVE (Between /\ TagMatches)'
  BY <1>a, <1>8 DEF Finish, Goes, Gives, Told, Between, TagMatches, StageTypes, PublishTypes
<1>9. ASSUME NEW b \in Builder, CleanupAll(b) PROVE (Between /\ TagMatches)'
  BY <1>a, <1>9 DEF CleanupAll, Goes, Between, TagMatches, StageTypes, PublishTypes
<1>10. ASSUME NEW b \in Builder, CheckGuestOutput(b) PROVE (Between /\ TagMatches)'
  BY <1>a, <1>10 DEF CheckGuestOutput, Between, TagMatches, StageTypes, PublishTypes
<1>11. ASSUME NEW b \in Builder, BuildDies(b) PROVE (Between /\ TagMatches)'
  BY <1>a, <1>11, ZenonT(60) DEF BuildDies, Goes, Between, TagMatches, StageTypes, PublishTypes
<1>12. ASSUME NEW b \in Builder, NEW ok \in BOOLEAN, WriteSidecar(b, ok) PROVE (Between /\ TagMatches)'
  BY <1>a, <1>12 DEF WriteSidecar, Goes, Gives, Told, Between, TagMatches, StageTypes, PublishTypes
<1>13. ASSUME NEW b \in Builder, NEW ok \in BOOLEAN, PushStageImage(b, ok) PROVE (Between /\ TagMatches)'
  BY <1>a, <1>13 DEF PushStageImage, Goes, GivesUp, Gives, Told, Between, TagMatches, StageTypes, PublishTypes
<1>14. ASSUME NEW b \in Builder, NEW ok \in BOOLEAN, InstallSidecar(b, ok) PROVE (Between /\ TagMatches)'
  BY <1>a, <1>14 DEF InstallSidecar, Goes, GivesUp, Gives, Told, Between, TagMatches, StageTypes, PublishTypes
<1>15. ASSUME NEW b \in Builder, NEW ok \in BOOLEAN, InstallImage(b, ok) PROVE (Between /\ TagMatches)'
  <2>1. /\ bpc[b] = "image" /\ UNCHANGED mixed
        /\ \E p \in {"cleanup", "push"} : bpc' = [bpc EXCEPT ![b] = p]
        /\ \/ tagImg'.by = b /\ UNCHANGED tagSide
           \/ UNCHANGED tagImg /\ tagSide' = oldSidecar[b]
    BY <1>15 DEF InstallImage, Installed, GivesUp, Gives, Goes
  <2>2. bpc'[b] # "image" /\ \A c \in Builder : c # b => bpc'[c] = bpc[c]
    BY <1>a, <2>1 DEF StageTypes
  <2>3. ASSUME ~mixed PROVE tagImg'.by = tagSide'.by /\ \A c \in Builder : bpc'[c] # "image"
    <3>1. /\ tagSide.by = b /\ oldSidecar[b].by = tagImg.by
          /\ \A c \in Builder : bpc[c] = "image" => c = b
      BY <1>a, <2>1, <2>3 DEF Between
    <3> QED
      BY <2>1, <2>2, <3>1
  <2> QED
    BY <2>1, <2>3 DEF Between, TagMatches
<1>16. ASSUME NEW b \in Builder, NEW s \in Stage, SweepContainer(b, s) PROVE (Between /\ TagMatches)'
  BY <1>a, <1>16 DEF SweepContainer, Wipes, Between, TagMatches, StageTypes, PublishTypes
<1>17. ASSUME NEW b \in Builder, NEW s \in Stage, SweepDir(b, s) PROVE (Between /\ TagMatches)'
  BY <1>a, <1>17 DEF SweepDir, Wipes, Between, TagMatches, StageTypes, PublishTypes
<1>18. ASSUME NEW b \in Builder, NEW s \in Stage, SweepImage(b, s) PROVE (Between /\ TagMatches)'
  BY <1>a, <1>18 DEF SweepImage, Between, TagMatches, StageTypes, PublishTypes
<1>19. ASSUME NEW scope \in {"all", "orphans", "images"}, SweepLists(scope) PROVE (Between /\ TagMatches)'
  BY <1>a, <1>19 DEF SweepLists, Between, TagMatches, StageTypes, PublishTypes
<1>20. ASSUME SweepEnds PROVE (Between /\ TagMatches)'
  BY <1>a, <1>20 DEF SweepEnds, Between, TagMatches, StageTypes, PublishTypes
<1> QED
  BY <1>1, <1>2, <1>3, <1>4, <1>5, <1>6, <1>7, <1>8, <1>9, <1>10, <1>11, <1>12,
     <1>13, <1>14, <1>15, <1>16, <1>17, <1>18, <1>19, <1>20 DEF BuildNext

\* What a build found does not come back once it has published.
LEMMA ReplacedStep ==
  ASSUME BuildInv, BuildNext
  PROVE  Replaced'
<1>a. StageTypes /\ PublishTypes /\ Replaced
  BY DEF BuildInv
<1> USE DEF tagVars, stageVars, sideVars, restVars
<1>1. ASSUME NEW b \in Builder, Begin(b) PROVE Replaced'
  BY <1>a, <1>1, ZenonT(60) DEF Begin, Goes, Replaced, StageTypes, PublishTypes, Old
<1>2. ASSUME NEW b \in Builder, ResolveBase(b) PROVE Replaced'
  BY <1>a, <1>2 DEF ResolveBase, Goes, Replaced, StageTypes, PublishTypes, Old
<1>3. ASSUME NEW b \in Builder, ApplyCopy(b) PROVE Replaced'
  <2>1. /\ bpc[b] \in {"steps"} /\ UNCHANGED <<job, tagImg, before, installed>>
        /\ (\E what : Told(b, what)) \/ UNCHANGED verdict
    BY <1>3 DEF ApplyCopy, Goes, ToDo, Gives, Advance
  <2>2. PICK p : bpc' = [bpc EXCEPT ![b] = p] /\ p \in {"steps", "cleanup"}
    BY <1>3, <1>a DEF ApplyCopy, Goes, ToDo, Gives, Advance, StageTypes
  <2>3. Hushed
    BY <1>a, <2>1, ToldHushed
  <2>4. b \notin installed
    BY <1>a, <2>1 DEF Replaced
  <2> QED
    BY <1>a, <2>1, <2>2, <2>3, <2>4, ReplacedMoves
<1>4. ASSUME NEW b \in Builder, ApplyLabel(b) PROVE Replaced'
  BY <1>a, <1>4 DEF ApplyLabel, Goes, ToDo, Advance, Replaced, StageTypes, PublishTypes, Old
<1>5. ASSUME NEW b \in Builder, BuildRun(b) PROVE Replaced'
  <2>1. /\ bpc[b] \in {"steps"} /\ UNCHANGED <<job, tagImg, before, installed>>
        /\ (\E what : Told(b, what)) \/ UNCHANGED verdict
    BY <1>5 DEF BuildRun, Goes, ToDo, Gives
  <2>2. PICK p : bpc' = [bpc EXCEPT ![b] = p] /\ p \in {"run", "cleanup"}
    BY <1>5, <1>a DEF BuildRun, Goes, ToDo, Gives, StageTypes
  <2>3. Hushed
    BY <1>a, <2>1, ToldHushed
  <2>4. b \notin installed
    BY <1>a, <2>1 DEF Replaced
  <2> QED
    BY <1>a, <2>1, <2>2, <2>3, <2>4, ReplacedMoves
<1>6. ASSUME NEW b \in Builder, BuildRunEnds(b) PROVE Replaced'
  BY <1>a, <1>6 DEF BuildRunEnds, Goes, Advance, Replaced, StageTypes, PublishTypes, Old
<1>7. ASSUME NEW b \in Builder, StageFails(b) PROVE Replaced'
  BY <1>a, <1>7 DEF StageFails, Goes, Gives, Told, Replaced, StageTypes, PublishTypes, Old
<1>8. ASSUME NEW b \in Builder, Finish(b) PROVE Replaced'
  <2>1. /\ bpc[b] \in {"steps"} /\ UNCHANGED <<job, tagImg, before, installed>>
        /\ (\E what : Told(b, what)) \/ UNCHANGED verdict
    BY <1>8 DEF Finish, Goes, Gives
  <2>2. PICK p : bpc' = [bpc EXCEPT ![b] = p] /\ p \in {"sidecar", "base", "cleanup"}
    BY <1>8, <1>a DEF Finish, Goes, Gives, StageTypes
  <2>3. Hushed
    BY <1>a, <2>1, ToldHushed
  <2>4. b \notin installed
    BY <1>a, <2>1 DEF Replaced
  <2> QED
    BY <1>a, <2>1, <2>2, <2>3, <2>4, ReplacedMoves
<1>9. ASSUME NEW b \in Builder, CleanupAll(b) PROVE Replaced'
  BY <1>a, <1>9 DEF CleanupAll, Goes, Replaced, StageTypes, PublishTypes, Old
<1>10. ASSUME NEW b \in Builder, CheckGuestOutput(b) PROVE Replaced'
  BY <1>a, <1>10 DEF CheckGuestOutput, Replaced, StageTypes, PublishTypes, Old
<1>11. ASSUME NEW b \in Builder, BuildDies(b) PROVE Replaced'
  BY <1>a, <1>11 DEF BuildDies, Goes, Replaced, StageTypes, PublishTypes, Old
<1>12. ASSUME NEW b \in Builder, NEW ok \in BOOLEAN, WriteSidecar(b, ok) PROVE Replaced'
  <2>1. /\ bpc[b] \in {"sidecar"} /\ UNCHANGED <<job, tagImg, before, installed>>
        /\ (\E what : Told(b, what)) \/ UNCHANGED verdict
    BY <1>12 DEF WriteSidecar, Goes, Gives
  <2>2. PICK p : bpc' = [bpc EXCEPT ![b] = p] /\ p \in {"push", "install", "cleanup"}
    BY <1>12, <1>a DEF WriteSidecar, Goes, Gives, StageTypes
  <2>3. Hushed
    BY <1>a, <2>1, ToldHushed
  <2>4. b \notin installed
    BY <1>a, <2>1 DEF Replaced
  <2> QED
    BY <1>a, <2>1, <2>2, <2>3, <2>4, ReplacedMoves
<1>13. ASSUME NEW b \in Builder, NEW ok \in BOOLEAN, PushStageImage(b, ok) PROVE Replaced'
  <2>1. /\ bpc[b] \in {"push"} /\ UNCHANGED <<job, tagImg, before, installed>>
        /\ (\E what : Told(b, what)) \/ UNCHANGED verdict
    BY <1>13 DEF PushStageImage, Goes, GivesUp, Gives
  <2>2. PICK p : bpc' = [bpc EXCEPT ![b] = p] /\ p \in {"install", "cleanup"}
    BY <1>13, <1>a DEF PushStageImage, Goes, GivesUp, Gives, StageTypes
  <2>3. Hushed
    BY <1>a, <2>1, ToldHushed
  <2>4. b \in installed => p = "cleanup"
    <3>1. b \in installed => ~job[b].inVM
      BY <1>a, <2>1 DEF Replaced
    <3>2. ~job[b].inVM => bpc' = [bpc EXCEPT ![b] = "cleanup"]
      BY <1>13 DEF PushStageImage, Goes, GivesUp, Gives
    <3>3. bpc'[b] = p /\ (~job[b].inVM => bpc'[b] = "cleanup")
      BY <1>a, <2>2, <3>2 DEF StageTypes
    <3> QED
      BY <3>1, <3>3
  <2> QED
    BY <1>a, <2>1, <2>2, <2>3, <2>4, ReplacedMoves
<1>14. ASSUME NEW b \in Builder, NEW ok \in BOOLEAN, InstallSidecar(b, ok) PROVE Replaced'
  <2>1. /\ bpc[b] \in {"install"} /\ UNCHANGED <<job, tagImg, before, installed>>
        /\ (\E what : Told(b, what)) \/ UNCHANGED verdict
    BY <1>14 DEF InstallSidecar, Goes, GivesUp, Gives
  <2>2. PICK p : bpc' = [bpc EXCEPT ![b] = p] /\ p \in {"image", "cleanup"}
    BY <1>14, <1>a DEF InstallSidecar, Goes, GivesUp, Gives, StageTypes
  <2>3. Hushed
    BY <1>a, <2>1, ToldHushed
  <2>4. b \notin installed
    BY <1>a, <2>1 DEF Replaced
  <2> QED
    BY <1>a, <2>1, <2>2, <2>3, <2>4, ReplacedMoves
<1>15. ASSUME NEW b \in Builder, NEW ok \in BOOLEAN, InstallImage(b, ok) PROVE Replaced'
  <2>1. CASE ok /\ stageImg[b][LastStage(b)].there
    <3>1. /\ tagImg'.by = b /\ installed' = installed \cup {b} /\ UNCHANGED <<job, before, verdict>>
          /\ bpc[b] = "image" /\ bpc' = [bpc EXCEPT ![b] = IF job[b].inVM THEN "cleanup" ELSE "push"]
      BY <1>15, <2>1 DEF InstallImage, Installed, Goes
    <3>2. b \notin installed /\ b # "old"
      BY <1>a, <3>1, BuildSizes DEF Replaced
    <3>3. bpc'[b] \in {"cleanup", "push"} /\ (bpc'[b] = "push" => ~job[b].inVM) /\ \A c \in Builder : c # b => bpc'[c] = bpc[c]
      BY <1>a, <3>1 DEF StageTypes
    <3>4. \A c \in Builder : before[c].by # b
      BY <1>a, <3>2 DEF Replaced
    <3>5. \A c \in installed' : c \in Builder /\ bpc'[c] \in {"push", "cleanup", "ended", "dead"}
      BY <1>a, <3>1, <3>3 DEF Replaced, PublishTypes
    <3>6. \A c \in installed' : bpc'[c] = "push" => ~job[c].inVM
      BY <1>a, <3>1, <3>3 DEF Replaced, PublishTypes
    <3>7. \A c \in Builder : job[c].inVM /\ verdict[c] # "none" => bpc'[c] \in {"ended", "dead"}
      BY <1>a, <3>1, <3>3 DEF Replaced
    <3>8. \A c \in installed' : tagImg'.by # before[c].by
      BY <3>1, <3>4, <3>5
    <3>9. \A c \in Builder : before[c].by \in installed' \cup {"old"}
      BY <1>a, <3>1 DEF Replaced
    <3> QED
      BY <3>1, <3>5, <3>6, <3>7, <3>8, <3>9 DEF Replaced
  <2>2. CASE ~(ok /\ stageImg[b][LastStage(b)].there)
    <3>1. /\ bpc[b] = "image" /\ bpc' = [bpc EXCEPT ![b] = "cleanup"] /\ UNCHANGED <<job, tagImg, before, installed>>
          /\ Told(b, "failed")
      BY <1>15, <2>2 DEF InstallImage, GivesUp, Gives, Goes
    <3> QED
      BY <1>a, <3>1, ToldHushed, ReplacedMoves
  <2> QED
    BY <2>1, <2>2
<1>16. ASSUME NEW b \in Builder, NEW s \in Stage, SweepContainer(b, s) PROVE Replaced'
  BY <1>a, <1>16 DEF SweepContainer, Wipes, Replaced, StageTypes, PublishTypes, Old
<1>17. ASSUME NEW b \in Builder, NEW s \in Stage, SweepDir(b, s) PROVE Replaced'
  BY <1>a, <1>17 DEF SweepDir, Wipes, Replaced, StageTypes, PublishTypes, Old
<1>18. ASSUME NEW b \in Builder, NEW s \in Stage, SweepImage(b, s) PROVE Replaced'
  BY <1>a, <1>18 DEF SweepImage, Replaced, StageTypes, PublishTypes, Old
<1>19. ASSUME NEW scope \in {"all", "orphans", "images"}, SweepLists(scope) PROVE Replaced'
  BY <1>a, <1>19 DEF SweepLists, Replaced, StageTypes, PublishTypes, Old
<1>20. ASSUME SweepEnds PROVE Replaced'
  BY <1>a, <1>20 DEF SweepEnds, Replaced, StageTypes, PublishTypes, Old
<1> QED
  BY <1>1, <1>2, <1>3, <1>4, <1>5, <1>6, <1>7, <1>8, <1>9, <1>10, <1>11, <1>12,
     <1>13, <1>14, <1>15, <1>16, <1>17, <1>18, <1>19, <1>20 DEF BuildNext

\* The host is told what happened.
LEMMA VerdictStep ==
  ASSUME BuildInv, BuildNext
  PROVE  VerdictTrue'
<1>a. StageTypes /\ PublishTypes /\ Replaced /\ VerdictTrue
  BY DEF BuildInv
<1> USE DEF tagVars, stageVars, sideVars, restVars
<1>1. ASSUME NEW b \in Builder, Begin(b) PROVE VerdictTrue'
  BY <1>a, <1>1 DEF Begin, Goes, VerdictTrue, Replaced, StageTypes, PublishTypes
<1>2. ASSUME NEW b \in Builder, ResolveBase(b) PROVE VerdictTrue'
  BY <1>a, <1>2 DEF ResolveBase, Goes, VerdictTrue, Replaced, StageTypes, PublishTypes
<1>3. ASSUME NEW b \in Builder, ApplyCopy(b) PROVE VerdictTrue'
  BY <1>a, <1>3 DEF ApplyCopy, Goes, ToDo, Gives, Told, Advance, VerdictTrue, Replaced, StageTypes, PublishTypes
<1>4. ASSUME NEW b \in Builder, ApplyLabel(b) PROVE VerdictTrue'
  BY <1>a, <1>4 DEF ApplyLabel, Goes, ToDo, Advance, VerdictTrue, Replaced, StageTypes, PublishTypes
<1>5. ASSUME NEW b \in Builder, BuildRun(b) PROVE VerdictTrue'
  BY <1>a, <1>5 DEF BuildRun, Goes, ToDo, Gives, Told, VerdictTrue, Replaced, StageTypes, PublishTypes
<1>6. ASSUME NEW b \in Builder, BuildRunEnds(b) PROVE VerdictTrue'
  BY <1>a, <1>6 DEF BuildRunEnds, Goes, Advance, VerdictTrue, Replaced, StageTypes, PublishTypes
<1>7. ASSUME NEW b \in Builder, StageFails(b) PROVE VerdictTrue'
  BY <1>a, <1>7 DEF StageFails, Goes, Gives, Told, VerdictTrue, Replaced, StageTypes, PublishTypes
<1>8. ASSUME NEW b \in Builder, Finish(b) PROVE VerdictTrue'
  BY <1>a, <1>8 DEF Finish, Goes, Gives, Told, VerdictTrue, Replaced, StageTypes, PublishTypes
<1>9. ASSUME NEW b \in Builder, CleanupAll(b) PROVE VerdictTrue'
  BY <1>a, <1>9 DEF CleanupAll, Goes, VerdictTrue, Replaced, StageTypes, PublishTypes
<1>10. ASSUME NEW b \in Builder, CheckGuestOutput(b) PROVE VerdictTrue'
  BY <1>a, <1>10 DEF CheckGuestOutput, VerdictTrue, Replaced, StageTypes, PublishTypes
<1>11. ASSUME NEW b \in Builder, BuildDies(b) PROVE VerdictTrue'
  BY <1>a, <1>11 DEF BuildDies, Goes, VerdictTrue, Replaced, StageTypes, PublishTypes
<1>12. ASSUME NEW b \in Builder, NEW ok \in BOOLEAN, WriteSidecar(b, ok) PROVE VerdictTrue'
  BY <1>a, <1>12 DEF WriteSidecar, Goes, Gives, Told, VerdictTrue, Replaced, StageTypes, PublishTypes
<1>13. ASSUME NEW b \in Builder, NEW ok \in BOOLEAN, PushStageImage(b, ok) PROVE VerdictTrue'
  BY <1>a, <1>13 DEF PushStageImage, Goes, GivesUp, Gives, Told, VerdictTrue, Replaced, StageTypes, PublishTypes
<1>14. ASSUME NEW b \in Builder, NEW ok \in BOOLEAN, InstallSidecar(b, ok) PROVE VerdictTrue'
  BY <1>a, <1>14 DEF InstallSidecar, Goes, GivesUp, Gives, Told, VerdictTrue, Replaced, StageTypes, PublishTypes
<1>15. ASSUME NEW b \in Builder, NEW ok \in BOOLEAN, InstallImage(b, ok) PROVE VerdictTrue'
  BY <1>a, <1>15 DEF InstallImage, Goes, Installed, GivesUp, Gives, Told, VerdictTrue, Replaced, StageTypes, PublishTypes
<1>16. ASSUME NEW b \in Builder, NEW s \in Stage, SweepContainer(b, s) PROVE VerdictTrue'
  BY <1>a, <1>16 DEF SweepContainer, Wipes, VerdictTrue, Replaced, StageTypes, PublishTypes
<1>17. ASSUME NEW b \in Builder, NEW s \in Stage, SweepDir(b, s) PROVE VerdictTrue'
  BY <1>a, <1>17 DEF SweepDir, Wipes, VerdictTrue, Replaced, StageTypes, PublishTypes
<1>18. ASSUME NEW b \in Builder, NEW s \in Stage, SweepImage(b, s) PROVE VerdictTrue'
  BY <1>a, <1>18 DEF SweepImage, VerdictTrue, Replaced, StageTypes, PublishTypes
<1>19. ASSUME NEW scope \in {"all", "orphans", "images"}, SweepLists(scope) PROVE VerdictTrue'
  BY <1>a, <1>19 DEF SweepLists, VerdictTrue, Replaced, StageTypes, PublishTypes
<1>20. ASSUME SweepEnds PROVE VerdictTrue'
  BY <1>a, <1>20 DEF SweepEnds, VerdictTrue, Replaced, StageTypes, PublishTypes
<1> QED
  BY <1>1, <1>2, <1>3, <1>4, <1>5, <1>6, <1>7, <1>8, <1>9, <1>10, <1>11, <1>12,
     <1>13, <1>14, <1>15, <1>16, <1>17, <1>18, <1>19, <1>20 DEF BuildNext

\* A build knows what it has to remove.
LEMMA RemovableStep ==
  ASSUME BuildInv, BuildNext
  PROVE  Removable'
<1>a. StageTypes /\ PublishTypes /\ Removable
  BY DEF BuildInv
<1> USE DEF tagVars, stageVars, sideVars, restVars
<1>1. ASSUME NEW b \in Builder, Begin(b) PROVE Removable'
  BY <1>a, <1>1 DEF Begin, Goes, Removable, StageTypes, PublishTypes, File, Missing
<1>2. ASSUME NEW b \in Builder, ResolveBase(b) PROVE Removable'
  BY <1>a, <1>2 DEF ResolveBase, Goes, Removable, StageTypes, PublishTypes, File, Missing
<1>3. ASSUME NEW b \in Builder, ApplyCopy(b) PROVE Removable'
  BY <1>a, <1>3 DEF ApplyCopy, Goes, ToDo, Gives, Told, Advance, Removable, StageTypes, PublishTypes, File, Missing
<1>4. ASSUME NEW b \in Builder, ApplyLabel(b) PROVE Removable'
  BY <1>a, <1>4 DEF ApplyLabel, Goes, ToDo, Advance, Removable, StageTypes, PublishTypes, File, Missing
<1>5. ASSUME NEW b \in Builder, BuildRun(b) PROVE Removable'
  BY <1>a, <1>5 DEF BuildRun, Goes, ToDo, Gives, Told, Removable, StageTypes, PublishTypes, File, Missing
<1>6. ASSUME NEW b \in Builder, BuildRunEnds(b) PROVE Removable'
  BY <1>a, <1>6 DEF BuildRunEnds, Goes, Advance, Removable, StageTypes, PublishTypes, File, Missing
<1>7. ASSUME NEW b \in Builder, StageFails(b) PROVE Removable'
  BY <1>a, <1>7 DEF StageFails, Goes, Gives, Told, Removable, StageTypes, PublishTypes, File, Missing
<1>8. ASSUME NEW b \in Builder, Finish(b) PROVE Removable'
  <2>1. bpc[b] = "steps" /\ UNCHANGED <<job, staged>>
        /\ \E p \in {"sidecar", "base", "cleanup"} : bpc' = [bpc EXCEPT ![b] = p]
    BY <1>8 DEF Finish, Goes, Gives
  <2>2. \A c \in Builder : bpc'[c] = bpc[c] \/ (c = b /\ bpc[c] = "steps")
    BY <1>a, <2>1 DEF StageTypes
  <2>3. \A c \in Builder : staged'[c] = "whole" => bpc'[c] \in {"install", "dead"} \/ (bpc'[c] = "push" /\ job'[c].inVM)
    BY <1>a, <2>1, <2>2 DEF Removable
  <2>4. ASSUME NEW c \in Builder, NEW t \in Stage, stageImg'[c][t].there PROVE t \in stageSqfs'[c]
    <3>1. CASE UNCHANGED <<stageImg, stageSqfs>>
      BY <1>a, <2>4, <3>1 DEF Removable
    <3>2. CASE ~UNCHANGED <<stageImg, stageSqfs>>
      <4>1. /\ stageImg' = [stageImg EXCEPT ![b][cur[b]] = File(BaseData(b) \cup upper[b])]
            /\ stageSqfs' = [stageSqfs EXCEPT ![b] = @ \cup {cur[b]}]
        BY <1>8, <3>2 DEF Finish
      <4>2. \/ c = b /\ t = cur[b]
            \/ stageImg'[c][t] = stageImg[c][t]
        BY <1>a, <4>1 DEF StageTypes
      <4>3. stageSqfs[c] \subseteq stageSqfs'[c] /\ cur[b] \in stageSqfs'[b]
        BY <1>a, <4>1 DEF StageTypes
      <4> QED
        BY <1>a, <2>4, <4>2, <4>3 DEF Removable
    <3> QED
      BY <3>1, <3>2
  <2> QED
    BY <2>3, <2>4 DEF Removable
<1>9. ASSUME NEW b \in Builder, CleanupAll(b) PROVE Removable'
  BY <1>a, <1>9 DEF CleanupAll, Goes, Removable, StageTypes, PublishTypes, File, Missing
<1>10. ASSUME NEW b \in Builder, CheckGuestOutput(b) PROVE Removable'
  BY <1>a, <1>10 DEF CheckGuestOutput, Removable, StageTypes, PublishTypes, File, Missing
<1>11. ASSUME NEW b \in Builder, BuildDies(b) PROVE Removable'
  BY <1>a, <1>11 DEF BuildDies, Goes, Removable, StageTypes, PublishTypes, File, Missing
<1>12. ASSUME NEW b \in Builder, NEW ok \in BOOLEAN, WriteSidecar(b, ok) PROVE Removable'
  BY <1>a, <1>12 DEF WriteSidecar, Goes, Gives, Told, Removable, StageTypes, PublishTypes, File, Missing
<1>13. ASSUME NEW b \in Builder, NEW ok \in BOOLEAN, PushStageImage(b, ok) PROVE Removable'
  BY <1>a, <1>13, ZenonT(60) DEF PushStageImage, Goes, GivesUp, Gives, Told, Removable, StageTypes, PublishTypes, File, Missing
<1>14. ASSUME NEW b \in Builder, NEW ok \in BOOLEAN, InstallSidecar(b, ok) PROVE Removable'
  BY <1>a, <1>14, ZenonT(60) DEF InstallSidecar, Goes, GivesUp, Gives, Told, Removable, StageTypes, PublishTypes, File, Missing
<1>15. ASSUME NEW b \in Builder, NEW ok \in BOOLEAN, InstallImage(b, ok) PROVE Removable'
  <2>1. bpc[b] = "image" /\ UNCHANGED job
        /\ \E p \in {"push", "cleanup"} : bpc' = [bpc EXCEPT ![b] = p]
        /\ (UNCHANGED staged \/ staged' = [staged EXCEPT ![b] = "none"])
    BY <1>15 DEF InstallImage, Installed, GivesUp, Gives, Goes
  <2>2. staged[b] # "whole"
    BY <1>a, <2>1 DEF Removable
  <2>3. \A c \in Builder : staged'[c] = "whole" => c # b /\ staged[c] = "whole" /\ bpc'[c] = bpc[c]
    <3>1. staged'[b] # "whole"
      BY <1>a, <2>1, <2>2 DEF PublishTypes
    <3>2. \A c \in Builder : c # b => staged'[c] = staged[c]
      BY <1>a, <2>1 DEF PublishTypes
    <3>3. \A c \in Builder : c # b => bpc'[c] = bpc[c]
      BY <1>a, <2>1 DEF StageTypes
    <3> QED
      BY <3>1, <3>2, <3>3
  <2>4. ASSUME NEW c \in Builder, NEW t \in Stage, stageImg'[c][t].there PROVE t \in stageSqfs'[c]
    <3>1. CASE UNCHANGED <<stageImg, stageSqfs>>
      BY <1>a, <2>4, <3>1 DEF Removable
    <3>2. CASE ~UNCHANGED <<stageImg, stageSqfs>>
      <4>1. /\ stageImg' = [stageImg EXCEPT ![b][LastStage(b)] = Missing]
            /\ stageSqfs' = [stageSqfs EXCEPT ![b] = @ \ {LastStage(b)}]
        BY <1>15, <3>2 DEF InstallImage, Installed
      <4>2. /\ ~(c = b /\ t = LastStage(b))
            /\ stageImg'[c][t] = stageImg[c][t]
        BY <1>a, <2>4, <4>1 DEF StageTypes, Missing
      <4>3. \A u \in stageSqfs[c] : u \in stageSqfs'[c] \/ (c = b /\ u = LastStage(b))
        BY <1>a, <4>1 DEF StageTypes
      <4> QED
        BY <1>a, <2>4, <4>2, <4>3 DEF Removable
    <3> QED
      BY <3>1, <3>2
  <2> QED
    BY <1>a, <2>1, <2>3, <2>4 DEF Removable
<1>16. ASSUME NEW b \in Builder, NEW s \in Stage, SweepContainer(b, s) PROVE Removable'
  BY <1>a, <1>16 DEF SweepContainer, Wipes, Removable, StageTypes, PublishTypes, File, Missing
<1>17. ASSUME NEW b \in Builder, NEW s \in Stage, SweepDir(b, s) PROVE Removable'
  BY <1>a, <1>17 DEF SweepDir, Wipes, Removable, StageTypes, PublishTypes, File, Missing
<1>18. ASSUME NEW b \in Builder, NEW s \in Stage, SweepImage(b, s) PROVE Removable'
  BY <1>a, <1>18 DEF SweepImage, Removable, StageTypes, PublishTypes, File, Missing
<1>19. ASSUME NEW scope \in {"all", "orphans", "images"}, SweepLists(scope) PROVE Removable'
  BY <1>a, <1>19 DEF SweepLists, Removable, StageTypes, PublishTypes, File, Missing
<1>20. ASSUME SweepEnds PROVE Removable'
  BY <1>a, <1>20 DEF SweepEnds, Removable, StageTypes, PublishTypes, File, Missing
<1> QED
  BY <1>1, <1>2, <1>3, <1>4, <1>5, <1>6, <1>7, <1>8, <1>9, <1>10, <1>11, <1>12,
     <1>13, <1>14, <1>15, <1>16, <1>17, <1>18, <1>19, <1>20 DEF BuildNext

\* A build that has ended has left nothing.
LEMMA NothingLeftStep ==
  ASSUME BuildInv, BuildNext
  PROVE  NothingLeft'
<1>a. StageTypes /\ PublishTypes /\ Removable /\ NothingLeft
  BY DEF BuildInv
<1> USE DEF tagVars, stageVars, sideVars, restVars
<1>1. ASSUME NEW b \in Builder, Begin(b) PROVE NothingLeft'
  BY <1>a, <1>1 DEF Begin, Goes, NothingLeft, Removable, StageTypes, PublishTypes, File, Missing
<1>2. ASSUME NEW b \in Builder, ResolveBase(b) PROVE NothingLeft'
  BY <1>a, <1>2 DEF ResolveBase, Goes, NothingLeft, Removable, StageTypes, PublishTypes, File, Missing
<1>3. ASSUME NEW b \in Builder, ApplyCopy(b) PROVE NothingLeft'
  BY <1>a, <1>3 DEF ApplyCopy, Goes, ToDo, Gives, Told, Advance, NothingLeft, Removable, StageTypes, PublishTypes, File, Missing
<1>4. ASSUME NEW b \in Builder, ApplyLabel(b) PROVE NothingLeft'
  BY <1>a, <1>4 DEF ApplyLabel, Goes, ToDo, Advance, NothingLeft, Removable, StageTypes, PublishTypes, File, Missing
<1>5. ASSUME NEW b \in Builder, BuildRun(b) PROVE NothingLeft'
  BY <1>a, <1>5 DEF BuildRun, Goes, ToDo, Gives, Told, NothingLeft, Removable, StageTypes, PublishTypes, File, Missing
<1>6. ASSUME NEW b \in Builder, BuildRunEnds(b) PROVE NothingLeft'
  BY <1>a, <1>6 DEF BuildRunEnds, Goes, Advance, NothingLeft, Removable, StageTypes, PublishTypes, File, Missing
<1>7. ASSUME NEW b \in Builder, StageFails(b) PROVE NothingLeft'
  BY <1>a, <1>7 DEF StageFails, Goes, Gives, Told, NothingLeft, Removable, StageTypes, PublishTypes, File, Missing
<1>8. ASSUME NEW b \in Builder, Finish(b) PROVE NothingLeft'
  BY <1>a, <1>8 DEF Finish, Goes, Gives, Told, NothingLeft, Removable, StageTypes, PublishTypes, File, Missing
<1>9. ASSUME NEW b \in Builder, CleanupAll(b) PROVE NothingLeft'
  BY <1>a, <1>9 DEF CleanupAll, Goes, NothingLeft, Removable, StageTypes, PublishTypes, File, Missing
<1>10. ASSUME NEW b \in Builder, CheckGuestOutput(b) PROVE NothingLeft'
  BY <1>a, <1>10 DEF CheckGuestOutput, NothingLeft, Removable, StageTypes, PublishTypes, File, Missing
<1>11. ASSUME NEW b \in Builder, BuildDies(b) PROVE NothingLeft'
  BY <1>a, <1>11 DEF BuildDies, Goes, NothingLeft, Removable, StageTypes, PublishTypes, File, Missing
<1>12. ASSUME NEW b \in Builder, NEW ok \in BOOLEAN, WriteSidecar(b, ok) PROVE NothingLeft'
  BY <1>a, <1>12 DEF WriteSidecar, Goes, Gives, Told, NothingLeft, Removable, StageTypes, PublishTypes, File, Missing
<1>13. ASSUME NEW b \in Builder, NEW ok \in BOOLEAN, PushStageImage(b, ok) PROVE NothingLeft'
  <2>1. /\ bpc[b] = "push" /\ UNCHANGED <<stageImg, conDirs, recs>>
        /\ \E p \in {"install", "cleanup"} : bpc' = [bpc EXCEPT ![b] = p]
        /\ (UNCHANGED staged \/ staged' = [staged EXCEPT ![b] = "none"])
    BY <1>13 DEF PushStageImage, GivesUp, Gives, Goes
  <2>2. \A c \in Builder : bpc'[c] = "ended" => bpc[c] = "ended" /\ staged'[c] = staged[c]
    BY <1>a, <2>1 DEF StageTypes, PublishTypes
  <2> QED
    BY <1>a, <2>1, <2>2 DEF NothingLeft
<1>14. ASSUME NEW b \in Builder, NEW ok \in BOOLEAN, InstallSidecar(b, ok) PROVE NothingLeft'
  BY <1>a, <1>14, ZenonT(60) DEF InstallSidecar, Goes, GivesUp, Gives, Told, NothingLeft, Removable, StageTypes, PublishTypes, File, Missing
<1>15. ASSUME NEW b \in Builder, NEW ok \in BOOLEAN, InstallImage(b, ok) PROVE NothingLeft'
  BY <1>a, <1>15 DEF InstallImage, Goes, Installed, GivesUp, Gives, Told, NothingLeft, Removable, StageTypes, PublishTypes, File, Missing
<1>16. ASSUME NEW b \in Builder, NEW s \in Stage, SweepContainer(b, s) PROVE NothingLeft'
  BY <1>a, <1>16 DEF SweepContainer, Wipes, NothingLeft, Removable, StageTypes, PublishTypes, File, Missing
<1>17. ASSUME NEW b \in Builder, NEW s \in Stage, SweepDir(b, s) PROVE NothingLeft'
  BY <1>a, <1>17 DEF SweepDir, Wipes, NothingLeft, Removable, StageTypes, PublishTypes, File, Missing
<1>18. ASSUME NEW b \in Builder, NEW s \in Stage, SweepImage(b, s) PROVE NothingLeft'
  BY <1>a, <1>18 DEF SweepImage, NothingLeft, Removable, StageTypes, PublishTypes, File, Missing
<1>19. ASSUME NEW scope \in {"all", "orphans", "images"}, SweepLists(scope) PROVE NothingLeft'
  BY <1>a, <1>19 DEF SweepLists, NothingLeft, Removable, StageTypes, PublishTypes, File, Missing
<1>20. ASSUME SweepEnds PROVE NothingLeft'
  BY <1>a, <1>20 DEF SweepEnds, NothingLeft, Removable, StageTypes, PublishTypes, File, Missing
<1> QED
  BY <1>1, <1>2, <1>3, <1>4, <1>5, <1>6, <1>7, <1>8, <1>9, <1>10, <1>11, <1>12,
     <1>13, <1>14, <1>15, <1>16, <1>17, <1>18, <1>19, <1>20 DEF BuildNext

\* What a build works on keeps its types.
LEMMA StageTypesStep ==
  ASSUME BuildInv, BuildNext
  PROVE  StageTypes'
<1>a. StageTypes /\ PublishTypes /\ AtStage
  BY DEF BuildInv
<1> USE DEF tagVars, stageVars, sideVars, restVars
<1>1. ASSUME NEW b \in Builder, Begin(b) PROVE StageTypes'
  BY <1>a, <1>1 DEF Begin, Goes, StageTypes, BuildPlaces
<1>2. ASSUME NEW b \in Builder, ResolveBase(b) PROVE StageTypes'
  <2>0. bpc[b] # "idle"
    BY <1>2 DEF ResolveBase
  <2>a. /\ cur[b] \in Stage /\ cur[b] <= LastStage(b) /\ LastStage(b) \in Stage
        /\ At(b).from \in 0..MaxStage /\ At(b).from < cur[b] /\ Mark(b) \in Nat \X Nat
    BY <1>a, <2>0, AtWork
  <2>1. UNCHANGED <<job, cur, step, stageImg, stageSqfs, maps, recs>>
    BY <1>2 DEF ResolveBase, Goes
  <2>2. bpc' \in [Builder -> BuildPlaces]
    BY <1>a, <1>2 DEF ResolveBase, Goes, StageTypes, BuildPlaces
  <2>3. upper' \in [Builder -> Marks]
    BY <1>a, <1>2 DEF ResolveBase, StageTypes, Marks
  <2>4. conDirs' \subseteq Builder \X Stage
    BY <1>a, <1>2, <2>a DEF ResolveBase, StageTypes
  <2>5. mapOf' \in [Builder -> [Stage -> 0..MaxStage]]
    <3>1. PICK m : mapOf' = [mapOf EXCEPT ![b][cur[b]] = m] /\ m = IF At(b).from = 0 THEN 0 ELSE mapOf[b][At(b).from]
      BY <1>2 DEF ResolveBase
    <3>2. m \in 0..MaxStage
      BY <1>a, <2>a, <3>1, BuildSizes DEF StageTypes, Stage
    <3> QED
      BY <1>a, <2>a, <3>1, <3>2 DEF StageTypes
  <2> QED
    BY <1>a, <2>1, <2>2, <2>3, <2>4, <2>5 DEF StageTypes
<1>3. ASSUME NEW b \in Builder, ApplyCopy(b) PROVE StageTypes'
  <2>0. bpc[b] # "idle"
    BY <1>3 DEF ApplyCopy, ToDo
  <2>a. /\ cur[b] \in Stage /\ cur[b] <= LastStage(b) /\ LastStage(b) \in Stage
        /\ At(b).from \in 0..MaxStage /\ At(b).from < cur[b] /\ Mark(b) \in Nat \X Nat
    BY <1>a, <2>0, AtWork
  <2>1. UNCHANGED <<job, cur, stageImg, stageSqfs, mapOf, maps, recs>>
    BY <1>3 DEF ApplyCopy, Goes, ToDo, Gives, Told, Advance
  <2>2. bpc' \in [Builder -> BuildPlaces]
    BY <1>a, <1>3 DEF ApplyCopy, Goes, ToDo, Gives, Told, Advance, StageTypes, BuildPlaces
  <2>3. step' \in [Builder -> Nat \ {0}]
    BY <1>a, <1>3 DEF ApplyCopy, Goes, ToDo, Gives, Told, Advance, StageTypes, BuildPlaces
  <2>4. conDirs' \subseteq Builder \X Stage
    BY <1>a, <1>3, <2>a DEF ApplyCopy, StageTypes
  <2>5. upper' \in [Builder -> Marks]
    <3>0. Instr(b).stage \in Stage
      BY <1>a, <1>3, AnInstruction DEF ApplyCopy
    <3>1. stageImg[b][Instr(b).stage].data \subseteq Nat \X Nat
      BY <1>a, <3>0 DEF StageTypes, Marks
    <3>2. CASE UNCHANGED upper
      BY <1>a, <3>2 DEF StageTypes
    <3>3. CASE ~UNCHANGED upper
      <4>1. PICK more : upper' = [upper EXCEPT ![b] = @ \cup more] /\ more \subseteq Nat \X Nat
        <5>1. PICK more : more = {Mark(b)} \cup (IF Instr(b).op = "take" THEN stageImg[b][Instr(b).stage].data ELSE {})
          OBVIOUS
        <5>2. upper' = [upper EXCEPT ![b] = @ \cup more]
          BY <1>3, <3>3, <5>1 DEF ApplyCopy
        <5>3. more \subseteq Nat \X Nat
          BY <5>1, <3>1, <2>a
        <5> QED
          BY <5>2, <5>3
      <4> QED
        BY <1>a, <4>1 DEF StageTypes, Marks
    <3> QED
      BY <3>2, <3>3
  <2> QED
    BY <1>a, <2>1, <2>2, <2>3, <2>4, <2>5 DEF StageTypes
<1>4. ASSUME NEW b \in Builder, ApplyLabel(b) PROVE StageTypes'
  <2>0. bpc[b] # "idle"
    BY <1>4 DEF ApplyLabel, ToDo
  <2>a. /\ cur[b] \in Stage /\ cur[b] <= LastStage(b) /\ LastStage(b) \in Stage
        /\ At(b).from \in 0..MaxStage /\ At(b).from < cur[b] /\ Mark(b) \in Nat \X Nat
    BY <1>a, <2>0, AtWork
  <2>b. PICK m : /\ m = IF mapOf[b][cur[b]] = 0 THEN cur[b] ELSE mapOf[b][cur[b]]
                 /\ mapOf' = [mapOf EXCEPT ![b][cur[b]] = m] /\ maps' = [maps EXCEPT ![b][m] = @ \cup {Mark(b)}]
    BY <1>4 DEF ApplyLabel
  <2>c. m \in Stage
    BY <1>a, <2>a, <2>b, BuildSizes DEF StageTypes, Stage
  <2>1. UNCHANGED <<job, bpc, cur, upper, stageImg, stageSqfs, conDirs, recs>>
    BY <1>4 DEF ApplyLabel, Goes, ToDo, Advance
  <2>2. step' \in [Builder -> Nat \ {0}]
    BY <1>a, <1>4 DEF ApplyLabel, Goes, ToDo, Advance, StageTypes, BuildPlaces
  <2>3. mapOf' \in [Builder -> [Stage -> 0..MaxStage]]
    <3>1. m \in 0..MaxStage
      BY <2>c, BuildSizes DEF Stage
    <3> QED
      BY <1>a, <2>a, <2>b, <3>1 DEF StageTypes
  <2>4. maps' \in [Builder -> [Stage -> Marks]]
    BY <1>a, <2>a, <2>b, <2>c DEF StageTypes, Marks
  <2> QED
    BY <1>a, <2>1, <2>2, <2>3, <2>4 DEF StageTypes
<1>5. ASSUME NEW b \in Builder, BuildRun(b) PROVE StageTypes'
  <2>0. bpc[b] # "idle"
    BY <1>5 DEF BuildRun, ToDo
  <2>a. /\ cur[b] \in Stage /\ cur[b] <= LastStage(b) /\ LastStage(b) \in Stage
        /\ At(b).from \in 0..MaxStage /\ At(b).from < cur[b] /\ Mark(b) \in Nat \X Nat
    BY <1>a, <2>0, AtWork
  <2>1. UNCHANGED <<job, cur, step, upper, stageImg, stageSqfs, mapOf, maps, conDirs>>
    BY <1>5 DEF BuildRun, Goes, ToDo, Gives, Told
  <2>2. bpc' \in [Builder -> BuildPlaces]
    BY <1>a, <1>5 DEF BuildRun, Goes, ToDo, Gives, Told, StageTypes, BuildPlaces
  <2>3. recs' \subseteq Builder \X Stage
    BY <1>a, <1>5, <2>a DEF BuildRun, StageTypes
  <2> QED
    BY <1>a, <2>1, <2>2, <2>3 DEF StageTypes
<1>6. ASSUME NEW b \in Builder, BuildRunEnds(b) PROVE StageTypes'
  <2>0. bpc[b] # "idle"
    BY <1>6 DEF BuildRunEnds
  <2>a. /\ cur[b] \in Stage /\ cur[b] <= LastStage(b) /\ LastStage(b) \in Stage
        /\ At(b).from \in 0..MaxStage /\ At(b).from < cur[b] /\ Mark(b) \in Nat \X Nat
    BY <1>a, <2>0, AtWork
  <2>1. UNCHANGED <<job, cur, stageImg, stageSqfs, mapOf, maps, conDirs, recs>>
    BY <1>6 DEF BuildRunEnds, Goes, Advance
  <2>2. bpc' \in [Builder -> BuildPlaces]
    BY <1>a, <1>6 DEF BuildRunEnds, Goes, Advance, StageTypes, BuildPlaces
  <2>3. step' \in [Builder -> Nat \ {0}]
    BY <1>a, <1>6 DEF BuildRunEnds, Goes, Advance, StageTypes, BuildPlaces
  <2>4. upper' \in [Builder -> Marks]
    BY <1>a, <1>6, <2>a DEF BuildRunEnds, StageTypes, Marks
  <2> QED
    BY <1>a, <2>1, <2>2, <2>3, <2>4 DEF StageTypes
<1>7. ASSUME NEW b \in Builder, StageFails(b) PROVE StageTypes'
  BY <1>a, <1>7 DEF StageFails, Goes, Gives, Told, StageTypes, BuildPlaces
<1>8. ASSUME NEW b \in Builder, Finish(b) PROVE StageTypes'
  <2>0. bpc[b] # "idle"
    BY <1>8 DEF Finish
  <2>a. /\ cur[b] \in Stage /\ cur[b] <= LastStage(b) /\ LastStage(b) \in Stage
        /\ At(b).from \in 0..MaxStage /\ At(b).from < cur[b] /\ Mark(b) \in Nat \X Nat
    BY <1>a, <2>0, AtWork
  <2>1. UNCHANGED <<job, upper, mapOf, maps, recs>>
    BY <1>8 DEF Finish, Goes, Gives, Told
  <2>2. bpc' \in [Builder -> BuildPlaces]
    BY <1>a, <1>8 DEF Finish, Goes, Gives, Told, StageTypes, BuildPlaces
  <2>3. cur' \in [Builder -> Nat \ {0}]
    <3>1. UNCHANGED cur \/ cur' = [cur EXCEPT ![b] = cur[b] + 1]
      BY <1>8 DEF Finish
    <3> QED
      BY <1>a, <3>1 DEF StageTypes
  <2>4. step' \in [Builder -> Nat \ {0}]
    <3>1. UNCHANGED step \/ step' = [step EXCEPT ![b] = 1]
      BY <1>8 DEF Finish
    <3>2. step \in [Builder -> Nat \ {0}] /\ 1 \in Nat \ {0}
      BY <1>a DEF StageTypes
    <3> QED
      BY <3>1, <3>2
  <2>5. conDirs' \subseteq Builder \X Stage
    BY <1>a, <1>8, <2>a DEF Finish, StageTypes
  <2>6. stageSqfs' \in [Builder -> SUBSET Nat]
    <3>1. UNCHANGED stageSqfs \/ stageSqfs' = [stageSqfs EXCEPT ![b] = @ \cup {cur[b]}]
      BY <1>8 DEF Finish
    <3> QED
      BY <1>a, <3>1, ZenonT(60) DEF StageTypes
  <2>7. stageImg' \in [Builder -> [Stage -> [there : BOOLEAN, data : Marks]]]
    <3>1. CASE UNCHANGED stageImg
      BY <1>a, <3>1 DEF StageTypes
    <3>2. CASE ~UNCHANGED stageImg
      <4>1. PICK f : stageImg' = [stageImg EXCEPT ![b][cur[b]] = f] /\ f = File(BaseData(b) \cup upper[b])
        BY <1>8, <3>2 DEF Finish
      <4>2. f \in [there : BOOLEAN, data : Marks]
        <5>1. BaseData(b) \in Marks /\ upper[b] \in Marks
          BY <1>a, <2>0, SomeMarks DEF StageTypes
        <5>2. BaseData(b) \cup upper[b] \in Marks
          BY <5>1 DEF Marks
        <5> QED
          BY <4>1, <5>2 DEF File
      <4> QED
        BY <1>a, <2>a, <4>1, <4>2 DEF StageTypes
    <3> QED
      BY <3>1, <3>2
  <2> QED
    BY <1>a, <2>1, <2>2, <2>3, <2>4, <2>5, <2>6, <2>7 DEF StageTypes
<1>9. ASSUME NEW b \in Builder, CleanupAll(b) PROVE StageTypes'
  <2>1. UNCHANGED <<job, cur, step, upper, mapOf, maps>>
    BY <1>9 DEF CleanupAll, Goes
  <2>2. bpc' \in [Builder -> BuildPlaces]
    BY <1>a, <1>9 DEF CleanupAll, Goes, StageTypes, BuildPlaces
  <2>3. conDirs' \subseteq Builder \X Stage
    BY <1>a, <1>9 DEF CleanupAll, StageTypes
  <2>4. recs' \subseteq Builder \X Stage
    BY <1>a, <1>9 DEF CleanupAll, StageTypes
  <2>5. stageSqfs' \in [Builder -> SUBSET Nat]
    BY <1>a, <1>9 DEF CleanupAll, Goes, StageTypes, BuildPlaces
  <2>6. stageImg' \in [Builder -> [Stage -> [there : BOOLEAN, data : Marks]]]
    BY <1>a, <1>9 DEF CleanupAll, StageTypes, Missing, Marks
  <2> QED
    BY <1>a, <2>1, <2>2, <2>3, <2>4, <2>5, <2>6 DEF StageTypes
<1>10. ASSUME NEW b \in Builder, CheckGuestOutput(b) PROVE StageTypes'
  BY <1>a, <1>10 DEF CheckGuestOutput, StageTypes, BuildPlaces
<1>11. ASSUME NEW b \in Builder, BuildDies(b) PROVE StageTypes'
  BY <1>a, <1>11 DEF BuildDies, Goes, StageTypes, BuildPlaces
<1>12. ASSUME NEW b \in Builder, NEW ok \in BOOLEAN, WriteSidecar(b, ok) PROVE StageTypes'
  BY <1>a, <1>12 DEF WriteSidecar, Goes, Gives, Told, StageTypes, BuildPlaces
<1>13. ASSUME NEW b \in Builder, NEW ok \in BOOLEAN, PushStageImage(b, ok) PROVE StageTypes'
  BY <1>a, <1>13 DEF PushStageImage, Goes, GivesUp, Gives, Told, StageTypes, BuildPlaces
<1>14. ASSUME NEW b \in Builder, NEW ok \in BOOLEAN, InstallSidecar(b, ok) PROVE StageTypes'
  BY <1>a, <1>14 DEF InstallSidecar, Goes, GivesUp, Gives, Told, StageTypes, BuildPlaces
<1>15. ASSUME NEW b \in Builder, NEW ok \in BOOLEAN, InstallImage(b, ok) PROVE StageTypes'
  <2>1. UNCHANGED <<job, cur, step, upper, mapOf, maps, conDirs, recs>>
    BY <1>15 DEF InstallImage, Goes, Installed, GivesUp, Gives, Told
  <2>2. bpc' \in [Builder -> BuildPlaces]
    BY <1>a, <1>15 DEF InstallImage, Goes, Installed, GivesUp, Gives, Told, StageTypes, BuildPlaces
  <2>3. stageSqfs' \in [Builder -> SUBSET Nat]
    <3>1. UNCHANGED stageSqfs \/ stageSqfs' = [stageSqfs EXCEPT ![b] = @ \ {LastStage(b)}]
      BY <1>15 DEF InstallImage, Installed
    <3> QED
      BY <1>a, <3>1 DEF StageTypes
  <2>4. stageImg' \in [Builder -> [Stage -> [there : BOOLEAN, data : Marks]]]
    <3>1. UNCHANGED stageImg \/ stageImg' = [stageImg EXCEPT ![b][LastStage(b)] = Missing]
      BY <1>15 DEF InstallImage, Installed
    <3>2. Missing \in [there : BOOLEAN, data : Marks]
      BY DEF Missing, Marks
    <3>3. CASE UNCHANGED stageImg
      BY <1>a, <3>3 DEF StageTypes
    <3>4. CASE stageImg' = [stageImg EXCEPT ![b][LastStage(b)] = Missing]
      BY <1>a, <3>2, <3>4 DEF StageTypes
    <3> QED
      BY <3>1, <3>3, <3>4
  <2> QED
    BY <1>a, <2>1, <2>2, <2>3, <2>4 DEF StageTypes
<1>16. ASSUME NEW b \in Builder, NEW s \in Stage, SweepContainer(b, s) PROVE StageTypes'
  <2>1. UNCHANGED <<job, bpc, cur, step, stageImg, stageSqfs, mapOf, maps>>
    BY <1>16 DEF SweepContainer, Wipes
  <2>2. upper' \in [Builder -> Marks]
    BY <1>a, <1>16 DEF SweepContainer, Wipes, StageTypes, Marks
  <2>3. conDirs' \subseteq Builder \X Stage
    BY <1>a, <1>16 DEF SweepContainer, Wipes, StageTypes, BuildPlaces
  <2>4. recs' \subseteq Builder \X Stage
    BY <1>a, <1>16 DEF SweepContainer, Wipes, StageTypes, BuildPlaces
  <2> QED
    BY <1>a, <2>1, <2>2, <2>3, <2>4 DEF StageTypes
<1>17. ASSUME NEW b \in Builder, NEW s \in Stage, SweepDir(b, s) PROVE StageTypes'
  <2>1. UNCHANGED <<job, bpc, cur, step, stageImg, stageSqfs, mapOf, maps, recs>>
    BY <1>17 DEF SweepDir, Wipes
  <2>2. upper' \in [Builder -> Marks]
    BY <1>a, <1>17 DEF SweepDir, Wipes, StageTypes, Marks
  <2>3. conDirs' \subseteq Builder \X Stage
    BY <1>a, <1>17 DEF SweepDir, Wipes, StageTypes, BuildPlaces
  <2> QED
    BY <1>a, <2>1, <2>2, <2>3 DEF StageTypes
<1>18. ASSUME NEW b \in Builder, NEW s \in Stage, SweepImage(b, s) PROVE StageTypes'
  <2>1. UNCHANGED <<job, bpc, cur, step, upper, stageSqfs, mapOf, maps, conDirs, recs>>
    BY <1>18 DEF SweepImage
  <2>2. stageImg' \in [Builder -> [Stage -> [there : BOOLEAN, data : Marks]]]
    BY <1>a, <1>18 DEF SweepImage, StageTypes, Missing, Marks
  <2> QED
    BY <1>a, <2>1, <2>2 DEF StageTypes
<1>19. ASSUME NEW scope \in {"all", "orphans", "images"}, SweepLists(scope) PROVE StageTypes'
  BY <1>a, <1>19 DEF SweepLists, StageTypes, BuildPlaces
<1>20. ASSUME SweepEnds PROVE StageTypes'
  BY <1>a, <1>20 DEF SweepEnds, StageTypes, BuildPlaces
<1> QED
  BY <1>1, <1>2, <1>3, <1>4, <1>5, <1>6, <1>7, <1>8, <1>9, <1>10, <1>11, <1>12,
     <1>13, <1>14, <1>15, <1>16, <1>17, <1>18, <1>19, <1>20 DEF BuildNext

\* A build stays within its Dockerfile.
LEMMA AtStageStep ==
  ASSUME BuildInv, BuildNext
  PROVE  AtStage'
<1>a. StageTypes /\ AtStage
  BY DEF BuildInv
<1> USE DEF tagVars, stageVars, sideVars, restVars
<1>1. ASSUME NEW b \in Builder, Begin(b) PROVE AtStage'
  BY <1>a, <1>1 DEF Begin, Goes, StageTypes, AtStage, LastStage, Doc
<1>2. ASSUME NEW b \in Builder, ResolveBase(b) PROVE AtStage'
  BY <1>a, <1>2 DEF ResolveBase, Goes, StageTypes, AtStage, LastStage, Doc
<1>3. ASSUME NEW b \in Builder, ApplyCopy(b) PROVE AtStage'
  BY <1>a, <1>3 DEF ApplyCopy, Goes, ToDo, Gives, Told, Advance, StageTypes, AtStage, LastStage, Doc
<1>4. ASSUME NEW b \in Builder, ApplyLabel(b) PROVE AtStage'
  BY <1>a, <1>4 DEF ApplyLabel, Goes, ToDo, Advance, StageTypes, AtStage, LastStage, Doc
<1>5. ASSUME NEW b \in Builder, BuildRun(b) PROVE AtStage'
  BY <1>a, <1>5 DEF BuildRun, Goes, ToDo, Gives, Told, StageTypes, AtStage, LastStage, Doc
<1>6. ASSUME NEW b \in Builder, BuildRunEnds(b) PROVE AtStage'
  BY <1>a, <1>6 DEF BuildRunEnds, Goes, Advance, StageTypes, AtStage, LastStage, Doc
<1>7. ASSUME NEW b \in Builder, StageFails(b) PROVE AtStage'
  BY <1>a, <1>7 DEF StageFails, Goes, Gives, Told, StageTypes, AtStage, LastStage, Doc
<1>8. ASSUME NEW b \in Builder, Finish(b) PROVE AtStage'
  BY <1>a, <1>8 DEF Finish, Goes, Gives, Told, StageTypes, AtStage, LastStage, Doc
<1>9. ASSUME NEW b \in Builder, CleanupAll(b) PROVE AtStage'
  BY <1>a, <1>9 DEF CleanupAll, Goes, StageTypes, AtStage, LastStage, Doc
<1>10. ASSUME NEW b \in Builder, CheckGuestOutput(b) PROVE AtStage'
  BY <1>a, <1>10 DEF CheckGuestOutput, StageTypes, AtStage, LastStage, Doc
<1>11. ASSUME NEW b \in Builder, BuildDies(b) PROVE AtStage'
  BY <1>a, <1>11 DEF BuildDies, Goes, StageTypes, AtStage, LastStage, Doc
<1>12. ASSUME NEW b \in Builder, NEW ok \in BOOLEAN, WriteSidecar(b, ok) PROVE AtStage'
  BY <1>a, <1>12 DEF WriteSidecar, Goes, Gives, Told, StageTypes, AtStage, LastStage, Doc
<1>13. ASSUME NEW b \in Builder, NEW ok \in BOOLEAN, PushStageImage(b, ok) PROVE AtStage'
  BY <1>a, <1>13 DEF PushStageImage, Goes, GivesUp, Gives, Told, StageTypes, AtStage, LastStage, Doc
<1>14. ASSUME NEW b \in Builder, NEW ok \in BOOLEAN, InstallSidecar(b, ok) PROVE AtStage'
  BY <1>a, <1>14 DEF InstallSidecar, Goes, GivesUp, Gives, Told, StageTypes, AtStage, LastStage, Doc
<1>15. ASSUME NEW b \in Builder, NEW ok \in BOOLEAN, InstallImage(b, ok) PROVE AtStage'
  <2>1. bpc[b] = "image" /\ UNCHANGED <<job, cur>>
        /\ \E p \in {"push", "cleanup"} : bpc' = [bpc EXCEPT ![b] = p]
        /\ (UNCHANGED stageSqfs \/ stageSqfs' = [stageSqfs EXCEPT ![b] = @ \ {LastStage(b)}])
    BY <1>15 DEF InstallImage, Installed, GivesUp, Gives, Goes
  <2>2. \A c \in Builder : stageSqfs'[c] \subseteq stageSqfs[c]
    BY <1>a, <2>1, ZenonT(60) DEF StageTypes
  <2>3. \A c \in Builder : bpc'[c] = bpc[c] \/ (c = b /\ bpc[c] = "image")
    BY <1>a, <2>1 DEF StageTypes
  <2> QED
    BY <1>a, <2>1, <2>2, <2>3 DEF AtStage, LastStage, Doc
<1>16. ASSUME NEW b \in Builder, NEW s \in Stage, SweepContainer(b, s) PROVE AtStage'
  BY <1>a, <1>16 DEF SweepContainer, Wipes, StageTypes, AtStage, LastStage, Doc
<1>17. ASSUME NEW b \in Builder, NEW s \in Stage, SweepDir(b, s) PROVE AtStage'
  BY <1>a, <1>17 DEF SweepDir, Wipes, StageTypes, AtStage, LastStage, Doc
<1>18. ASSUME NEW b \in Builder, NEW s \in Stage, SweepImage(b, s) PROVE AtStage'
  BY <1>a, <1>18 DEF SweepImage, StageTypes, AtStage, LastStage, Doc
<1>19. ASSUME NEW scope \in {"all", "orphans", "images"}, SweepLists(scope) PROVE AtStage'
  BY <1>a, <1>19 DEF SweepLists, StageTypes, AtStage, LastStage, Doc
<1>20. ASSUME SweepEnds PROVE AtStage'
  BY <1>a, <1>20 DEF SweepEnds, StageTypes, AtStage, LastStage, Doc
<1> QED
  BY <1>1, <1>2, <1>3, <1>4, <1>5, <1>6, <1>7, <1>8, <1>9, <1>10, <1>11, <1>12,
     <1>13, <1>14, <1>15, <1>16, <1>17, <1>18, <1>19, <1>20 DEF BuildNext

\* What is published keeps its types.
LEMMA PublishTypesStep ==
  ASSUME BuildInv, BuildNext
  PROVE  PublishTypes'
<1>a. StageTypes /\ PublishTypes /\ AtStage
  BY DEF BuildInv
<1> USE DEF tagVars, stageVars, sideVars, restVars
<1>1. ASSUME NEW b \in Builder, Begin(b) PROVE PublishTypes'
  BY <1>a, <1>1 DEF Begin, Goes, PublishTypes, Published, Old
<1>2. ASSUME NEW b \in Builder, ResolveBase(b) PROVE PublishTypes'
  BY <1>a, <1>2 DEF ResolveBase, Goes, PublishTypes, Published, Old
<1>3. ASSUME NEW b \in Builder, ApplyCopy(b) PROVE PublishTypes'
  BY <1>a, <1>3 DEF ApplyCopy, Goes, ToDo, Gives, Told, Advance, PublishTypes, Published, Old
<1>4. ASSUME NEW b \in Builder, ApplyLabel(b) PROVE PublishTypes'
  BY <1>a, <1>4 DEF ApplyLabel, Goes, ToDo, Advance, PublishTypes, Published, Old
<1>5. ASSUME NEW b \in Builder, BuildRun(b) PROVE PublishTypes'
  BY <1>a, <1>5 DEF BuildRun, Goes, ToDo, Gives, Told, PublishTypes, Published, Old
<1>6. ASSUME NEW b \in Builder, BuildRunEnds(b) PROVE PublishTypes'
  BY <1>a, <1>6 DEF BuildRunEnds, Goes, Advance, PublishTypes, Published, Old
<1>7. ASSUME NEW b \in Builder, StageFails(b) PROVE PublishTypes'
  BY <1>a, <1>7 DEF StageFails, Goes, Gives, Told, PublishTypes, Published, Old
<1>8. ASSUME NEW b \in Builder, Finish(b) PROVE PublishTypes'
  BY <1>a, <1>8 DEF Finish, Goes, Gives, Told, PublishTypes, Published, Old
<1>9. ASSUME NEW b \in Builder, CleanupAll(b) PROVE PublishTypes'
  BY <1>a, <1>9 DEF CleanupAll, Goes, PublishTypes, Published, Old
<1>10. ASSUME NEW b \in Builder, CheckGuestOutput(b) PROVE PublishTypes'
  BY <1>a, <1>10 DEF CheckGuestOutput, PublishTypes, Published, Old
<1>11. ASSUME NEW b \in Builder, BuildDies(b) PROVE PublishTypes'
  BY <1>a, <1>11 DEF BuildDies, Goes, PublishTypes, Published, Old
<1>12. ASSUME NEW b \in Builder, NEW ok \in BOOLEAN, WriteSidecar(b, ok) PROVE PublishTypes'
  <2>1. UNCHANGED <<oldSidecar, tagImg, tagSide, before, installed, mixed>>
    BY <1>12 DEF WriteSidecar, Goes, Gives, Told
  <2>2. verdict' \in [Builder -> {"none", "ok", "failed"}]
    BY <1>a, <1>12 DEF WriteSidecar, Goes, Gives, Told, PublishTypes
  <2>3. staged' \in [Builder -> {"none", "part", "whole"}]
    BY <1>a, <1>12 DEF WriteSidecar, Goes, Gives, Told, PublishTypes
  <2>4. sidecarOf' \in [Builder -> Marks]
    <3>0. bpc[b] # "idle"
      BY <1>12 DEF WriteSidecar
    <3>1. LastStage(b) \in Stage
      BY <1>a, <3>0, AtWork
    <3>2. PICK m : /\ m = mapOf[b][LastStage(b)]
                   /\ sidecarOf' = [sidecarOf EXCEPT ![b] = IF m = 0 THEN {} ELSE maps[b][m]]
      BY <1>12 DEF WriteSidecar
    <3>3. m = 0 \/ m \in Stage
      BY <1>a, <3>1, <3>2, BuildSizes DEF StageTypes, Stage
    <3>4. (IF m = 0 THEN {} ELSE maps[b][m]) \in Marks
      BY <1>a, <3>3 DEF StageTypes, Marks
    <3> QED
      BY <1>a, <3>2, <3>4 DEF PublishTypes
  <2> QED
    BY <1>a, <2>1, <2>2, <2>3, <2>4 DEF PublishTypes
<1>13. ASSUME NEW b \in Builder, NEW ok \in BOOLEAN, PushStageImage(b, ok) PROVE PublishTypes'
  BY <1>a, <1>13 DEF PushStageImage, Goes, GivesUp, Gives, Told, PublishTypes, Published, Old
<1>14. ASSUME NEW b \in Builder, NEW ok \in BOOLEAN, InstallSidecar(b, ok) PROVE PublishTypes'
  <2>1. UNCHANGED <<sidecarOf, tagImg, before, installed>>
    BY <1>14 DEF InstallSidecar, Goes, GivesUp, Gives, Told
  <2>2. verdict' \in [Builder -> {"none", "ok", "failed"}]
    BY <1>a, <1>14 DEF InstallSidecar, Goes, GivesUp, Gives, Told, PublishTypes
  <2>3. staged' \in [Builder -> {"none", "part", "whole"}]
    BY <1>a, <1>14 DEF InstallSidecar, Goes, GivesUp, Gives, Told, PublishTypes
  <2>4. oldSidecar' \in [Builder -> Published]
    BY <1>a, <1>14 DEF InstallSidecar, PublishTypes
  <2>5. tagSide' \in Published
    <3>1. tagSide' = [by |-> b, data |-> sidecarOf[b]] \/ UNCHANGED tagSide
      BY <1>14 DEF InstallSidecar
    <3>2. sidecarOf[b] \in Marks
      BY <1>a DEF PublishTypes
    <3>3. [by |-> b, data |-> sidecarOf[b]] \in Published
      BY <3>2 DEF Published
    <3> QED
      BY <1>a, <3>1, <3>3 DEF PublishTypes
  <2>6. mixed' \in BOOLEAN
    <3>1. mixed' = (mixed \/ \E c \in Builder : bpc[c] = "image")
      BY <1>14 DEF InstallSidecar
    <3> QED
      BY <3>1, Zenon
  <2> QED
    BY <1>a, <2>1, <2>2, <2>3, <2>4, <2>5, <2>6 DEF PublishTypes
<1>15. ASSUME NEW b \in Builder, NEW ok \in BOOLEAN, InstallImage(b, ok) PROVE PublishTypes'
  <2>1. UNCHANGED <<sidecarOf, oldSidecar, before, mixed>>
    BY <1>15 DEF InstallImage, Goes, Installed, GivesUp, Gives, Told
  <2>2. verdict' \in [Builder -> {"none", "ok", "failed"}]
    BY <1>a, <1>15 DEF InstallImage, Goes, Installed, GivesUp, Gives, Told, PublishTypes
  <2>3. staged' \in [Builder -> {"none", "part", "whole"}]
    BY <1>a, <1>15 DEF InstallImage, Goes, Installed, GivesUp, Gives, Told, PublishTypes
  <2>4. tagSide' \in Published
    BY <1>a, <1>15 DEF InstallImage, Installed, PublishTypes
  <2>5. installed' \subseteq Builder
    BY <1>a, <1>15 DEF InstallImage, Installed, PublishTypes
  <2>6. tagImg' \in Published
    <3>0. bpc[b] # "idle"
      BY <1>15 DEF InstallImage
    <3>1. stageImg[b][LastStage(b)].data \in Marks
      BY <1>a, <3>0, SomeMarks
    <3>2. tagImg' = [by |-> b, data |-> stageImg[b][LastStage(b)].data] \/ UNCHANGED tagImg
      BY <1>15 DEF InstallImage, Installed
    <3>3. [by |-> b, data |-> stageImg[b][LastStage(b)].data] \in Published
      BY <3>1 DEF Published
    <3> QED
      BY <1>a, <3>2, <3>3 DEF PublishTypes
  <2> QED
    BY <1>a, <2>1, <2>2, <2>3, <2>4, <2>5, <2>6 DEF PublishTypes
<1>16. ASSUME NEW b \in Builder, NEW s \in Stage, SweepContainer(b, s) PROVE PublishTypes'
  BY <1>a, <1>16 DEF SweepContainer, Wipes, PublishTypes, Published, Old
<1>17. ASSUME NEW b \in Builder, NEW s \in Stage, SweepDir(b, s) PROVE PublishTypes'
  BY <1>a, <1>17 DEF SweepDir, Wipes, PublishTypes, Published, Old
<1>18. ASSUME NEW b \in Builder, NEW s \in Stage, SweepImage(b, s) PROVE PublishTypes'
  BY <1>a, <1>18 DEF SweepImage, PublishTypes, Published, Old
<1>19. ASSUME NEW scope \in {"all", "orphans", "images"}, SweepLists(scope) PROVE PublishTypes'
  BY <1>a, <1>19 DEF SweepLists, PublishTypes, Published, Old
<1>20. ASSUME SweepEnds PROVE PublishTypes'
  BY <1>a, <1>20 DEF SweepEnds, PublishTypes, Published, Old
<1> QED
  BY <1>1, <1>2, <1>3, <1>4, <1>5, <1>6, <1>7, <1>8, <1>9, <1>10, <1>11, <1>12,
     <1>13, <1>14, <1>15, <1>16, <1>17, <1>18, <1>19, <1>20 DEF BuildNext

\* A first state.
LEMMA BuildBegins == BuildInit => BuildInv
<1> SUFFICES ASSUME BuildInit PROVE BuildInv
  OBVIOUS
<1>0. Old \in Published
  BY DEF Old, Published, Marks
<1>1. StageTypes
  BY BuildSizes DEF BuildInit, StageTypes, BuildPlaces, Missing, Marks
<1>2. PublishTypes
  <2>1. tagImg \in Published /\ tagSide \in Published /\ before \in [Builder -> Published] /\ oldSidecar \in [Builder -> Published]
    BY <1>0 DEF BuildInit
  <2> QED
    BY <2>1 DEF BuildInit, PublishTypes, Marks
<1>3. AtStage
  <2>1. \A b \in Builder : bpc[b] = "idle" /\ cur[b] = 1 /\ stageSqfs[b] = {}
    BY DEF BuildInit
  <2> QED
    BY <2>1 DEF AtStage
<1>4. Between /\ TagMatches /\ Removable /\ NothingLeft
  BY DEF BuildInit, Between, TagMatches, Removable, NothingLeft, Missing
<1>5. Replaced /\ VerdictTrue
  BY BuildSizes DEF BuildInit, Replaced, VerdictTrue, Old
<1> QED
  BY <1>1, <1>2, <1>3, <1>4, <1>5 DEF BuildInv

\* What the invariant gives for the types.
LEMMA BuildTypes == BuildInv => BuildTypeOK
<1> SUFFICES ASSUME BuildInv PROVE BuildTypeOK
  OBVIOUS
<1>a. StageTypes /\ PublishTypes /\ AtStage
  BY DEF BuildInv
<1>1. ASSUME NEW b \in Builder
      PROVE  cur[b] \in 1..Max({1, LastStage(b)}) /\ stageSqfs[b] \subseteq 1..LastStage(b)
  <2>1. PICK n : n = LastStage(b)
    OBVIOUS
  <2>2. n \in Nat
    BY <1>a, <2>1, Documents, BuildSizes
  <2>3. Max({1, n}) = IF n >= 1 THEN n ELSE 1
    BY <2>2 DEF Max
  <2>4. cur[b] \in 1..n \/ cur[b] = 1
    BY <1>a, <2>1 DEF AtStage
  <2> QED
    BY <1>a, <2>1, <2>2, <2>3, <2>4 DEF AtStage
<1>2. tagImg.by \in Builder \cup {"old"} /\ tagSide.by \in Builder \cup {"old"}
  BY <1>a DEF PublishTypes, Published
<1>3. conDirs \subseteq Builder \X Stage /\ recs \subseteq Builder \X Stage
  BY <1>a DEF StageTypes
<1> QED
  BY <1>1, <1>2, <1>3 DEF BuildTypeOK

\* Every step keeps the invariant.
LEMMA BuildStep == BuildInv /\ [BuildNext]_buildVars => BuildInv'
<1> SUFFICES ASSUME BuildInv, [BuildNext]_buildVars PROVE BuildInv'
  OBVIOUS
<1>1. CASE BuildNext
  BY <1>1, StageTypesStep, PublishTypesStep, AtStageStep, BetweenStep, ReplacedStep, VerdictStep,
     RemovableStep, NothingLeftStep DEF BuildInv
<1>2. CASE UNCHANGED buildVars
  <2>1. StageTypes' /\ PublishTypes'
    BY <1>2 DEF BuildInv, StageTypes, PublishTypes, buildVars
  <2>2. AtStage' /\ Between' /\ TagMatches'
    BY <1>2 DEF BuildInv, AtStage, LastStage, Doc, Between, TagMatches, buildVars
  <2>3. Replaced' /\ VerdictTrue' /\ Removable' /\ NothingLeft'
    BY <1>2 DEF BuildInv, Replaced, VerdictTrue, Removable, NothingLeft, buildVars
  <2> QED
    BY <2>1, <2>2, <2>3 DEF BuildInv
<1> QED
  BY <1>1, <1>2

\* Whatever fails, dies or is cleared meanwhile: the tag's image and sidecar
\* are of one build outside the window between its renames (TagMatches), the
\* host is told the truth about a VM build (VerdictTrue), and a build that has
\* ended leaves nothing but what it published (NothingLeft), for builds of any
\* number and Dockerfiles of any size (publishImage, installImage, cleanupAll
\* and checkGuestBuildOutput).
THEOREM BuildsKeepTogether == BuildSpec => [](BuildTypeOK /\ TagMatches /\ VerdictTrue /\ NothingLeft)
<1>1. BuildInit => BuildInv
  BY BuildBegins
<1>2. BuildInv /\ [BuildNext]_buildVars => BuildInv'
  BY BuildStep
<1>3. BuildInv => BuildTypeOK /\ TagMatches /\ VerdictTrue /\ NothingLeft
  BY BuildTypes DEF BuildInv
<1> QED
  BY <1>1, <1>2, <1>3, PTL DEF BuildSpec

-----------------------------------------------------------------------------
(* What the stages of a Dockerfile are to hold.                            *)

\* A stage reaches itself, and what those it uses reach.
LEMMA ReachUnfolds ==
  ASSUME NEW uses, NEW s \in DOMAIN uses, \A r \in DOMAIN uses : uses[r] \subseteq DOMAIN uses
  PROVE  Reach(uses, s) = {s} \cup UNION {Reach(uses, t) : t \in uses[s]}
<1> DEFINE D == DOMAIN uses
           Closed(R) == \A r \in R : uses[r] \subseteq R
           U == {s} \cup UNION {Reach(uses, t) : t \in uses[s]}
<1>1. \A t, u : u \in Reach(uses, t) <=> u \in D /\ \A R \in SUBSET D : (t \in R /\ Closed(R)) => u \in R
  BY DEF Reach
<1> HIDE DEF Closed
<1>2. \A t \in uses[s] : t \in Reach(uses, t)
  BY <1>1
<1>3. ASSUME NEW u \in U PROVE u \in Reach(uses, s)
  <2>1. CASE u = s
    BY <1>1, <2>1
  <2>2. CASE \E t \in uses[s] : u \in Reach(uses, t)
    <3>1. PICK t \in uses[s] : u \in Reach(uses, t)
      BY <2>2
    <3>2. ASSUME NEW R \in SUBSET D, s \in R, Closed(R) PROVE u \in R
      <4>1. t \in R
        BY <3>2 DEF Closed
      <4> QED
        BY <1>1, <3>1, <3>2, <4>1
    <3> QED
      BY <1>1, <3>1, <3>2
  <2> QED
    BY <1>3, <2>1, <2>2
<1>4. U \in SUBSET D /\ s \in U
  BY <1>1
<1>5. Closed(U)
  <2>1. ASSUME NEW r \in U, NEW w \in uses[r] PROVE w \in U
    <3>1. CASE r = s
      BY <1>2, <2>1, <3>1
    <3>2. CASE \E t \in uses[s] : r \in Reach(uses, t)
      <4>1. PICK t \in uses[s] : r \in Reach(uses, t)
        BY <3>2
      <4>2. w \in D
        BY <1>4, <2>1
      <4>3. ASSUME NEW R \in SUBSET D, t \in R, Closed(R) PROVE w \in R
        <5>1. r \in R
          BY <1>1, <4>1, <4>3
        <5> QED
          BY <2>1, <4>3, <5>1 DEF Closed
      <4>4. w \in Reach(uses, t)
        BY <1>1, <4>2, <4>3
      <4> QED
        BY <4>1, <4>4
    <3> QED
      BY <2>1, <3>1, <3>2
  <2> QED
    BY <2>1 DEF Closed
<1>6. \A u \in Reach(uses, s) : u \in U
  BY <1>1, <1>4, <1>5
<1> QED
  BY <1>3, <1>6

\* A Dockerfile, as far as these say: a base is an earlier stage.
Document(doc) ==
  /\ Len(doc) \in Nat
  /\ \A s \in 1..Len(doc) : /\ doc[s].from \in Nat /\ doc[s].from < s
                            /\ doc[s].steps \in Seq(Instructions)

\* What the first n - 1 instructions of a stage write, take and label.
WrittenBy(doc, s, n) == {<<s, k>> : k \in {i \in 1..(n - 1) : doc[s].steps[i].op \in {"copy", "run", "take"}}}
TakenBy(doc, s, n) ==
  UNION {Contents(doc, t) : t \in {u \in 1..Len(doc) :
    \E k \in 1..(n - 1) : doc[s].steps[k].op = "take" /\ doc[s].steps[k].stage = u}}
LabelledBy(doc, s, n) == {<<s, k>> : k \in {i \in 1..(n - 1) : doc[s].steps[i].op = "label"}}
BaseContents(doc, s) == IF doc[s].from = 0 THEN {} ELSE Contents(doc, doc[s].from)
BaseLabels(doc, s) == IF doc[s].from = 0 THEN {} ELSE Labels(doc, doc[s].from)
StepsOf(doc, s) == Len(doc[s].steps)

\* A stage's contents are its base's, what its instructions write, and those of
\* the stages it copies from.
LEMMA ContentsUnfold ==
  ASSUME NEW doc, Document(doc), NEW s \in 1..Len(doc)
  PROVE  Contents(doc, s) = BaseContents(doc, s) \cup WrittenBy(doc, s, StepsOf(doc, s) + 1)
                               \cup TakenBy(doc, s, StepsOf(doc, s) + 1)
<1>u. PICK uses : uses = UsedBy(doc)
  OBVIOUS
<1>n. PICK n : n = StepsOf(doc, s)
  OBVIOUS
<1>1. /\ DOMAIN uses = 1..Len(doc) /\ \A r \in DOMAIN uses : uses[r] \subseteq DOMAIN uses
      /\ uses[s] = {t \in 1..Len(doc) : t = doc[s].from \/ \E k \in 1..n : doc[s].steps[k].op = "take" /\ doc[s].steps[k].stage = t}
  BY <1>u, <1>n DEF UsedBy, StepsOf
<1>2. n \in Nat /\ doc[s].from \in Nat /\ doc[s].from < s /\ Len(doc) \in Nat
  BY <1>n DEF Document, StepsOf
<1>3. Reach(uses, s) = {s} \cup UNION {Reach(uses, t) : t \in uses[s]}
  BY <1>1, ReachUnfolds
<1> DEFINE Ops(t) == OpsAt(doc, t, {"copy", "run", "take"})
<1>4. \A t : Contents(doc, t) = UNION {Ops(r) : r \in Reach(uses, t)}
  BY <1>u DEF Contents
<1> HIDE DEF Ops
<1>5. Contents(doc, s) = Ops(s) \cup UNION {Contents(doc, t) : t \in uses[s]}
  BY <1>3, <1>4
<1>6. Ops(s) = WrittenBy(doc, s, n + 1)
  <2>1. (n + 1) - 1 = n
    BY <1>2
  <2> QED
    BY <1>n, <2>1 DEF Ops, OpsAt, WrittenBy, StepsOf
<1>7. UNION {Contents(doc, t) : t \in uses[s]} = BaseContents(doc, s) \cup TakenBy(doc, s, n + 1)
  <2>1. (n + 1) - 1 = n
    BY <1>2
  <2>2. doc[s].from = 0 \/ doc[s].from \in 1..Len(doc)
    BY <1>2
  <2>3. 0 \notin 1..Len(doc)
    BY <1>2
  <2>4. TakenBy(doc, s, n + 1) = UNION {Contents(doc, t) : t \in {u \in 1..Len(doc) :
          \E k \in 1..n : doc[s].steps[k].op = "take" /\ doc[s].steps[k].stage = u}}
    BY <2>1 DEF TakenBy
  <2>t. PICK T : T = {u \in 1..Len(doc) : \E k \in 1..n : doc[s].steps[k].op = "take" /\ doc[s].steps[k].stage = u}
    OBVIOUS
  <2>5. TakenBy(doc, s, n + 1) = UNION {Contents(doc, t) : t \in T}
    BY <2>4, <2>t
  <2>6. uses[s] = T \cup {t \in 1..Len(doc) : t = doc[s].from}
    BY <1>1, <2>t
  <2>7. CASE doc[s].from = 0
    <3>1. uses[s] = T
      BY <2>3, <2>6, <2>7
    <3> QED
      BY <2>5, <2>7, <3>1 DEF BaseContents
  <2>8. CASE doc[s].from \in 1..Len(doc)
    <3>1. uses[s] = T \cup {doc[s].from}
      BY <2>6, <2>8
    <3>2. BaseContents(doc, s) = Contents(doc, doc[s].from)
      BY <2>3, <2>8 DEF BaseContents
    <3>3. UNION {Contents(doc, t) : t \in T \cup {doc[s].from}} = Contents(doc, doc[s].from) \cup UNION {Contents(doc, t) : t \in T}
      OBVIOUS
    <3> QED
      BY <2>5, <3>1, <3>2, <3>3
  <2> QED
    BY <2>2, <2>7, <2>8
<1> QED
  BY <1>n, <1>5, <1>6, <1>7

\* A stage's labels are its base's and those of its instructions.
LEMMA LabelsUnfold ==
  ASSUME NEW doc, Document(doc), NEW s \in 1..Len(doc)
  PROVE  Labels(doc, s) = BaseLabels(doc, s) \cup LabelledBy(doc, s, StepsOf(doc, s) + 1)
<1>u. PICK uses : uses = BasedOn(doc)
  OBVIOUS
<1>n. PICK n : n = StepsOf(doc, s)
  OBVIOUS
<1>1. /\ DOMAIN uses = 1..Len(doc) /\ \A r \in DOMAIN uses : uses[r] \subseteq DOMAIN uses
      /\ uses[s] = {t \in 1..Len(doc) : t = doc[s].from}
  BY <1>u DEF BasedOn
<1>2. n \in Nat /\ doc[s].from \in Nat /\ doc[s].from < s /\ Len(doc) \in Nat
  BY <1>n DEF Document, StepsOf
<1>3. Reach(uses, s) = {s} \cup UNION {Reach(uses, t) : t \in uses[s]}
  BY <1>1, ReachUnfolds
<1> DEFINE Ops(t) == OpsAt(doc, t, {"label"})
<1>4. \A t : Labels(doc, t) = UNION {Ops(r) : r \in Reach(uses, t)}
  BY <1>u DEF Labels
<1> HIDE DEF Ops
<1>5. Labels(doc, s) = Ops(s) \cup UNION {Labels(doc, t) : t \in uses[s]}
  BY <1>3, <1>4
<1>6. Ops(s) = LabelledBy(doc, s, n + 1)
  <2>1. (n + 1) - 1 = n
    BY <1>2
  <2>2. Ops(s) = {<<s, k>> : k \in {i \in 1..n : doc[s].steps[i].op = "label"}}
    BY <1>n DEF Ops, OpsAt, StepsOf
  <2> QED
    BY <2>1, <2>2 DEF LabelledBy
<1>7. UNION {Labels(doc, t) : t \in uses[s]} = BaseLabels(doc, s)
  <2>2. doc[s].from = 0 \/ doc[s].from \in 1..Len(doc)
    BY <1>2
  <2>3. 0 \notin 1..Len(doc)
    BY <1>2
  <2> QED
    BY <1>1, <2>2, <2>3, Zenon DEF BaseLabels
<1> QED
  BY <1>n, <1>5, <1>6, <1>7

\* The instructions up to the next one.
LEMMA UpTo ==
  ASSUME NEW n \in Nat \ {0}
  PROVE  1..((n + 1) - 1) = 1..(n - 1) \cup {n} /\ n \notin 1..(n - 1) /\ 1..(1 - 1) = {}
  OBVIOUS

\* Before the first instruction there is nothing.
LEMMA NothingYet ==
  ASSUME NEW doc, NEW s
  PROVE  WrittenBy(doc, s, 1) = {} /\ TakenBy(doc, s, 1) = {} /\ LabelledBy(doc, s, 1) = {}
<1>1. 1..(1 - 1) = {}
  OBVIOUS
<1> QED
  BY <1>1 DEF WrittenBy, TakenBy, LabelledBy

\* One instruction more.
AddsWritten(doc, s, n, op) ==
  WrittenBy(doc, s, n + 1) = WrittenBy(doc, s, n) \cup (IF op \in {"copy", "run", "take"} THEN {<<s, n>>} ELSE {})
AddsLabel(doc, s, n, op) ==
  LabelledBy(doc, s, n + 1) = LabelledBy(doc, s, n) \cup (IF op = "label" THEN {<<s, n>>} ELSE {})

\* What an instruction adds to what is written and labelled ...
LEMMA OneMore ==
  ASSUME NEW doc, NEW s, NEW n \in Nat \ {0}, NEW op, op = doc[s].steps[n].op
  PROVE  AddsWritten(doc, s, n, op) /\ AddsLabel(doc, s, n, op)
<1>1. 1..((n + 1) - 1) = 1..(n - 1) \cup {n}
  BY UpTo
<1>2. {i \in 1..((n + 1) - 1) : doc[s].steps[i].op \in {"copy", "run", "take"}} =
        {i \in 1..(n - 1) : doc[s].steps[i].op \in {"copy", "run", "take"}}
          \cup (IF op \in {"copy", "run", "take"} THEN {n} ELSE {})
  BY <1>1
<1>3. {i \in 1..((n + 1) - 1) : doc[s].steps[i].op = "label"} =
        {i \in 1..(n - 1) : doc[s].steps[i].op = "label"} \cup (IF op = "label" THEN {n} ELSE {})
  BY <1>1
<1>4. WrittenBy(doc, s, n + 1) = WrittenBy(doc, s, n) \cup (IF op \in {"copy", "run", "take"} THEN {<<s, n>>} ELSE {})
  <2> DEFINE A == {i \in 1..(n - 1) : doc[s].steps[i].op \in {"copy", "run", "take"}}
             B == {i \in 1..((n + 1) - 1) : doc[s].steps[i].op \in {"copy", "run", "take"}}
             E == IF op \in {"copy", "run", "take"} THEN {n} ELSE {}
  <2>1. WrittenBy(doc, s, n + 1) = {<<s, k>> : k \in B} /\ WrittenBy(doc, s, n) = {<<s, k>> : k \in A} /\ B = A \cup E
    BY <1>2 DEF WrittenBy
  <2>2. (IF op \in {"copy", "run", "take"} THEN {<<s, n>>} ELSE {}) = {<<s, k>> : k \in E}
    OBVIOUS
  <2> HIDE DEF A, B, E
  <2> QED
    BY <2>1, <2>2
<1>5. LabelledBy(doc, s, n + 1) = LabelledBy(doc, s, n) \cup (IF op = "label" THEN {<<s, n>>} ELSE {})
  <2> DEFINE A == {i \in 1..(n - 1) : doc[s].steps[i].op = "label"}
             B == {i \in 1..((n + 1) - 1) : doc[s].steps[i].op = "label"}
             E == IF op = "label" THEN {n} ELSE {}
  <2>1. LabelledBy(doc, s, n + 1) = {<<s, k>> : k \in B} /\ LabelledBy(doc, s, n) = {<<s, k>> : k \in A} /\ B = A \cup E
    BY <1>3 DEF LabelledBy
  <2>2. (IF op = "label" THEN {<<s, n>>} ELSE {}) = {<<s, k>> : k \in E}
    OBVIOUS
  <2> HIDE DEF A, B, E
  <2> QED
    BY <2>1, <2>2
<1> QED
  BY <1>4, <1>5 DEF AddsWritten, AddsLabel

\* ... and to what is taken from other stages.
LEMMA OneMoreTaken ==
  ASSUME NEW doc, NEW s, NEW n \in Nat \ {0}
  PROVE  /\ doc[s].steps[n].op # "take" => TakenBy(doc, s, n + 1) = TakenBy(doc, s, n)
         /\ (doc[s].steps[n].op = "take" /\ doc[s].steps[n].stage \in 1..Len(doc)) =>
              TakenBy(doc, s, n + 1) = TakenBy(doc, s, n) \cup Contents(doc, doc[s].steps[n].stage)
<1> DEFINE From(m) == {u \in 1..Len(doc) : \E k \in 1..(m - 1) : doc[s].steps[k].op = "take" /\ doc[s].steps[k].stage = u}
<1>1. 1..((n + 1) - 1) = 1..(n - 1) \cup {n}
  BY UpTo
<1>2. TakenBy(doc, s, n) = UNION {Contents(doc, t) : t \in From(n)}
  BY DEF TakenBy
<1>3. TakenBy(doc, s, n + 1) = UNION {Contents(doc, t) : t \in From(n + 1)}
  BY DEF TakenBy
<1>4. doc[s].steps[n].op # "take" => From(n + 1) = From(n)
  BY <1>1
<1>5. (doc[s].steps[n].op = "take" /\ doc[s].steps[n].stage \in 1..Len(doc)) => From(n + 1) = From(n) \cup {doc[s].steps[n].stage}
  BY <1>1
<1> HIDE DEF From
<1>6. doc[s].steps[n].op # "take" => TakenBy(doc, s, n + 1) = TakenBy(doc, s, n)
  BY <1>2, <1>3, <1>4
<1>7. ASSUME doc[s].steps[n].op = "take", doc[s].steps[n].stage \in 1..Len(doc)
      PROVE  TakenBy(doc, s, n + 1) = TakenBy(doc, s, n) \cup Contents(doc, doc[s].steps[n].stage)
  BY <1>2, <1>3, <1>5, <1>7
<1> QED
  BY <1>6, <1>7

\* What a step does to the stage that build c works on.
WorkPlaces == {"idle", "base", "steps", "run", "sidecar"}
ImagesKept(c) == \A s \in Stage : stageImg'[c][s].there => stageImg'[c][s] = stageImg[c][s]
SameMaps(c) == mapOf'[c] = mapOf[c] /\ maps'[c] = maps[c]
Idles(c) ==
  /\ cur'[c] = cur[c] /\ step'[c] = step[c] /\ SameMaps(c) /\ ImagesKept(c)
  /\ bpc'[c] = bpc[c] \/ bpc'[c] \notin WorkPlaces
  /\ bpc'[c] \in {"steps", "run"} /\ c \notin wiped' => upper'[c] = upper[c] /\ workDir'[c] = workDir[c]
BeginsFirst(c) ==
  /\ bpc[c] = "idle" /\ bpc'[c] = "base"
  /\ cur'[c] = cur[c] /\ step'[c] = step[c] /\ SameMaps(c) /\ ImagesKept(c)
Resolves(c) ==
  /\ bpc[c] = "base" /\ bpc'[c] = "steps" /\ upper'[c] = {} /\ workDir'[c]
  /\ cur'[c] = cur[c] /\ step'[c] = step[c] /\ maps'[c] = maps[c] /\ ImagesKept(c)
  /\ mapOf'[c] = [mapOf[c] EXCEPT ![cur[c]] = IF At(c).from = 0 THEN 0 ELSE mapOf[c][At(c).from]]
Copies(c) ==
  /\ ToDo(c) /\ Instr(c).op \in {"copy", "take"} /\ (Instr(c).op = "take" => stageImg[c][Instr(c).stage].there)
  /\ bpc'[c] = "steps" /\ cur'[c] = cur[c] /\ step'[c] = step[c] + 1 /\ SameMaps(c) /\ ImagesKept(c)
  /\ workDir'[c] = workDir[c]
  /\ upper'[c] = upper[c] \cup {Mark(c)} \cup (IF Instr(c).op = "take" THEN stageImg[c][Instr(c).stage].data ELSE {})
WritesLabel(c) ==
  LET m == IF mapOf[c][cur[c]] = 0 THEN cur[c] ELSE mapOf[c][cur[c]] IN
  /\ ToDo(c) /\ Instr(c).op = "label"
  /\ bpc'[c] = "steps" /\ cur'[c] = cur[c] /\ step'[c] = step[c] + 1 /\ ImagesKept(c)
  /\ workDir'[c] = workDir[c] /\ upper'[c] = upper[c]
  /\ mapOf'[c] = [mapOf[c] EXCEPT ![cur[c]] = m] /\ maps'[c] = [maps[c] EXCEPT ![m] = @ \cup {Mark(c)}]
RunStarts(c) ==
  /\ ToDo(c) /\ Instr(c).op = "run" /\ bpc'[c] = "run"
  /\ cur'[c] = cur[c] /\ step'[c] = step[c] /\ SameMaps(c) /\ ImagesKept(c)
  /\ upper'[c] = upper[c] /\ workDir'[c] = workDir[c]
RunEnds(c) ==
  /\ bpc[c] = "run" /\ bpc'[c] = "steps"
  /\ cur'[c] = cur[c] /\ step'[c] = step[c] + 1 /\ SameMaps(c) /\ ImagesKept(c)
  /\ workDir'[c] = workDir[c] /\ (workDir[c] => upper'[c] = upper[c] \cup {Mark(c)})
Finishes(c) ==
  /\ bpc[c] = "steps" /\ ~ToDo(c) /\ BaseThere(c) /\ SameMaps(c)
  /\ stageImg'[c] = [stageImg[c] EXCEPT ![cur[c]] = File(BaseData(c) \cup upper[c])]
  /\ \/ cur[c] = LastStage(c) /\ bpc'[c] = "sidecar" /\ cur'[c] = cur[c] /\ step'[c] = step[c]
     \/ cur[c] # LastStage(c) /\ bpc'[c] = "base" /\ cur'[c] = cur[c] + 1 /\ step'[c] = 1
BuildDoes(c) ==
  \/ Idles(c) \/ BeginsFirst(c) \/ Resolves(c) \/ Copies(c) \/ WritesLabel(c) \/ RunStarts(c) \/ RunEnds(c) \/ Finishes(c)

\* Every step does one of these to every build.
LEMMA EveryBuildDoes ==
  ASSUME StageTypes, PublishTypes, AtStage, workDir \in [Builder -> BOOLEAN], BuildNext, NEW c \in Builder
  PROVE  BuildDoes(c)
<1> USE DEF tagVars, stageVars, sideVars, restVars
<1>1. ASSUME NEW b \in Builder, Begin(b) PROVE BuildDoes(c)
  <2>1. CASE c # b
    <3> QED
      BY <1>1, <2>1 DEF Begin, Goes, BuildDoes, Idles, ImagesKept, SameMaps, StageTypes
  <2>2. CASE c = b
    <3> QED
      BY <1>1, <2>2 DEF Begin, Goes, BuildDoes, BeginsFirst, ImagesKept, SameMaps, StageTypes, WorkPlaces
  <2> QED
    BY <2>1, <2>2
<1>2. ASSUME NEW b \in Builder, ResolveBase(b) PROVE BuildDoes(c)
  <2>1. CASE c # b
    <3> QED
      BY <1>2, <2>1 DEF ResolveBase, Goes, BuildDoes, Idles, ImagesKept, SameMaps, StageTypes
  <2>2. CASE c = b
    <3> QED
      BY <1>2, <2>2 DEF ResolveBase, Goes, BuildDoes, Resolves, ImagesKept, SameMaps, StageTypes, WorkPlaces
  <2> QED
    BY <2>1, <2>2
<1>3. ASSUME NEW b \in Builder, ApplyCopy(b) PROVE BuildDoes(c)
  <2>1. CASE c # b
    <3> QED
      BY <1>3, <2>1 DEF ApplyCopy, Goes, Gives, Told, Advance, BuildDoes, Idles, ImagesKept, SameMaps, StageTypes
  <2>2. CASE c = b
    <3>0. ToDo(b) /\ Instr(b).op \in {"copy", "take"} /\ UNCHANGED <<cur, workDir, stageImg, mapOf, maps>>
      BY <1>3 DEF ApplyCopy
    <3>1. CASE Instr(b).op = "take" /\ ~stageImg[b][Instr(b).stage].there
      <4>1. bpc' = [bpc EXCEPT ![b] = "cleanup"] /\ UNCHANGED <<step, upper>>
        BY <1>3, <3>1 DEF ApplyCopy, Gives, Goes
      <4>2. bpc'[c] = "cleanup"
        BY <2>2, <4>1 DEF StageTypes
      <4> QED
        BY <3>0, <4>1, <4>2, Zenon DEF BuildDoes, Idles, ImagesKept, SameMaps, WorkPlaces
    <3>2. CASE ~(Instr(b).op = "take" /\ ~stageImg[b][Instr(b).stage].there)
      <4>1. PICK more : /\ more = (IF Instr(b).op = "take" THEN stageImg[b][Instr(b).stage].data ELSE {})
                        /\ upper' = [upper EXCEPT ![b] = @ \cup {Mark(b)} \cup more]
        BY <1>3, <3>2 DEF ApplyCopy
      <4>2. UNCHANGED bpc /\ step' = [step EXCEPT ![b] = @ + 1]
        BY <1>3, <3>2 DEF ApplyCopy, Advance
      <4>3. bpc'[c] = "steps" /\ step'[c] = step[c] + 1 /\ upper'[c] = upper[c] \cup {Mark(b)} \cup more
        BY <2>2, <3>0, <4>1, <4>2 DEF StageTypes, ToDo
      <4> QED
        BY <2>2, <3>0, <3>2, <4>1, <4>3 DEF BuildDoes, Copies, ImagesKept, SameMaps
    <3> QED
      BY <3>1, <3>2
  <2> QED
    BY <2>1, <2>2
<1>4. ASSUME NEW b \in Builder, ApplyLabel(b) PROVE BuildDoes(c)
  <2>1. CASE c # b
    <3> QED
      BY <1>4, <2>1 DEF ApplyLabel, Goes, Advance, ToDo, BuildDoes, Idles, ImagesKept, SameMaps, StageTypes
  <2>2. CASE c = b
    <3> QED
      BY <1>4, <2>2 DEF ApplyLabel, Goes, Advance, ToDo, BuildDoes, WritesLabel, ImagesKept, SameMaps, StageTypes, WorkPlaces
  <2> QED
    BY <2>1, <2>2
<1>5. ASSUME NEW b \in Builder, BuildRun(b) PROVE BuildDoes(c)
  <2>1. CASE c # b
    <3> QED
      BY <1>5, <2>1 DEF BuildRun, Goes, Gives, Told, BuildDoes, Idles, ImagesKept, SameMaps, StageTypes
  <2>2. CASE c = b
    <3> QED
      BY <1>5, <2>2 DEF BuildRun, Goes, Gives, Told, BuildDoes, Idles, RunStarts, ImagesKept, SameMaps, StageTypes, WorkPlaces
  <2> QED
    BY <2>1, <2>2
<1>6. ASSUME NEW b \in Builder, BuildRunEnds(b) PROVE BuildDoes(c)
  <2>1. CASE c # b
    <3> QED
      BY <1>6, <2>1 DEF BuildRunEnds, Goes, Advance, BuildDoes, Idles, ImagesKept, SameMaps, StageTypes
  <2>2. CASE c = b
    <3> QED
      BY <1>6, <2>2 DEF BuildRunEnds, Goes, Advance, BuildDoes, RunEnds, ImagesKept, SameMaps, StageTypes, WorkPlaces
  <2> QED
    BY <2>1, <2>2
<1>7. ASSUME NEW b \in Builder, StageFails(b) PROVE BuildDoes(c)
  <2> QED
    BY <1>7 DEF StageFails, Goes, Gives, Told, BuildDoes, Idles, ImagesKept, SameMaps, StageTypes, WorkPlaces
<1>8. ASSUME NEW b \in Builder, Finish(b) PROVE BuildDoes(c)
  <2>1. CASE c # b
    <3> QED
      BY <1>8, <2>1 DEF Finish, Goes, Gives, Told, BuildDoes, Idles, ImagesKept, SameMaps, StageTypes
  <2>2. CASE c = b
    <3> QED
      BY <1>8, <2>2 DEF Finish, Goes, Gives, Told, BuildDoes, Idles, Finishes, ImagesKept, SameMaps, StageTypes, WorkPlaces
  <2> QED
    BY <2>1, <2>2
<1>9. ASSUME NEW b \in Builder, CleanupAll(b) PROVE BuildDoes(c)
  <2> QED
    BY <1>9 DEF CleanupAll, Goes, Missing, BuildDoes, Idles, ImagesKept, SameMaps, StageTypes, WorkPlaces
<1>10. ASSUME NEW b \in Builder, CheckGuestOutput(b) PROVE BuildDoes(c)
  <2> QED
    BY <1>10 DEF CheckGuestOutput, BuildDoes, Idles, ImagesKept, SameMaps, StageTypes, WorkPlaces
<1>11. ASSUME NEW b \in Builder, BuildDies(b) PROVE BuildDoes(c)
  <2> QED
    BY <1>11 DEF BuildDies, Goes, BuildDoes, Idles, ImagesKept, SameMaps, StageTypes, WorkPlaces
<1>12. ASSUME NEW b \in Builder, NEW ok \in BOOLEAN, WriteSidecar(b, ok) PROVE BuildDoes(c)
  <2> QED
    BY <1>12 DEF WriteSidecar, Goes, Gives, Told, BuildDoes, Idles, ImagesKept, SameMaps, StageTypes, WorkPlaces
<1>13. ASSUME NEW b \in Builder, NEW ok \in BOOLEAN, PushStageImage(b, ok) PROVE BuildDoes(c)
  <2> QED
    BY <1>13 DEF PushStageImage, Goes, GivesUp, Gives, Told, BuildDoes, Idles, ImagesKept, SameMaps, StageTypes, WorkPlaces
<1>14. ASSUME NEW b \in Builder, NEW ok \in BOOLEAN, InstallSidecar(b, ok) PROVE BuildDoes(c)
  <2> QED
    BY <1>14 DEF InstallSidecar, Goes, GivesUp, Gives, Told, BuildDoes, Idles, ImagesKept, SameMaps, StageTypes, WorkPlaces
<1>15. ASSUME NEW b \in Builder, NEW ok \in BOOLEAN, InstallImage(b, ok) PROVE BuildDoes(c)
  <2> QED
    BY <1>15 DEF InstallImage, Installed, Goes, GivesUp, Gives, Told, Missing, BuildDoes, Idles, ImagesKept, SameMaps, StageTypes, WorkPlaces
<1>16. ASSUME NEW b \in Builder, NEW s \in Stage, SweepContainer(b, s) PROVE BuildDoes(c)
  <2> QED
    BY <1>16 DEF SweepContainer, Wipes, BuildDoes, Idles, ImagesKept, SameMaps, StageTypes, WorkPlaces
<1>17. ASSUME NEW b \in Builder, NEW s \in Stage, SweepDir(b, s) PROVE BuildDoes(c)
  <2> QED
    BY <1>17 DEF SweepDir, Wipes, BuildDoes, Idles, ImagesKept, SameMaps, StageTypes, WorkPlaces
<1>18. ASSUME NEW b \in Builder, NEW s \in Stage, SweepImage(b, s) PROVE BuildDoes(c)
  <2> QED
    BY <1>18 DEF SweepImage, Missing, BuildDoes, Idles, ImagesKept, SameMaps, StageTypes, WorkPlaces
<1>19. ASSUME NEW scope \in {"all", "orphans", "images"}, SweepLists(scope) PROVE BuildDoes(c)
  BY <1>19 DEF SweepLists, BuildDoes, Idles, ImagesKept, SameMaps
<1>20. ASSUME SweepEnds PROVE BuildDoes(c)
  BY <1>20 DEF SweepEnds, BuildDoes, Idles, ImagesKept, SameMaps
<1> QED
  BY <1>1, <1>2, <1>3, <1>4, <1>5, <1>6, <1>7, <1>8, <1>9, <1>10, <1>11, <1>12,
     <1>13, <1>14, <1>15, <1>16, <1>17, <1>18, <1>19, <1>20 DEF BuildNext

\* The Dockerfile of a build is one, and stays; what was wiped stays so.
LEMMA DocumentOf ==
  ASSUME StageTypes, NEW b \in Builder
  PROVE  Document(Doc(b)) /\ Len(Doc(b)) = LastStage(b) /\ LastStage(b) \in Nat
<1>1. Len(Doc(b)) = LastStage(b)
  BY DEF LastStage
<1>2. LastStage(b) \in Nat
  BY Documents, BuildSizes
<1> QED
  BY <1>1, <1>2, Documents DEF Document

\* No step changes what was asked for, or forgets what was removed.
LEMMA JobStays ==
  ASSUME BuildNext
  PROVE  UNCHANGED job /\ wiped \subseteq wiped'
<1> USE DEF tagVars, stageVars, sideVars, restVars
<1>1. ASSUME NEW b \in Builder, Begin(b) \/ ResolveBase(b) \/ ApplyCopy(b) \/ ApplyLabel(b) \/ BuildRun(b) PROVE UNCHANGED <<job, wiped>>
  BY <1>1 DEF Begin, ResolveBase, ApplyCopy, ApplyLabel, BuildRun
<1>2. ASSUME NEW b \in Builder, BuildRunEnds(b) \/ StageFails(b) \/ Finish(b) \/ CleanupAll(b) \/ CheckGuestOutput(b) \/ BuildDies(b)
      PROVE  UNCHANGED <<job, wiped>>
  BY <1>2 DEF BuildRunEnds, StageFails, Finish, CleanupAll, CheckGuestOutput, BuildDies
<1>3. ASSUME NEW b \in Builder, NEW ok \in BOOLEAN, WriteSidecar(b, ok) \/ PushStageImage(b, ok) \/ InstallSidecar(b, ok) \/ InstallImage(b, ok)
      PROVE  UNCHANGED <<job, wiped>>
  BY <1>3 DEF WriteSidecar, PushStageImage, InstallSidecar, InstallImage
<1>4. ASSUME NEW b \in Builder, NEW s \in Stage, SweepContainer(b, s) \/ SweepDir(b, s)
      PROVE  UNCHANGED job /\ wiped \subseteq wiped'
  BY <1>4 DEF SweepContainer, SweepDir, Wipes
<1>5. ASSUME NEW b \in Builder, NEW s \in Stage, SweepImage(b, s) PROVE UNCHANGED <<job, wiped>>
  BY <1>5 DEF SweepImage
<1>6. ASSUME NEW scope, SweepLists(scope) \/ SweepEnds PROVE UNCHANGED <<job, wiped>>
  BY <1>6 DEF SweepLists, SweepEnds
<1> QED
  BY <1>1, <1>2, <1>3, <1>4, <1>5, <1>6, Zenon DEF BuildNext

\* The mark of a prepared change directory stays one.
LEMMA WorkDirTyped ==
  ASSUME workDir \in [Builder -> BOOLEAN], BuildNext
  PROVE  workDir' \in [Builder -> BOOLEAN]
<1> USE DEF tagVars, stageVars, sideVars, restVars
<1>1. UNCHANGED workDir \/ \E b \in Builder : workDir' = [workDir EXCEPT ![b] = TRUE] \/ workDir' = [workDir EXCEPT ![b] = FALSE]
  <2>1. ASSUME NEW b \in Builder, Begin(b) \/ ApplyCopy(b) \/ ApplyLabel(b) \/ BuildRun(b) PROVE UNCHANGED workDir
    BY <2>1 DEF Begin, ApplyCopy, ApplyLabel, BuildRun
  <2>2. ASSUME NEW b \in Builder, BuildRunEnds(b) \/ StageFails(b) \/ CheckGuestOutput(b) \/ BuildDies(b)
        PROVE  UNCHANGED workDir
    BY <2>2 DEF BuildRunEnds, StageFails, CheckGuestOutput, BuildDies
  <2>3. ASSUME NEW b \in Builder, NEW ok \in BOOLEAN, WriteSidecar(b, ok) \/ PushStageImage(b, ok) \/ InstallSidecar(b, ok) \/ InstallImage(b, ok)
        PROVE  UNCHANGED workDir
    BY <2>3 DEF WriteSidecar, PushStageImage, InstallSidecar, InstallImage
  <2>4. ASSUME NEW b \in Builder, ResolveBase(b) \/ Finish(b) \/ CleanupAll(b)
        PROVE  workDir' = [workDir EXCEPT ![b] = TRUE] \/ workDir' = [workDir EXCEPT ![b] = FALSE]
    BY <2>4 DEF ResolveBase, Finish, CleanupAll
  <2>5. ASSUME NEW b \in Builder, NEW s \in Stage, SweepContainer(b, s) \/ SweepDir(b, s)
        PROVE  UNCHANGED workDir \/ workDir' = [workDir EXCEPT ![b] = FALSE]
    BY <2>5 DEF SweepContainer, SweepDir, Wipes
  <2>6. ASSUME NEW b \in Builder, NEW s \in Stage, SweepImage(b, s) PROVE UNCHANGED workDir
    BY <2>6 DEF SweepImage
  <2>7. ASSUME NEW scope, SweepLists(scope) \/ SweepEnds PROVE UNCHANGED workDir
    BY <2>7 DEF SweepLists, SweepEnds
  <2> QED
    BY <2>1, <2>2, <2>3, <2>4, <2>5, <2>6, <2>7, Zenon DEF BuildNext
<1> QED
  BY <1>1

\* A build is at a step of its stage.
OnStep ==
  \A b \in Builder :
    /\ bpc[b] \in {"idle", "base"} => step[b] = 1
    /\ bpc[b] = "steps" => step[b] <= StepsOf(Doc(b), cur[b]) + 1
    /\ bpc[b] = "run" => step[b] <= StepsOf(Doc(b), cur[b]) /\ Doc(b)[cur[b]].steps[step[b]].op = "run"
    /\ bpc[b] = "sidecar" => cur[b] = LastStage(b) /\ step[b] = StepsOf(Doc(b), cur[b]) + 1

\* Every step keeps a build on a step of its stage (the loop over the
\* instructions and the one over the stages).
LEMMA OnStepStep ==
  ASSUME StageTypes, PublishTypes, AtStage, workDir \in [Builder -> BOOLEAN], OnStep, BuildNext
  PROVE  OnStep'
<1> SUFFICES ASSUME NEW c \in Builder
             PROVE  /\ bpc'[c] \in {"idle", "base"} => step'[c] = 1
                    /\ bpc'[c] = "steps" => step'[c] <= StepsOf(Doc(c), cur'[c]) + 1
                    /\ bpc'[c] = "run" => step'[c] <= StepsOf(Doc(c), cur'[c]) /\ Doc(c)[cur'[c]].steps[step'[c]].op = "run"
                    /\ bpc'[c] = "sidecar" => cur'[c] = LastStage(c) /\ step'[c] = StepsOf(Doc(c), cur'[c]) + 1
  BY JobStays DEF OnStep, Doc, LastStage
<1>m. BuildDoes(c)
  BY EveryBuildDoes
<1>1. step[c] \in Nat \ {0} /\ bpc[c] \in BuildPlaces
  BY DEF StageTypes
<1>2. bpc[c] # "idle" => StepsOf(Doc(c), cur[c]) \in Nat
  BY AtWork DEF StepsOf, At
<1>3. ToDo(c) <=> bpc[c] = "steps" /\ step[c] <= StepsOf(Doc(c), cur[c])
  BY DEF ToDo, At, StepsOf
<1>4. Instr(c) = Doc(c)[cur[c]].steps[step[c]]
  BY DEF Instr, At
<1>5. CASE Idles(c)
  BY <1>5, Zenon DEF Idles, OnStep, WorkPlaces
<1>6. CASE BeginsFirst(c)
  BY <1>6 DEF BeginsFirst, OnStep
<1>7. CASE Resolves(c)
  BY <1>1, <1>2, <1>7 DEF Resolves, OnStep
<1>8. CASE Copies(c)
  BY <1>1, <1>2, <1>3, <1>8 DEF Copies
<1>9. CASE WritesLabel(c)
  BY <1>1, <1>2, <1>3, <1>9 DEF WritesLabel
<1>10. CASE RunStarts(c)
  BY <1>3, <1>4, <1>10 DEF RunStarts
<1>11. CASE RunEnds(c)
  BY <1>1, <1>2, <1>11 DEF RunEnds, OnStep
<1>12. CASE Finishes(c)
  BY <1>1, <1>2, <1>3, <1>12 DEF Finishes, OnStep
<1> QED
  BY <1>m, <1>5, <1>6, <1>7, <1>8, <1>9, <1>10, <1>11, <1>12 DEF BuildDoes

\* The stage images are whole, and the upper directory is as far as the
\* instructions are, of builds that nothing was removed under.
ImagesFull(b) == \A s \in Stage : stageImg[b][s].there => stageImg[b][s].data = Contents(Doc(b), s)
UpperFull(b) ==
  bpc[b] \in {"steps", "run"} =>
    /\ workDir[b]
    /\ upper[b] = WrittenBy(Doc(b), cur[b], step[b]) \cup TakenBy(Doc(b), cur[b], step[b])
WholeSoFar == \A b \in Builder \ wiped : ImagesFull(b) /\ UpperFull(b)

\* Something of a stage is there only if it is a stage of the Dockerfile.
LEMMA ThereInDoc ==
  ASSUME StageTypes, AtStage, Removable, NEW b \in Builder, NEW s \in Stage, stageImg[b][s].there
  PROVE  s \in 1..LastStage(b)
  BY DEF AtStage, Removable

\* Every step keeps the images whole and the upper directory up to date.
LEMMA WholeStep ==
  ASSUME StageTypes, PublishTypes, AtStage, Removable, workDir \in [Builder -> BOOLEAN], OnStep, WholeSoFar, BuildNext
  PROVE  WholeSoFar'
<1> SUFFICES ASSUME NEW c \in Builder, c \notin wiped'
             PROVE  /\ \A s \in Stage : stageImg'[c][s].there => stageImg'[c][s].data = Contents(Doc(c), s)
                    /\ bpc'[c] \in {"steps", "run"} =>
                         /\ workDir'[c]
                         /\ upper'[c] = WrittenBy(Doc(c), cur'[c], step'[c]) \cup TakenBy(Doc(c), cur'[c], step'[c])
  BY JobStays DEF WholeSoFar, ImagesFull, UpperFull, Doc
<1>m. BuildDoes(c)
  BY EveryBuildDoes
<1>0. c \notin wiped
  BY JobStays
<1>d. PICK d : d = Doc(c)
  OBVIOUS
<1>k. PICK k : k = cur[c]
  OBVIOUS
<1>n. PICK n : n = step[c]
  OBVIOUS
<1>1. n \in Nat \ {0} /\ Document(d)
  BY <1>d, <1>n, DocumentOf DEF StageTypes
<1>2. bpc[c] # "idle" => k \in Stage /\ k \in 1..Len(d) /\ d[k].from \in 0..MaxStage /\ d[k].from < k /\ Mark(c) = <<k, n>>
  <2>1. cur[c] \in Nat /\ MaxStage \in Nat
    BY BuildSizes DEF StageTypes
  <2>2. Mark(c) = <<k, n>>
    BY <1>k, <1>n DEF Mark
  <2>3. Len(d) = LastStage(c) /\ LastStage(c) \in Nat
    BY <1>d, DocumentOf
  <2>4. bpc[c] # "idle" => cur[c] \in Stage /\ cur[c] <= LastStage(c) /\ At(c).from \in 0..MaxStage /\ At(c).from < cur[c]
    BY AtWork
  <2>5. At(c) = d[k]
    BY <1>d, <1>k DEF At
  <2>6. ASSUME cur[c] \in Stage, cur[c] <= LastStage(c) PROVE k \in 1..Len(d)
    BY <1>k, <2>1, <2>3, <2>6 DEF Stage
  <2> QED
    BY <1>k, <2>2, <2>4, <2>5, <2>6
<1>3. ToDo(c) => bpc[c] = "steps" /\ Instr(c) = d[k].steps[n]
  BY <1>d, <1>k, <1>n DEF ToDo, Instr, At
<1>4. \A s \in Stage : stageImg[c][s].there => stageImg[c][s].data = Contents(d, s)
  BY <1>0, <1>d DEF WholeSoFar, ImagesFull
<1>5. bpc[c] \in {"steps", "run"} => workDir[c] /\ upper[c] = WrittenBy(d, k, n) \cup TakenBy(d, k, n)
  BY <1>0, <1>d, <1>k, <1>n DEF WholeSoFar, UpperFull
<1>6. ASSUME ImagesKept(c), NEW s \in Stage, stageImg'[c][s].there PROVE stageImg'[c][s].data = Contents(d, s)
  BY <1>4, <1>6 DEF ImagesKept
<1>7. CASE Idles(c)
  <2>1. ImagesKept(c) /\ cur'[c] = k /\ step'[c] = n
    BY <1>7, <1>k, <1>n DEF Idles
  <2>2. bpc'[c] \in {"steps", "run"} => bpc[c] \in {"steps", "run"} /\ upper'[c] = upper[c] /\ workDir'[c] = workDir[c]
    BY <1>7 DEF Idles, WorkPlaces
  <2> QED
    BY <1>d, <1>5, <1>6, <2>1, <2>2
<1>8. CASE BeginsFirst(c)
  BY <1>d, <1>6, <1>8 DEF BeginsFirst
<1>9. CASE Resolves(c)
  <2>1. ImagesKept(c) /\ cur'[c] = k /\ step'[c] = n /\ upper'[c] = {} /\ workDir'[c] /\ n = 1
    BY <1>9, <1>k, <1>n DEF Resolves, OnStep
  <2> QED
    BY <1>d, <1>6, <2>1, NothingYet
<1>10. CASE Copies(c)
  <2>1. ImagesKept(c) /\ cur'[c] = k /\ step'[c] = n + 1 /\ workDir'[c] = workDir[c]
    BY <1>10, <1>k, <1>n DEF Copies
  <2>2. ToDo(c) /\ bpc[c] = "steps" /\ Instr(c) = d[k].steps[n] /\ Instr(c).op \in {"copy", "take"}
    BY <1>3, <1>10 DEF Copies
  <2>3. WrittenBy(d, k, n + 1) = WrittenBy(d, k, n) \cup {<<k, n>>}
    <3>0. PICK op : op = d[k].steps[n].op
      OBVIOUS
    <3>1. AddsWritten(d, k, n, op)
      BY <1>1, <3>0, OneMore
    <3>2. op \in {"copy", "take"}
      BY <2>2, <3>0
    <3> QED
      BY <3>1, <3>2 DEF AddsWritten
  <2>4. PICK more : /\ more = (IF Instr(c).op = "take" THEN stageImg[c][Instr(c).stage].data ELSE {})
                    /\ upper'[c] = upper[c] \cup {Mark(c)} \cup more
    BY <1>10 DEF Copies
  <2>5. TakenBy(d, k, n + 1) = TakenBy(d, k, n) \cup more
    <3>1. CASE Instr(c).op # "take"
      BY <1>1, <2>2, <2>4, <3>1, OneMoreTaken
    <3>2. CASE Instr(c).op = "take"
      <4>1. Instr(c).stage \in Stage /\ stageImg[c][Instr(c).stage].there
        BY <1>10, <2>2, <3>2, AnInstruction DEF Copies
      <4>2. Instr(c).stage \in 1..Len(d)
        BY <1>d, <4>1, ThereInDoc, DocumentOf
      <4>3. more = Contents(d, Instr(c).stage)
        BY <1>4, <2>4, <3>2, <4>1
      <4> QED
        BY <1>1, <2>2, <3>2, <4>2, <4>3, OneMoreTaken
    <3> QED
      BY <3>1, <3>2
  <2>6. upper'[c] = WrittenBy(d, k, n + 1) \cup TakenBy(d, k, n + 1)
    BY <1>2, <1>5, <2>2, <2>3, <2>4, <2>5
  <2> QED
    BY <1>d, <1>5, <1>6, <2>1, <2>2, <2>6
<1>11. CASE WritesLabel(c)
  <2>1. ImagesKept(c) /\ cur'[c] = k /\ step'[c] = n + 1 /\ workDir'[c] = workDir[c] /\ upper'[c] = upper[c]
    BY <1>11, <1>k, <1>n DEF WritesLabel
  <2>2. bpc[c] = "steps" /\ d[k].steps[n].op = "label"
    BY <1>3, <1>11 DEF WritesLabel
  <2>3. WrittenBy(d, k, n + 1) = WrittenBy(d, k, n) /\ TakenBy(d, k, n + 1) = TakenBy(d, k, n)
    <3>0. PICK op : op = d[k].steps[n].op
      OBVIOUS
    <3>1. AddsWritten(d, k, n, op)
      BY <1>1, <3>0, OneMore
    <3>2. TakenBy(d, k, n + 1) = TakenBy(d, k, n)
      BY <1>1, <2>2, OneMoreTaken
    <3> QED
      BY <2>2, <3>0, <3>1, <3>2 DEF AddsWritten
  <2> QED
    BY <1>d, <1>5, <1>6, <2>1, <2>2, <2>3
<1>12. CASE RunStarts(c)
  <2>1. ImagesKept(c) /\ cur'[c] = k /\ step'[c] = n /\ workDir'[c] = workDir[c] /\ upper'[c] = upper[c] /\ bpc[c] = "steps"
    BY <1>12, <1>k, <1>n DEF RunStarts, ToDo
  <2> QED
    BY <1>d, <1>5, <1>6, <2>1
<1>13. CASE RunEnds(c)
  <2>1. ImagesKept(c) /\ cur'[c] = k /\ step'[c] = n + 1 /\ workDir'[c] = workDir[c] /\ bpc[c] = "run"
    BY <1>13, <1>k, <1>n DEF RunEnds
  <2>2. workDir[c] /\ upper'[c] = upper[c] \cup {<<k, n>>}
    BY <1>2, <1>5, <1>13, <2>1 DEF RunEnds
  <2>3. d[k].steps[n].op = "run"
    BY <1>d, <1>k, <1>n, <2>1 DEF OnStep
  <2>4. WrittenBy(d, k, n + 1) = WrittenBy(d, k, n) \cup {<<k, n>>}
    <3>0. PICK op : op = d[k].steps[n].op
      OBVIOUS
    <3>1. AddsWritten(d, k, n, op)
      BY <1>1, <3>0, OneMore
    <3> QED
      BY <2>3, <3>0, <3>1 DEF AddsWritten
  <2>5. TakenBy(d, k, n + 1) = TakenBy(d, k, n)
    BY <1>1, <2>3, OneMoreTaken
  <2> QED
    BY <1>d, <1>5, <1>6, <2>1, <2>2, <2>4, <2>5
<1>14. CASE Finishes(c)
  <2>1. bpc[c] = "steps" /\ bpc'[c] \notin {"steps", "run"} /\ ~ToDo(c) /\ BaseThere(c)
    BY <1>14 DEF Finishes
  <2>2. n = StepsOf(d, k) + 1
    <3>1. StepsOf(d, k) \in Nat /\ n <= StepsOf(d, k) + 1
      BY <1>d, <1>k, <1>n, <1>1, <1>2, <2>1 DEF OnStep, Document, StepsOf
    <3>2. ~(n <= StepsOf(d, k))
      BY <1>d, <1>k, <1>n, <2>1 DEF ToDo, StepsOf, At
    <3> QED
      BY <1>1, <3>1, <3>2
  <2>3. BaseData(c) = BaseContents(d, k)
    <3>1. CASE d[k].from = 0
      BY <1>d, <1>k, <3>1 DEF BaseData, BaseContents, At
    <3>2. CASE d[k].from # 0
      <4>1. d[k].from \in Stage /\ stageImg[c][d[k].from].there
        BY <1>d, <1>k, <1>2, <2>1, <3>2, BuildSizes DEF BaseThere, At, Stage
      <4> QED
        BY <1>d, <1>k, <1>4, <3>2, <4>1 DEF BaseData, BaseContents, At
    <3> QED
      BY <3>1, <3>2
  <2>4. Contents(d, k) = BaseContents(d, k) \cup WrittenBy(d, k, n) \cup TakenBy(d, k, n)
    BY <1>1, <1>2, <2>1, <2>2, ContentsUnfold
  <2>5. BaseData(c) \cup upper[c] = Contents(d, k)
    BY <1>5, <2>1, <2>3, <2>4
  <2>6. stageImg'[c] = [stageImg[c] EXCEPT ![k] = File(Contents(d, k))]
    BY <1>14, <1>k, <2>5 DEF Finishes
  <2>7. ASSUME NEW s \in Stage, stageImg'[c][s].there PROVE stageImg'[c][s].data = Contents(d, s)
    <3>0. stageImg[c] \in [Stage -> [there : BOOLEAN, data : Marks]]
      BY DEF StageTypes
    <3>1. CASE s = k
      <4>1. stageImg'[c][s] = File(Contents(d, k))
        BY <2>6, <3>0, <3>1
      <4> QED
        BY <3>1, <4>1 DEF File
    <3>2. CASE s # k
      BY <1>4, <2>6, <2>7, <3>0, <3>2
    <3> QED
      BY <3>1, <3>2
  <2> QED
    BY <1>d, <2>1, <2>7
<1> QED
  BY <1>m, <1>7, <1>8, <1>9, <1>10, <1>11, <1>12, <1>13, <1>14 DEF BuildDoes

\* The tagged image comes from a last stage's image.
LEMMA TagImgMoves ==
  ASSUME BuildNext
  PROVE  \/ UNCHANGED tagImg
         \/ \E b \in Builder : /\ bpc[b] = "image" /\ stageImg[b][LastStage(b)].there
                               /\ tagImg' = [by |-> b, data |-> stageImg[b][LastStage(b)].data]
<1> USE DEF tagVars, stageVars, sideVars, restVars
<1>1. ASSUME NEW b \in Builder, Begin(b) \/ ResolveBase(b) \/ ApplyCopy(b) \/ ApplyLabel(b) \/ BuildRun(b) PROVE UNCHANGED tagImg
  BY <1>1 DEF Begin, ResolveBase, ApplyCopy, ApplyLabel, BuildRun
<1>2. ASSUME NEW b \in Builder, BuildRunEnds(b) \/ StageFails(b) \/ Finish(b) \/ CleanupAll(b) \/ CheckGuestOutput(b) \/ BuildDies(b)
      PROVE  UNCHANGED tagImg
  BY <1>2 DEF BuildRunEnds, StageFails, Finish, CleanupAll, CheckGuestOutput, BuildDies
<1>3. ASSUME NEW b \in Builder, NEW ok \in BOOLEAN, WriteSidecar(b, ok) \/ PushStageImage(b, ok) \/ InstallSidecar(b, ok)
      PROVE  UNCHANGED tagImg
  BY <1>3 DEF WriteSidecar, PushStageImage, InstallSidecar
<1>4. ASSUME NEW b \in Builder, NEW ok \in BOOLEAN, InstallImage(b, ok)
      PROVE  \/ UNCHANGED tagImg
             \/ /\ bpc[b] = "image" /\ stageImg[b][LastStage(b)].there
                /\ tagImg' = [by |-> b, data |-> stageImg[b][LastStage(b)].data]
  BY <1>4 DEF InstallImage, Installed
<1>5. ASSUME NEW b \in Builder, NEW s \in Stage, SweepContainer(b, s) \/ SweepDir(b, s) \/ SweepImage(b, s)
      PROVE  UNCHANGED tagImg
  BY <1>5 DEF SweepContainer, SweepDir, SweepImage
<1>6. ASSUME NEW scope, SweepLists(scope) \/ SweepEnds PROVE UNCHANGED tagImg
  BY <1>6 DEF SweepLists, SweepEnds
<1> QED
  BY <1>1, <1>2, <1>3, <1>4, <1>5, <1>6, Zenon DEF BuildNext

\* So it is whole.
LEMMA ImageWholeStep ==
  ASSUME StageTypes, AtStage, PublishTypes, WholeSoFar, ImageWhole, BuildNext
  PROVE  ImageWhole'
<1>1. CASE UNCHANGED tagImg
  BY <1>1, JobStays DEF ImageWhole, Doc, LastStage
<1>2. ASSUME NEW b \in Builder, bpc[b] = "image", stageImg[b][LastStage(b)].there,
             tagImg' = [by |-> b, data |-> stageImg[b][LastStage(b)].data]
      PROVE  ImageWhole'
  <2>1. CASE b \in wiped'
    BY <1>2, <2>1 DEF ImageWhole
  <2>2. CASE b \notin wiped'
    <3>1. stageImg[b][LastStage(b)].data = Contents(Doc(b), LastStage(b))
      BY <1>2, <2>2, JobStays, AtWork DEF WholeSoFar, ImagesFull
    <3>2. tagImg'.by = b /\ tagImg'.data = Contents(Doc(b), LastStage(b)) /\ UNCHANGED job
      BY <1>2, <3>1, JobStays
    <3> QED
      BY <3>2 DEF ImageWhole, Doc, LastStage
  <2> QED
    BY <2>1, <2>2
<1> QED
  BY <1>1, <1>2, TagImgMoves

\* The stages that have stages, the labels they are to have so far, and those
\* they have: those in the map that f names.
Started(b) == IF bpc[b] \in {"idle", "base"} THEN 1..(cur[b] - 1) ELSE 1..cur[b]
SoFar(b, s) ==
  IF s = cur[b] /\ bpc[b] \in {"steps", "run"}
  THEN BaseLabels(Doc(b), s) \cup LabelledBy(Doc(b), s, step[b]) ELSE Labels(Doc(b), s)
LabelsIn(f, g, s) == IF f[s] = 0 THEN {} ELSE g[f[s]]
HasChild(doc, stages, s) == \E c \in stages : doc[c].from = s

\* A map is named by the stage that made it, and that stage has it; others are
\* empty.
MapsFine(f, g, stages) ==
  /\ \A s \in Stage : s \notin stages => f[s] = 0
  /\ \A s \in Stage : f[s] <= s /\ (f[s] # 0 => f[f[s]] = f[s])
  /\ \A m \in Stage : f[m] # m => g[m] = {}
\* What a stage is to hold is in its map; and if no two stages have one base, a
\* stage shares its map only with those based on it, and until there are any,
\* the map holds its labels and no others.
MapsOwn(doc, stages, f, g, w) ==
  /\ \A s, t \in stages : (s < t /\ f[s] = f[t] /\ f[s] # 0) => HasChild(doc, stages, s)
  /\ \A s \in stages : ~HasChild(doc, stages, s) => LabelsIn(f, g, s) = w[s]
MapsFit(doc, stages, f, g, w) ==
  /\ MapsFine(f, g, stages) /\ \A s \in stages : w[s] \subseteq LabelsIn(f, g, s)
  /\ Shared(doc) = {} => MapsOwn(doc, stages, f, g, w)
LabelsDue(b) == [s \in Started(b) |-> SoFar(b, s)]
LabelsKept == \A b \in Builder : bpc[b] \in WorkPlaces => MapsFit(Doc(b), Started(b), mapOf[b], maps[b], LabelsDue(b))

\* The maps when stage k begins over p, and when it writes label x to map m.
MapBegun(f, g, h, k, p) ==
  /\ MapsFine(h, g, 1..k)
  /\ \A s \in 1..(k - 1) : LabelsIn(h, g, s) = LabelsIn(f, g, s) /\ h[s] = f[s]
  /\ LabelsIn(h, g, k) = (IF p = 0 THEN {} ELSE LabelsIn(f, g, p)) /\ h[k] = (IF p = 0 THEN 0 ELSE f[p])
MapMarked(f, g, h, j, k, m, x) ==
  /\ MapsFine(h, j, 1..k)
  /\ LabelsIn(h, j, k) = LabelsIn(f, g, k) \cup {x} /\ h[k] = m /\ \A s \in 1..k : s # k => h[s] = f[s]
  /\ \A s \in 1..k : s # k => LabelsIn(f, g, s) \subseteq LabelsIn(h, j, s)
  /\ \A s \in 1..k : (s # k /\ f[s] # m) => LabelsIn(h, j, s) = LabelsIn(f, g, s)
MapCopied(f, h, k, p) == h = [f EXCEPT ![k] = IF p = 0 THEN 0 ELSE f[p]]
MapWritten(f, g, h, j, k, m, x) ==
  m = (IF f[k] = 0 THEN k ELSE f[k]) /\ h = [f EXCEPT ![k] = m] /\ j = [g EXCEPT ![m] = @ \cup {x}]
WantBegun(w, v, k, p) == (\A s \in 1..(k - 1) : v[s] = w[s]) /\ v[k] = (IF p = 0 THEN {} ELSE w[p])
WantMarked(w, v, k, x) == (\A s \in 1..k : s # k => v[s] = w[s]) /\ v[k] = w[k] \cup {x}

\* A stage that begins has its base's map; one that writes a label has a map.
LEMMA NewMap ==
  ASSUME NEW f \in [Stage -> 0..MaxStage], NEW g \in [Stage -> Marks], NEW k \in Stage, NEW p \in 0..MaxStage, p < k,
         MapsFine(f, g, 1..(k - 1)), NEW h, h = [f EXCEPT ![k] = IF p = 0 THEN 0 ELSE f[p]]
  PROVE  MapBegun(f, g, h, k, p)
<1>0. MaxStage \in Nat /\ Stage = 1..MaxStage
  BY BuildSizes DEF Stage
<1>1. k \in 1..MaxStage /\ k \notin 1..(k - 1) /\ (p # 0 => p \in Stage)
  BY <1>0
<1>2. f[k] = 0
  BY <1>1 DEF MapsFine
<1>3. \A s \in Stage : h[s] = IF s = k THEN IF p = 0 THEN 0 ELSE f[p] ELSE f[s]
  OBVIOUS
<1>4. \A s \in Stage : f[s] \in 0..MaxStage /\ f[s] <= s /\ (f[s] # 0 => f[s] \in Stage /\ f[s] # k /\ f[f[s]] = f[s])
  BY <1>0, <1>2 DEF MapsFine
<1>5. ASSUME NEW s \in Stage, s \notin 1..k PROVE h[s] = 0
  <2>1. s # k /\ s \notin 1..(k - 1)
    BY <1>0, <1>1, <1>5
  <2> QED
    BY <1>3, <2>1 DEF MapsFine
<1>6. ASSUME NEW s \in Stage PROVE h[s] <= s /\ (h[s] # 0 => h[h[s]] = h[s])
  <2>1. CASE s # k
    BY <1>3, <1>4, <2>1
  <2>2. CASE s = k /\ p = 0
    BY <1>0, <1>1, <1>3, <2>2
  <2>3. CASE s = k /\ p # 0
    <3>1. h[s] = f[p] /\ f[p] <= p /\ f[p] \in 0..MaxStage
      BY <1>1, <1>3, <1>4, <2>3
    <3>2. h[s] <= s
      BY <1>0, <1>1, <2>3, <3>1
    <3> QED
      BY <1>1, <1>3, <1>4, <2>3, <3>1, <3>2
  <2> QED
    BY <2>1, <2>2, <2>3
<1>7. ASSUME NEW m \in Stage, h[m] # m PROVE g[m] = {}
  <2>1. f[m] # m
    BY <1>0, <1>1, <1>2, <1>3, <1>7
  <2> QED
    BY <2>1 DEF MapsFine
<1>8. \A s \in 1..(k - 1) : s \in Stage /\ s # k
  BY <1>0, <1>1
<1>9. MapsFine(h, g, 1..k)
  BY <1>5, <1>6, <1>7 DEF MapsFine
<1> QED
  BY <1>1, <1>3, <1>8, <1>9 DEF LabelsIn, MapBegun

\* A stage that writes a label has a map with it, shared as before.
LEMMA MarkedMap ==
  ASSUME NEW f \in [Stage -> 0..MaxStage], NEW g \in [Stage -> Marks], NEW k \in Stage, NEW x,
         MapsFine(f, g, 1..k), NEW m, m = IF f[k] = 0 THEN k ELSE f[k],
         NEW h, h = [f EXCEPT ![k] = m], NEW j, j = [g EXCEPT ![m] = @ \cup {x}]
  PROVE  MapMarked(f, g, h, j, k, m, x)
<1>0. MaxStage \in Nat /\ Stage = 1..MaxStage /\ k \in 1..MaxStage
  BY BuildSizes DEF Stage
<1>1. \A s \in Stage : f[s] \in 0..MaxStage /\ f[s] <= s /\ (f[s] # 0 => f[s] \in Stage /\ f[f[s]] = f[s])
  BY <1>0 DEF MapsFine
<1>2. m \in Stage /\ m <= k /\ m # 0
  BY <1>0, <1>1
<1>3. \A s \in Stage : h[s] = IF s = k THEN m ELSE f[s]
  OBVIOUS
<1>4. \A s \in Stage : j[s] = IF s = m THEN g[m] \cup {x} ELSE g[s]
  BY <1>2
<1>5. h[m] = m
  BY <1>1, <1>2, <1>3
<1>6. ASSUME NEW s \in Stage, s \notin 1..k PROVE h[s] = 0
  <2>1. s # k
    BY <1>0, <1>6
  <2> QED
    BY <1>3, <1>6, <2>1 DEF MapsFine
<1>7. ASSUME NEW s \in Stage PROVE h[s] <= s /\ (h[s] # 0 => h[h[s]] = h[s])
  <2>1. CASE s = k
    BY <1>2, <1>3, <1>5, <2>1
  <2>2. CASE s # k
    <3>1. h[s] = f[s] /\ f[s] <= s
      BY <1>1, <1>3, <2>2
    <3>2. ASSUME f[s] # 0 PROVE h[f[s]] = f[s]
      <4>1. f[s] \in Stage /\ f[f[s]] = f[s]
        BY <1>1, <3>2
      <4>2. CASE f[s] = k
        <5>1. f[k] = k /\ m = k
          BY <3>2, <4>1, <4>2
        <5> QED
          BY <1>3, <4>2, <5>1
      <4>3. CASE f[s] # k
        BY <1>3, <4>1, <4>3
      <4> QED
        BY <4>2, <4>3
    <3> QED
      BY <3>1, <3>2
  <2> QED
    BY <2>1, <2>2
<1>8. ASSUME NEW t \in Stage, h[t] # t PROVE j[t] = {}
  <2>1. t # m
    BY <1>5, <1>8
  <2>2. f[t] # t
    BY <1>0, <1>2, <1>3, <1>8
  <2> QED
    BY <1>4, <2>1, <2>2 DEF MapsFine
<1>9. MapsFine(h, j, 1..k)
  BY <1>6, <1>7, <1>8 DEF MapsFine
<1>10. LabelsIn(h, j, k) = LabelsIn(f, g, k) \cup {x}
  <2>1. h[k] = m /\ j[m] = g[m] \cup {x}
    BY <1>2, <1>3, <1>4
  <2>2. LabelsIn(h, j, k) = g[m] \cup {x}
    BY <1>2, <2>1 DEF LabelsIn
  <2>3. CASE f[k] = 0
    <3>1. m = k /\ f[k] # k
      BY <1>2, <2>3
    <3>2. g[k] = {}
      BY <3>1 DEF MapsFine
    <3> QED
      BY <2>2, <2>3, <3>1, <3>2 DEF LabelsIn
  <2>4. CASE f[k] # 0
    BY <2>2, <2>4 DEF LabelsIn
  <2> QED
    BY <2>3, <2>4
<1>11. ASSUME NEW s \in 1..k, s # k
       PROVE  /\ h[s] = f[s] /\ LabelsIn(f, g, s) \subseteq LabelsIn(h, j, s)
              /\ f[s] # m => LabelsIn(h, j, s) = LabelsIn(f, g, s)
  <2>1. s \in Stage
    BY <1>0
  <2>2. h[s] = f[s]
    BY <1>3, <1>11, <2>1
  <2>3. CASE f[s] = 0
    BY <2>2, <2>3 DEF LabelsIn
  <2>4. CASE f[s] # 0
    <3>1. f[s] \in Stage /\ LabelsIn(f, g, s) = g[f[s]] /\ LabelsIn(h, j, s) = j[f[s]]
      BY <1>1, <2>1, <2>2, <2>4 DEF LabelsIn
    <3> QED
      BY <1>4, <2>2, <3>1
  <2> QED
    BY <2>3, <2>4
<1>12. h[k] = m
  BY <1>3
<1> QED
  BY <1>9, <1>10, <1>11, <1>12 DEF MapMarked

\* What a step does to the labels of a build: nothing, a stage begins, or one
\* label is written.
LabelsRest(c) ==
  /\ Started(c)' = Started(c) /\ SameMaps(c)
  /\ \A s \in Started(c) : SoFar(c, s)' = SoFar(c, s)
LabelsBegin(c, k, p) ==
  /\ k = cur[c] /\ p = Doc(c)[k].from /\ k \in Stage /\ p \in 0..MaxStage /\ p < k /\ k <= LastStage(c)
  /\ Started(c) = 1..(k - 1) /\ Started(c)' = 1..k
  /\ maps'[c] = maps[c] /\ mapOf'[c] = [mapOf[c] EXCEPT ![k] = IF p = 0 THEN 0 ELSE mapOf[c][p]]
  /\ \A s \in Started(c) : SoFar(c, s)' = SoFar(c, s)
  /\ SoFar(c, k)' = (IF p = 0 THEN {} ELSE SoFar(c, p))
LabelsGrow(c, k, m, x) ==
  /\ k = cur[c] /\ k \in Stage /\ k <= LastStage(c) /\ Started(c) = 1..k /\ Started(c)' = 1..k
  /\ m = IF mapOf[c][k] = 0 THEN k ELSE mapOf[c][k]
  /\ mapOf'[c] = [mapOf[c] EXCEPT ![k] = m] /\ maps'[c] = [maps[c] EXCEPT ![m] = @ \cup {x}]
  /\ \A s \in Started(c) : s # k => SoFar(c, s)' = SoFar(c, s)
  /\ SoFar(c, k)' = SoFar(c, k) \cup {x}

\* Every step of a build that is not published yet does one of these.
LEMMA LabelsMove ==
  ASSUME StageTypes, PublishTypes, AtStage, workDir \in [Builder -> BOOLEAN], OnStep, BuildNext,
         NEW c \in Builder, bpc'[c] \in WorkPlaces
  PROVE  /\ bpc[c] \in WorkPlaces
         /\ LabelsRest(c) \/ (\E k, p : LabelsBegin(c, k, p)) \/ (\E k, m, x : LabelsGrow(c, k, m, x))
<1>m. BuildDoes(c)
  BY EveryBuildDoes
<1>j. Doc(c)' = Doc(c)
  BY JobStays DEF Doc
<1>d. PICK d : d = Doc(c)
  OBVIOUS
<1>k. PICK k : k = cur[c]
  OBVIOUS
<1>n. PICK n : n = step[c]
  OBVIOUS
<1>1. n \in Nat \ {0} /\ Document(d) /\ k \in Nat \ {0}
  BY <1>d, <1>k, <1>n, DocumentOf DEF StageTypes
<1>2. bpc[c] # "idle" => k \in Stage /\ k \in 1..Len(d) /\ k <= LastStage(c) /\ d[k].from \in 0..MaxStage /\ d[k].from < k /\ Mark(c) = <<k, n>>
  <2>1. cur[c] \in Nat /\ MaxStage \in Nat
    BY BuildSizes DEF StageTypes
  <2>2. Mark(c) = <<k, n>>
    BY <1>k, <1>n DEF Mark
  <2>3. Len(d) = LastStage(c) /\ LastStage(c) \in Nat
    BY <1>d, DocumentOf
  <2>4. bpc[c] # "idle" => cur[c] \in Stage /\ cur[c] <= LastStage(c) /\ At(c).from \in 0..MaxStage /\ At(c).from < cur[c]
    BY AtWork
  <2>5. At(c) = d[k]
    BY <1>d, <1>k DEF At
  <2>6. ASSUME cur[c] \in Stage, cur[c] <= LastStage(c) PROVE k \in 1..Len(d)
    BY <1>k, <2>1, <2>3, <2>6 DEF Stage
  <2> QED
    BY <1>k, <2>2, <2>4, <2>5, <2>6
<1>3. ToDo(c) => bpc[c] = "steps" /\ Instr(c) = d[k].steps[n]
  BY <1>d, <1>k, <1>n DEF ToDo, Instr, At
<1>4. \A s : SoFar(c, s) = IF s = k /\ bpc[c] \in {"steps", "run"} THEN BaseLabels(d, s) \cup LabelledBy(d, s, n) ELSE Labels(d, s)
  BY <1>d, <1>k, <1>n DEF SoFar
<1>5. ASSUME NEW s
      PROVE  SoFar(c, s)' = IF s = cur'[c] /\ bpc'[c] \in {"steps", "run"} THEN BaseLabels(d, s) \cup LabelledBy(d, s, step'[c]) ELSE Labels(d, s)
  BY <1>j, <1>d DEF SoFar
<1>6. Started(c) = IF bpc[c] \in {"idle", "base"} THEN 1..(k - 1) ELSE 1..k
  BY <1>k DEF Started
<1>7. Started(c)' = IF bpc'[c] \in {"idle", "base"} THEN 1..(cur'[c] - 1) ELSE 1..cur'[c]
  BY DEF Started
<1>8. CASE Idles(c)
  <2>1. bpc'[c] = bpc[c] /\ cur'[c] = k /\ step'[c] = n /\ SameMaps(c)
    BY <1>8, <1>k, <1>n DEF Idles
  <2>2. Started(c)' = Started(c) /\ \A s : SoFar(c, s)' = SoFar(c, s)
    BY <1>4, <1>5, <1>6, <1>7, <2>1
  <2> QED
    BY <2>1, <2>2 DEF LabelsRest
<1>9. CASE BeginsFirst(c)
  <2>1. bpc[c] = "idle" /\ bpc'[c] = "base" /\ cur'[c] = k /\ SameMaps(c)
    BY <1>9, <1>k DEF BeginsFirst
  <2>2. Started(c)' = Started(c) /\ \A s : SoFar(c, s)' = SoFar(c, s)
    BY <1>4, <1>5, <1>6, <1>7, <2>1
  <2> QED
    BY <2>1, <2>2 DEF LabelsRest, WorkPlaces
<1>10. CASE Resolves(c)
  <2>1. bpc[c] = "base" /\ bpc'[c] = "steps" /\ cur'[c] = k /\ step'[c] = n /\ n = 1 /\ maps'[c] = maps[c]
    BY <1>10, <1>k, <1>n DEF Resolves, OnStep
  <2>p. PICK p : p = d[k].from
    OBVIOUS
  <2>2. mapOf'[c] = [mapOf[c] EXCEPT ![k] = IF p = 0 THEN 0 ELSE mapOf[c][p]]
    BY <1>10, <1>d, <1>k, <2>p DEF Resolves, At
  <2>3. Started(c) = 1..(k - 1) /\ Started(c)' = 1..k
    BY <1>6, <1>7, <2>1
  <2>4. \A s \in Started(c) : s # k
    BY <1>1, <2>3
  <2>5. \A s \in Started(c) : SoFar(c, s)' = SoFar(c, s)
    BY <1>4, <1>5, <2>1, <2>4
  <2>6. SoFar(c, k)' = (IF p = 0 THEN {} ELSE SoFar(c, p))
    <3>1. SoFar(c, k)' = BaseLabels(d, k) \cup {}
      BY <1>5, <2>1, NothingYet
    <3>2. SoFar(c, p) = Labels(d, p)
      BY <1>4, <2>1
    <3> QED
      BY <2>p, <3>1, <3>2 DEF BaseLabels
  <2>7. k \in Stage /\ p \in 0..MaxStage /\ p < k /\ k <= LastStage(c)
    BY <1>2, <2>1, <2>p
  <2>8. LabelsBegin(c, k, p)
    BY <1>d, <1>k, <2>1, <2>p, <2>2, <2>3, <2>5, <2>6, <2>7 DEF LabelsBegin
  <2> QED
    BY <2>1, <2>8 DEF WorkPlaces
<1>11. CASE WritesLabel(c)
  <2>1. bpc[c] = "steps" /\ bpc'[c] = "steps" /\ cur'[c] = k /\ step'[c] = n + 1 /\ d[k].steps[n].op = "label"
    BY <1>3, <1>11, <1>k, <1>n DEF WritesLabel
  <2>m. PICK m : m = IF mapOf[c][k] = 0 THEN k ELSE mapOf[c][k]
    OBVIOUS
  <2>2. mapOf'[c] = [mapOf[c] EXCEPT ![k] = m] /\ maps'[c] = [maps[c] EXCEPT ![m] = @ \cup {<<k, n>>}]
    BY <1>2, <1>11, <1>k, <2>1, <2>m DEF WritesLabel
  <2>3. Started(c) = 1..k /\ Started(c)' = 1..k
    BY <1>6, <1>7, <2>1
  <2>4. \A s \in Started(c) : s # k => SoFar(c, s)' = SoFar(c, s)
    BY <1>4, <1>5, <2>1
  <2>5. SoFar(c, k)' = SoFar(c, k) \cup {<<k, n>>}
    <3>0. PICK op : op = d[k].steps[n].op
      OBVIOUS
    <3>a. AddsLabel(d, k, n, op)
      BY <1>1, <3>0, OneMore
    <3>1. LabelledBy(d, k, n + 1) = LabelledBy(d, k, n) \cup {<<k, n>>}
      BY <2>1, <3>0, <3>a DEF AddsLabel
    <3> QED
      BY <1>4, <1>5, <2>1, <3>1
  <2>6. LabelsGrow(c, k, m, <<k, n>>)
    BY <1>2, <1>k, <2>1, <2>m, <2>2, <2>3, <2>4, <2>5 DEF LabelsGrow
  <2> QED
    BY <2>1, <2>6 DEF WorkPlaces
<1>12. ASSUME bpc[c] \in {"steps", "run"}, bpc'[c] \in {"steps", "run"}, cur'[c] = k, SameMaps(c),
              step'[c] = n \/ (step'[c] = n + 1 /\ d[k].steps[n].op # "label")
       PROVE  bpc[c] \in WorkPlaces /\ LabelsRest(c)
  <2>1. Started(c)' = Started(c)
    BY <1>6, <1>7, <1>12
  <2>2. LabelledBy(d, k, step'[c]) = LabelledBy(d, k, n)
    <3>1. CASE step'[c] = n
      BY <3>1
    <3>2. CASE step'[c] = n + 1 /\ d[k].steps[n].op # "label"
      <4>0. PICK op : op = d[k].steps[n].op
        OBVIOUS
      <4>1. AddsLabel(d, k, n, op)
        BY <1>1, <4>0, OneMore
      <4> QED
        BY <3>2, <4>0, <4>1 DEF AddsLabel
    <3> QED
      BY <1>12, <3>1, <3>2
  <2>3. \A s : SoFar(c, s)' = SoFar(c, s)
    BY <1>4, <1>5, <1>12, <2>2
  <2> QED
    BY <1>12, <2>1, <2>3 DEF LabelsRest, WorkPlaces
<1>13. CASE Copies(c)
  BY <1>3, <1>k, <1>n, <1>12, <1>13 DEF Copies
<1>14. CASE RunStarts(c)
  BY <1>3, <1>k, <1>n, <1>12, <1>14 DEF RunStarts
<1>15. CASE RunEnds(c)
  <2>1. bpc[c] = "run" /\ d[k].steps[n].op = "run"
    BY <1>d, <1>k, <1>n, <1>15 DEF RunEnds, OnStep
  <2> QED
    BY <1>k, <1>n, <1>12, <1>15, <2>1 DEF RunEnds
<1>16. CASE Finishes(c)
  <2>1. bpc[c] = "steps" /\ bpc'[c] \notin {"steps", "run"} /\ ~ToDo(c) /\ SameMaps(c)
    BY <1>16 DEF Finishes
  <2>2. n = StepsOf(d, k) + 1
    <3>1. StepsOf(d, k) \in Nat /\ n <= StepsOf(d, k) + 1
      BY <1>d, <1>k, <1>n, <1>1, <1>2, <2>1 DEF OnStep, Document, StepsOf
    <3>2. ~(n <= StepsOf(d, k))
      BY <1>d, <1>k, <1>n, <2>1 DEF ToDo, StepsOf, At
    <3> QED
      BY <1>1, <3>1, <3>2
  <2>3. Labels(d, k) = BaseLabels(d, k) \cup LabelledBy(d, k, n)
    BY <1>1, <1>2, <2>1, <2>2, LabelsUnfold
  <2>4. \A s : SoFar(c, s)' = SoFar(c, s)
    BY <1>4, <1>5, <2>1, <2>3
  <2>5. Started(c)' = Started(c)
    <3>1. Started(c) = 1..k
      BY <1>6, <2>1
    <3>2. (bpc'[c] = "sidecar" /\ cur'[c] = k) \/ (bpc'[c] = "base" /\ cur'[c] = k + 1)
      BY <1>16, <1>k DEF Finishes
    <3>3. (k + 1) - 1 = k
      BY <1>1
    <3> QED
      BY <1>7, <3>1, <3>2, <3>3
  <2> QED
    BY <2>1, <2>4, <2>5 DEF LabelsRest, WorkPlaces
<1> QED
  BY <1>m, <1>8, <1>9, <1>10, <1>11, <1>13, <1>14, <1>15, <1>16 DEF BuildDoes

\* Two stages stages with one base share it.
LEMMA SharedBase ==
  ASSUME NEW doc, Document(doc), Shared(doc) = {}, NEW k \in 1..Len(doc), NEW c \in 1..(k - 1)
  PROVE  doc[k].from # 0 => doc[c].from # doc[k].from
<1>1. Len(doc) \in Nat /\ c \in 1..Len(doc) /\ c # k /\ k \in Nat
  BY DEF Document
<1>2. doc[k].from # 0 => doc[k].from \in 1..Len(doc)
  BY <1>1 DEF Document
<1>3. ASSUME doc[k].from # 0, doc[c].from = doc[k].from PROVE FALSE
  BY <1>1, <1>2, <1>3 DEF Shared
<1> QED
  BY <1>3

\* When a stage begins with its base's map, the maps fit ...
LEMMA FitBegins ==
  ASSUME NEW doc, Document(doc), NEW f \in [Stage -> 0..MaxStage], NEW g \in [Stage -> Marks],
         NEW k \in Stage, k \in 1..Len(doc), NEW p \in 0..MaxStage, p = doc[k].from, p < k,
         NEW h, MapCopied(f, h, k, p),
         NEW w, NEW v, WantBegun(w, v, k, p),
         MapsFit(doc, 1..(k - 1), f, g, w)
  PROVE  MapsFit(doc, 1..k, h, g, v)
<1>0. MapsFine(f, g, 1..(k - 1)) /\ \A s \in 1..(k - 1) : w[s] \subseteq LabelsIn(f, g, s)
  BY DEF MapsFit
<1>a. MapBegun(f, g, h, k, p)
  BY <1>0, NewMap DEF MapCopied
<1>b. (\A s \in 1..(k - 1) : v[s] = w[s]) /\ v[k] = (IF p = 0 THEN {} ELSE w[p])
  BY DEF WantBegun
<1>1. /\ MapsFine(h, g, 1..k)
      /\ \A s \in 1..(k - 1) : LabelsIn(h, g, s) = LabelsIn(f, g, s) /\ h[s] = f[s]
      /\ LabelsIn(h, g, k) = (IF p = 0 THEN {} ELSE LabelsIn(f, g, p)) /\ h[k] = (IF p = 0 THEN 0 ELSE f[p])
  BY <1>a DEF MapBegun
<1>2. k \in Nat /\ (\A s \in 1..k : s = k \/ s \in 1..(k - 1)) /\ (\A s \in 1..(k - 1) : s \in 1..k /\ s # k /\ s < k)
  BY BuildSizes DEF Stage
<1>3. p # 0 => p \in 1..(k - 1)
  BY <1>2
<1>4. ASSUME NEW s \in 1..k PROVE v[s] \subseteq LabelsIn(h, g, s)
  <2>1. CASE s = k
    BY <1>b, <1>0, <1>1, <1>3, <2>1
  <2>2. CASE s \in 1..(k - 1)
    BY <1>b, <1>0, <1>1, <2>2
  <2> QED
    BY <1>2, <2>1, <2>2
<1>5. ASSUME Shared(doc) = {} PROVE MapsOwn(doc, 1..k, h, g, v)
  <2>0. MapsOwn(doc, 1..(k - 1), f, g, w)
    BY <1>5 DEF MapsFit
  <2>1. \A c \in 1..(k - 1) : p # 0 => doc[c].from # p
    BY <1>5, SharedBase
  <2>2. p # 0 => ~HasChild(doc, 1..(k - 1), p)
    BY <2>1 DEF HasChild
  <2>3. \A s : HasChild(doc, 1..(k - 1), s) => HasChild(doc, 1..k, s)
    BY <1>2 DEF HasChild
  <2>4. HasChild(doc, 1..k, p)
    BY <1>2 DEF HasChild, Stage
  <2>5. ASSUME NEW s \in 1..k, NEW t \in 1..k, s < t, h[s] = h[t], h[s] # 0 PROVE HasChild(doc, 1..k, s)
    <3>1. s \in 1..(k - 1)
      BY <1>2, <2>5
    <3>2. CASE t \in 1..(k - 1)
      BY <1>1, <2>0, <2>3, <2>5, <3>1, <3>2 DEF MapsOwn
    <3>3. CASE t = k
      <4>1. p # 0 /\ f[s] = f[p] /\ f[s] # 0 /\ p \in 1..(k - 1)
        BY <1>1, <1>3, <2>5, <3>1, <3>3
      <4>2. CASE s = p
        BY <2>4, <4>2
      <4>3. CASE s < p
        BY <2>0, <2>3, <3>1, <4>1, <4>3 DEF MapsOwn
      <4>4. CASE p < s
        BY <2>0, <2>2, <3>1, <4>1, <4>4 DEF MapsOwn
      <4>5. s = p \/ s < p \/ p < s
        BY <1>2, <3>1, <4>1
      <4> QED
        BY <4>2, <4>3, <4>4, <4>5
    <3> QED
      BY <1>2, <3>2, <3>3
  <2>6. ASSUME NEW s \in 1..k, ~HasChild(doc, 1..k, s) PROVE LabelsIn(h, g, s) = v[s]
    <3>1. CASE s \in 1..(k - 1)
      BY <1>b, <1>1, <2>0, <2>3, <2>6, <3>1 DEF MapsOwn
    <3>2. CASE s = k /\ p = 0
      BY <1>b, <1>1, <3>2
    <3>3. CASE s = k /\ p # 0
      <4>1. LabelsIn(f, g, p) = w[p]
        BY <1>3, <2>0, <2>2, <3>3 DEF MapsOwn
      <4> QED
        BY <1>b, <1>1, <3>3, <4>1
    <3> QED
      BY <1>2, <3>1, <3>2, <3>3
  <2> QED
    BY <2>5, <2>6 DEF MapsOwn
<1> QED
  BY <1>1, <1>4, <1>5 DEF MapsFit

\* ... and when it writes a label.
LEMMA FitGrows ==
  ASSUME NEW doc, NEW f \in [Stage -> 0..MaxStage], NEW g \in [Stage -> Marks],
         NEW k \in Stage, NEW m, NEW x, NEW h, NEW j, MapWritten(f, g, h, j, k, m, x),
         NEW w, NEW v, WantMarked(w, v, k, x),
         MapsFit(doc, 1..k, f, g, w)
  PROVE  MapsFit(doc, 1..k, h, j, v)
<1>0. MapsFine(f, g, 1..k) /\ \A s \in 1..k : w[s] \subseteq LabelsIn(f, g, s)
  BY DEF MapsFit
<1>e. m = (IF f[k] = 0 THEN k ELSE f[k]) /\ h = [f EXCEPT ![k] = m] /\ j = [g EXCEPT ![m] = @ \cup {x}]
  BY DEF MapWritten
<1>a. MapMarked(f, g, h, j, k, m, x)
  BY <1>0, <1>e, MarkedMap, Zenon
<1>b. (\A s \in 1..k : s # k => v[s] = w[s]) /\ v[k] = w[k] \cup {x}
  BY DEF WantMarked
<1>1. /\ MapsFine(h, j, 1..k)
      /\ LabelsIn(h, j, k) = LabelsIn(f, g, k) \cup {x} /\ h[k] = m /\ \A s \in 1..k : s # k => h[s] = f[s]
      /\ \A s \in 1..k : s # k => LabelsIn(f, g, s) \subseteq LabelsIn(h, j, s)
      /\ \A s \in 1..k : (s # k /\ f[s] # m) => LabelsIn(h, j, s) = LabelsIn(f, g, s)
  BY <1>a DEF MapMarked
<1>2. k \in Nat /\ k \in 1..k /\ k # 0 /\ \A s \in 1..k : s \in Stage /\ s # 0 /\ s <= k /\ (s # k => s < k)
  BY BuildSizes DEF Stage
<1>3. \A s \in Stage : f[s] \in 0..MaxStage /\ f[s] <= s
  BY <1>0 DEF MapsFine
<1>4. ASSUME NEW s \in 1..k PROVE v[s] \subseteq LabelsIn(h, j, s)
  <2>1. CASE s = k
    BY <1>b, <1>0, <1>1, <1>2, <2>1
  <2>2. CASE s # k
    BY <1>b, <1>0, <1>1, <2>2
  <2> QED
    BY <2>1, <2>2
<1>5. ASSUME NEW s \in 1..k, s # k, f[s] = m PROVE s < k /\ f[s] = f[k] /\ f[s] # 0
  <2>1. CASE f[k] = 0
    <3>1. f[s] = k /\ f[s] <= s /\ s < k
      BY <1>e, <1>2, <1>3, <1>5, <2>1
    <3> QED
      BY <1>e, <1>2, <1>5, <3>1
  <2>2. CASE f[k] # 0
    BY <1>e, <1>2, <1>5, <2>2
  <2> QED
    BY <2>1, <2>2
<1>6. ASSUME MapsOwn(doc, 1..k, f, g, w) PROVE MapsOwn(doc, 1..k, h, j, v)
  <2>1. ASSUME NEW s \in 1..k, NEW t \in 1..k, s < t, h[s] = h[t], h[s] # 0 PROVE HasChild(doc, 1..k, s)
    <3>1. s # k
      BY <1>2, <2>1
    <3>2. CASE t = k
      <4>1. f[s] = m
        BY <1>1, <2>1, <3>1, <3>2
      <4> QED
        BY <1>5, <1>6, <2>1, <3>1, <3>2, <4>1 DEF MapsOwn
    <3>3. CASE t # k
      BY <1>1, <1>6, <2>1, <3>1, <3>3 DEF MapsOwn
    <3> QED
      BY <3>2, <3>3
  <2>2. ASSUME NEW s \in 1..k, ~HasChild(doc, 1..k, s) PROVE LabelsIn(h, j, s) = v[s]
    <3>0. LabelsIn(f, g, s) = w[s]
      BY <1>6, <2>2 DEF MapsOwn
    <3>1. CASE s = k
      BY <1>b, <1>1, <3>0, <3>1
    <3>2. CASE s # k
      <4>1. f[s] # m
        BY <1>2, <1>5, <1>6, <2>2, <3>2 DEF MapsOwn
      <4> QED
        BY <1>b, <1>1, <3>0, <3>2, <4>1
    <3> QED
      BY <3>1, <3>2
  <2> QED
    BY <2>1, <2>2 DEF MapsOwn
<1> QED
  BY <1>1, <1>4, <1>6 DEF MapsFit

\* So the labels stay right.
LEMMA LabelsKeptStep ==
  ASSUME StageTypes, PublishTypes, AtStage, workDir \in [Builder -> BOOLEAN], OnStep, LabelsKept, BuildNext
  PROVE  LabelsKept'
<1> SUFFICES ASSUME NEW c \in Builder, bpc'[c] \in WorkPlaces
             PROVE  MapsFit(Doc(c), Started(c)', mapOf'[c], maps'[c], LabelsDue(c)')
  BY JobStays DEF LabelsKept, Doc
<1>d. PICK d : d = Doc(c)
  OBVIOUS
<1>w. PICK w : w = LabelsDue(c)
  OBVIOUS
<1>v. PICK v : v = LabelsDue(c)'
  OBVIOUS
<1>f. PICK f : f = mapOf[c]
  OBVIOUS
<1>g. PICK g : g = maps[c]
  OBVIOUS
<1>1. Document(d) /\ f \in [Stage -> 0..MaxStage] /\ g \in [Stage -> Marks]
  BY <1>d, <1>f, <1>g, DocumentOf DEF StageTypes
<1>2. bpc[c] \in WorkPlaces /\ (LabelsRest(c) \/ (\E k, p : LabelsBegin(c, k, p)) \/ (\E k, m, x : LabelsGrow(c, k, m, x)))
  BY LabelsMove
<1>3. MapsFit(d, Started(c), f, g, w)
  BY <1>2, <1>d, <1>f, <1>g, <1>w DEF LabelsKept
<1>4. \A s \in Started(c) : w[s] = SoFar(c, s)
  BY <1>w DEF LabelsDue
<1>5. \A s \in Started(c)' : v[s] = SoFar(c, s)'
  BY <1>v DEF LabelsDue
<1>6. CASE LabelsRest(c)
  <2>1. mapOf'[c] = f /\ maps'[c] = g /\ Started(c)' = Started(c)
    BY <1>6, <1>f, <1>g DEF LabelsRest, SameMaps
  <2>2. v = w
    BY <1>6, <1>v, <1>w DEF LabelsRest, LabelsDue
  <2> QED
    BY <1>3, <1>d, <1>v, <2>1, <2>2
<1>7. ASSUME NEW k, NEW p, LabelsBegin(c, k, p) PROVE MapsFit(d, Started(c)', mapOf'[c], maps'[c], v)
  <2>1. /\ k \in Stage /\ k \in 1..Len(d) /\ p \in 0..MaxStage /\ p = d[k].from /\ p < k
        /\ Started(c) = 1..(k - 1) /\ Started(c)' = 1..k /\ maps'[c] = g
        /\ k \in 1..k /\ (p # 0 => p \in 1..(k - 1)) /\ \A s \in 1..(k - 1) : s \in 1..k
    <3>1. /\ p = d[k].from /\ k \in Stage /\ p \in 0..MaxStage /\ p < k /\ k <= Len(d)
          /\ Started(c) = 1..(k - 1) /\ Started(c)' = 1..k /\ maps'[c] = g
      BY <1>7, <1>d, <1>g, DocumentOf DEF LabelsBegin
    <3>2. k \in Nat \ {0} /\ MaxStage \in Nat /\ Len(d) \in Nat
      BY <1>1, <3>1, BuildSizes DEF Document
    <3> QED
      BY <3>1, <3>2
  <2>h. PICK h : h = mapOf'[c]
    OBVIOUS
  <2>2. MapCopied(f, h, k, p)
    BY <1>7, <1>f, <2>h DEF LabelsBegin, MapCopied
  <2>3. \A s \in 1..(k - 1) : v[s] = w[s]
    BY <1>4, <1>5, <1>7, <2>1 DEF LabelsBegin
  <2>4. v[k] = (IF p = 0 THEN {} ELSE w[p])
    BY <1>4, <1>5, <1>7, <2>1 DEF LabelsBegin
  <2>5. MapsFit(d, 1..(k - 1), f, g, w)
    BY <1>3, <2>1
  <2>6. WantBegun(w, v, k, p)
    BY <2>3, <2>4 DEF WantBegun
  <2>7. MapsFit(d, 1..k, h, g, v)
    BY <1>1, <2>1, <2>2, <2>5, <2>6, FitBegins, Zenon
  <2> QED
    BY <2>1, <2>h, <2>7
<1>8. ASSUME NEW k, NEW m, NEW x, LabelsGrow(c, k, m, x) PROVE MapsFit(d, Started(c)', mapOf'[c], maps'[c], v)
  <2>h. PICK h : h = mapOf'[c]
    OBVIOUS
  <2>j. PICK j : j = maps'[c]
    OBVIOUS
  <2>1. k \in Stage /\ Started(c) = 1..k /\ Started(c)' = 1..k /\ MapWritten(f, g, h, j, k, m, x)
    BY <1>8, <1>f, <1>g, <2>h, <2>j DEF LabelsGrow, MapWritten
  <2>2. k \in 1..k
    BY <2>1, BuildSizes DEF Stage
  <2>3. \A s \in 1..k : s # k => v[s] = w[s]
    BY <1>4, <1>5, <1>8, <2>1 DEF LabelsGrow
  <2>4. v[k] = w[k] \cup {x}
    BY <1>4, <1>5, <1>8, <2>1, <2>2 DEF LabelsGrow
  <2>5. MapsFit(d, 1..k, f, g, w)
    BY <1>3, <2>1
  <2>6. WantMarked(w, v, k, x)
    BY <2>3, <2>4 DEF WantMarked
  <2>7. MapsFit(d, 1..k, h, j, v)
    BY <1>1, <2>1, <2>5, <2>6, FitGrows, Zenon
  <2> QED
    BY <2>1, <2>h, <2>j, <2>7
<1> QED
  BY <1>d, <1>v, <1>2, <1>6, <1>7, <1>8

\* The labels that are published: those the last stage is to have, and no
\* others unless a map is shared.
SideOf(doc, data) ==
  LET want == Labels(doc, Len(doc)) IN want \subseteq data /\ (Shared(doc) = {} => data = want)
SidesRight ==
  /\ tagSide.by \in Builder => SideOf(Doc(tagSide.by), tagSide.data)
  /\ \A b \in Builder : oldSidecar[b].by \in Builder => SideOf(Doc(oldSidecar[b].by), oldSidecar[b].data)
  /\ \A b \in Builder : bpc[b] \in {"push", "install", "image"} => SideOf(Doc(b), sidecarOf[b])

\* The labels that the last stage has when all is done are such.
LEMMA LastLabels ==
  ASSUME NEW doc, Document(doc), NEW k, k = Len(doc), k # 0, NEW f, NEW g, NEW w, w[k] = Labels(doc, k),
         MapsFit(doc, 1..k, f, g, w)
  PROVE  SideOf(doc, LabelsIn(f, g, k))
<1>1. k \in Nat /\ k \in 1..k /\ \A c \in 1..k : doc[c].from < c /\ doc[c].from \in Nat /\ c <= k /\ c \in Nat
  BY DEF Document
<1>2. \A c \in 1..k : doc[c].from # k
  BY <1>1
<1>3. ~HasChild(doc, 1..k, k)
  BY <1>2 DEF HasChild
<1>4. Labels(doc, k) \subseteq LabelsIn(f, g, k)
  BY <1>1 DEF MapsFit
<1>5. ASSUME Shared(doc) = {} PROVE LabelsIn(f, g, k) = Labels(doc, k)
  BY <1>1, <1>3, <1>5 DEF MapsFit, MapsOwn
<1> QED
  BY <1>4, <1>5 DEF SideOf

\* Where the published labels come from.
SideMoves(c) ==
  bpc'[c] \in {"push", "install", "image"} =>
    \/ bpc[c] \in {"push", "install", "image"} /\ sidecarOf'[c] = sidecarOf[c]
    \/ bpc[c] = "sidecar" /\ sidecarOf'[c] = LabelsIn(mapOf[c], maps[c], LastStage(c))
TagSideMoves ==
  /\ \/ UNCHANGED tagSide
     \/ \E b \in Builder : bpc[b] = "install" /\ tagSide' = [by |-> b, data |-> sidecarOf[b]]
     \/ \E b \in Builder : tagSide' = oldSidecar[b]
  /\ \A c \in Builder : oldSidecar'[c] \in {oldSidecar[c], tagSide}
\* Every step moves the published labels so (publishImage, installImage).
LEMMA SidesMove ==
  ASSUME StageTypes, PublishTypes, BuildNext
  PROVE  TagSideMoves /\ \A c \in Builder : SideMoves(c)
<1> USE DEF tagVars, stageVars, sideVars, restVars
<1> DEFINE Good == TagSideMoves /\ \A c \in Builder : SideMoves(c)
<1>1. ASSUME NEW b \in Builder, Begin(b) \/ ResolveBase(b) \/ ApplyCopy(b) \/ ApplyLabel(b) \/ BuildRun(b) PROVE Good
  <2>1. /\ UNCHANGED <<tagSide, oldSidecar, sidecarOf>>
        /\ UNCHANGED bpc \/ \E p \in {"base", "steps", "run", "cleanup"} : bpc' = [bpc EXCEPT ![b] = p]
    BY <1>1 DEF Begin, ResolveBase, ApplyCopy, ApplyLabel, BuildRun, Goes, Gives
  <2> QED
    BY <2>1 DEF TagSideMoves, SideMoves, PublishTypes, StageTypes
<1>2. ASSUME NEW b \in Builder, BuildRunEnds(b) \/ StageFails(b) \/ Finish(b) \/ CleanupAll(b) \/ CheckGuestOutput(b) \/ BuildDies(b)
      PROVE  Good
  <2>1. /\ UNCHANGED <<tagSide, oldSidecar, sidecarOf>>
        /\ UNCHANGED bpc \/ \E p \in {"base", "steps", "sidecar", "cleanup", "ended", "dead"} : bpc' = [bpc EXCEPT ![b] = p]
    BY <1>2 DEF BuildRunEnds, StageFails, Finish, CleanupAll, CheckGuestOutput, BuildDies, Goes, Gives
  <2> QED
    BY <2>1 DEF TagSideMoves, SideMoves, PublishTypes, StageTypes
<1>3. ASSUME NEW b \in Builder, NEW ok \in BOOLEAN, WriteSidecar(b, ok) PROVE Good
  <2>1. UNCHANGED <<tagSide, oldSidecar>> /\ bpc[b] = "sidecar"
    BY <1>3 DEF WriteSidecar
  <2>2. \E p : bpc' = [bpc EXCEPT ![b] = p]
    BY <1>3 DEF WriteSidecar, Goes, Gives
  <2>3. sidecarOf' = [sidecarOf EXCEPT ![b] = LabelsIn(mapOf[b], maps[b], LastStage(b))]
    BY <1>3 DEF WriteSidecar, LabelsIn
  <2> QED
    BY <2>1, <2>2, <2>3 DEF TagSideMoves, SideMoves, PublishTypes, StageTypes
<1>4. ASSUME NEW b \in Builder, NEW ok \in BOOLEAN, PushStageImage(b, ok) PROVE Good
  <2>1. /\ UNCHANGED <<tagSide, oldSidecar, sidecarOf>> /\ bpc[b] = "push"
        /\ \E p : bpc' = [bpc EXCEPT ![b] = p]
    BY <1>4 DEF PushStageImage, GivesUp, Goes, Gives
  <2> QED
    BY <2>1 DEF TagSideMoves, SideMoves, PublishTypes, StageTypes
<1>5. ASSUME NEW b \in Builder, NEW ok \in BOOLEAN, InstallSidecar(b, ok) PROVE Good
  <2>1. /\ oldSidecar' = [oldSidecar EXCEPT ![b] = tagSide] /\ UNCHANGED sidecarOf /\ bpc[b] = "install"
        /\ UNCHANGED tagSide \/ tagSide' = [by |-> b, data |-> sidecarOf[b]]
        /\ \E p : bpc' = [bpc EXCEPT ![b] = p]
    BY <1>5 DEF InstallSidecar, GivesUp, Goes, Gives
  <2> QED
    BY <2>1 DEF TagSideMoves, SideMoves, PublishTypes, StageTypes
<1>6. ASSUME NEW b \in Builder, NEW ok \in BOOLEAN, InstallImage(b, ok) PROVE Good
  <2>1. /\ UNCHANGED <<oldSidecar, sidecarOf>> /\ bpc[b] = "image"
        /\ UNCHANGED tagSide \/ tagSide' = oldSidecar[b]
        /\ \E p : bpc' = [bpc EXCEPT ![b] = p]
    BY <1>6 DEF InstallImage, Installed, GivesUp, Goes, Gives
  <2> QED
    BY <2>1 DEF TagSideMoves, SideMoves, PublishTypes, StageTypes
<1>7. ASSUME NEW b \in Builder, NEW s \in Stage, SweepContainer(b, s) \/ SweepDir(b, s) \/ SweepImage(b, s) PROVE Good
  <2>1. UNCHANGED <<tagSide, oldSidecar, sidecarOf, bpc>>
    BY <1>7 DEF SweepContainer, SweepDir, SweepImage
  <2> QED
    BY <2>1 DEF TagSideMoves, SideMoves
<1>8. ASSUME NEW scope, SweepLists(scope) \/ SweepEnds PROVE Good
  <2>1. UNCHANGED <<tagSide, oldSidecar, sidecarOf, bpc>>
    BY <1>8 DEF SweepLists, SweepEnds
  <2> QED
    BY <2>1 DEF TagSideMoves, SideMoves
<1> QED
  BY <1>1, <1>2, <1>3, <1>4, <1>5, <1>6, <1>7, <1>8, Zenon DEF BuildNext

\* So what is published, restored or on its way has the labels it is to have.
LEMMA SidesStep ==
  ASSUME StageTypes, PublishTypes, AtStage, OnStep, LabelsKept, SidesRight, BuildNext
  PROVE  SidesRight'
<1>j. UNCHANGED job /\ \A b : Doc(b)' = Doc(b)
  BY JobStays DEF Doc
<1>m. TagSideMoves /\ \A c \in Builder : SideMoves(c)
  BY SidesMove
<1> DEFINE Right(side) == side.by \in Builder => SideOf(Doc(side.by), side.data)
<1>1. Right(tagSide) /\ \A b \in Builder : Right(oldSidecar[b])
  BY DEF SidesRight
<1>2. \A b \in Builder : bpc[b] \in {"push", "install", "image"} => SideOf(Doc(b), sidecarOf[b])
  BY DEF SidesRight
<1>3. ASSUME NEW c \in Builder, bpc'[c] \in {"push", "install", "image"} PROVE SideOf(Doc(c), sidecarOf'[c])
  <2>1. CASE bpc[c] \in {"push", "install", "image"} /\ sidecarOf'[c] = sidecarOf[c]
    BY <1>2, <2>1
  <2>2. CASE bpc[c] = "sidecar" /\ sidecarOf'[c] = LabelsIn(mapOf[c], maps[c], LastStage(c))
    <3>d. PICK d : d = Doc(c)
      OBVIOUS
    <3>k. PICK k : k = Len(d)
      OBVIOUS
    <3>w. PICK w : w = LabelsDue(c)
      OBVIOUS
    <3>1. cur[c] = k /\ k # 0 /\ Document(d) /\ LastStage(c) = k
      BY <2>2, <3>d, <3>k, DocumentOf DEF OnStep, StageTypes
    <3>2. Started(c) = 1..k
      BY <2>2, <3>1 DEF Started
    <3>3. MapsFit(d, 1..k, mapOf[c], maps[c], w)
      BY <2>2, <3>2, <3>d, <3>w DEF LabelsKept, WorkPlaces
    <3>4. k \in 1..k
      BY <3>1, <3>k DEF Document
    <3>5. w[k] = Labels(d, k)
      BY <2>2, <3>2, <3>4, <3>d, <3>w DEF LabelsDue, SoFar
    <3>6. SideOf(d, LabelsIn(mapOf[c], maps[c], k))
      BY <3>1, <3>3, <3>5, <3>k, LastLabels, Zenon
    <3> QED
      BY <2>2, <3>1, <3>6, <3>d
  <2> QED
    BY <1>m, <1>3, <2>1, <2>2 DEF SideMoves
<1>4. Right(tagSide')
  <2>1. CASE UNCHANGED tagSide
    BY <1>1, <2>1
  <2>2. ASSUME NEW b \in Builder, bpc[b] = "install", tagSide' = [by |-> b, data |-> sidecarOf[b]] PROVE Right(tagSide')
    BY <1>2, <2>2
  <2>3. ASSUME NEW b \in Builder, tagSide' = oldSidecar[b] PROVE Right(tagSide')
    BY <1>1, <2>3
  <2> QED
    BY <1>m, <2>1, <2>2, <2>3 DEF TagSideMoves
<1>5. \A b \in Builder : Right(oldSidecar'[b])
  <2> HIDE DEF Right
  <2> QED
    BY <1>m, <1>1 DEF TagSideMoves
<1> QED
  BY <1>j, <1>3, <1>4, <1>5 DEF SidesRight

\* The invariant of a build: what is published, and what is on its way there.
WholeInv ==
  /\ BuildInv /\ workDir \in [Builder -> BOOLEAN] /\ OnStep /\ WholeSoFar /\ ImageWhole
  /\ LabelsKept /\ SidesRight

\* It holds at first.
LEMMA WholeBegins == BuildInit => WholeInv
<1> SUFFICES ASSUME BuildInit PROVE WholeInv
  OBVIOUS
<1>1. BuildInv
  BY BuildBegins
<1>2. workDir \in [Builder -> BOOLEAN] /\ OnStep /\ WholeSoFar
  BY DEF BuildInit, OnStep, WholeSoFar, ImagesFull, UpperFull, Missing
<1>3. ImageWhole /\ SidesRight
  BY BuildSizes DEF BuildInit, ImageWhole, SidesRight, Old
<1>4. LabelsKept
  <2>1. ASSUME NEW b \in Builder PROVE MapsFit(Doc(b), Started(b), mapOf[b], maps[b], LabelsDue(b))
    <3>1. Started(b) = {}
      BY <2>1 DEF BuildInit, Started
    <3>2. mapOf[b] = [s \in Stage |-> 0] /\ maps[b] = [s \in Stage |-> {}]
      BY <2>1 DEF BuildInit
    <3>3. MapsFine(mapOf[b], maps[b], {})
      BY <3>2, BuildSizes DEF MapsFine
    <3> QED
      BY <3>1, <3>3 DEF MapsFit, MapsOwn
  <2> QED
    BY <2>1 DEF LabelsKept
<1> QED
  BY <1>1, <1>2, <1>3, <1>4 DEF WholeInv

\* What it gives for the tag.
LEMMA WholeIsRight == WholeInv => ImageWhole /\ LabelsRight
<1> SUFFICES ASSUME WholeInv PROVE LabelsRight
  BY DEF WholeInv
<1>1. tagSide.by \in Builder => SideOf(Doc(tagSide.by), tagSide.data)
  BY DEF WholeInv, SidesRight
<1> QED
  BY <1>1 DEF LabelsRight, SideOf, LastStage

\* Every step keeps it.
LEMMA WholeInvStep == WholeInv /\ [BuildNext]_buildVars => WholeInv'
<1> SUFFICES ASSUME WholeInv, [BuildNext]_buildVars PROVE WholeInv'
  OBVIOUS
<1>1. BuildInv'
  BY BuildStep DEF WholeInv
<1>2. StageTypes /\ PublishTypes /\ AtStage /\ Removable
  BY DEF WholeInv, BuildInv
<1>3. CASE BuildNext
  <2>1. (workDir \in [Builder -> BOOLEAN])' /\ OnStep' /\ WholeSoFar'
    BY <1>2, <1>3, WorkDirTyped, OnStepStep, WholeStep DEF WholeInv
  <2>2. ImageWhole' /\ LabelsKept' /\ SidesRight'
    BY <1>2, <1>3, ImageWholeStep, LabelsKeptStep, SidesStep DEF WholeInv
  <2> QED
    BY <1>1, <2>1, <2>2 DEF WholeInv
<1>4. CASE UNCHANGED buildVars
  <2>1. /\ UNCHANGED <<job, bpc, cur, step, upper, workDir, stageImg, mapOf, maps>>
        /\ UNCHANGED <<sidecarOf, oldSidecar, tagImg, tagSide, wiped>>
    BY <1>4 DEF buildVars
  <2>2. (workDir \in [Builder -> BOOLEAN])' /\ OnStep' /\ WholeSoFar' /\ ImageWhole'
    BY <2>1 DEF WholeInv, OnStep, WholeSoFar, ImagesFull, UpperFull, ImageWhole, Doc, LastStage
  <2>3. SidesRight'
    BY <2>1 DEF WholeInv, SidesRight, Doc
  <2>4. LabelsKept'
    BY <2>1 DEF WholeInv, LabelsKept, LabelsDue, Started, SoFar, Doc
  <2> QED
    BY <1>1, <2>2, <2>3, <2>4 DEF WholeInv
<1> QED
  BY <1>3, <1>4

\* Whatever fails, dies or is cleared meanwhile, for builds of any number and
\* Dockerfiles of any stages and instructions: the image under the tag holds
\* what every instruction of its last stage, and of those that stage is based on
\* or copies from, wrote, unless clear removed the stage container's directory
\* under the build; its sidecar holds their labels, and no others unless two
\* stages with one base share a map (resolveBase, Finish, applyLabel,
\* publishImage, installImage); with what BuildsKeepTogether says.
THEOREM BuildIsSafe == BuildSpec => []BuildSafe
<1>1. BuildInit => WholeInv
  BY WholeBegins
<1>2. WholeInv /\ [BuildNext]_buildVars => WholeInv'
  BY WholeInvStep
<1>3. WholeInv => BuildSafe
  BY WholeIsRight, BuildTypes DEF WholeInv, BuildInv, BuildSafe
<1> QED
  BY <1>1, <1>2, <1>3, PTL DEF BuildSpec
=============================================================================
