------------------------------ MODULE Console -------------------------------
(***************************************************************************)
(* The PTY console the daemon serves for a container, and `sandal attach'. *)
(* Each incarnation of the container has a listener, a goroutine that      *)
(* accepts one client at a time, one that reads the PTY and writes to the  *)
(* client, and one that waits for the child and cleans up.  A start        *)
(* removes the console directory and binds the socket anew; all of them    *)
(* share one path.  Output is numbered byte by byte.                       *)
(***************************************************************************)
EXTENDS Naturals, Sequences, FiniteSets
LOCAL INSTANCE Functions

CONSTANTS
  Client,    \* attach processes, each of which attaches once
  MaxInst,   \* incarnations of the container
  Scenarios, \* how much happens: [insts, clients, bytes, keys, flaws]
  PtyBuf,    \* bytes the PTY takes in either direction before a writer waits
  SockBuf    \* bytes the socket to a client takes before a writer waits

ASSUME ConsoleAssumption ==
  /\ Scenarios \subseteq [insts : 1..MaxInst, clients : Nat, bytes : Nat, keys : Nat, flaws : Nat]
  /\ MaxInst \in Nat /\ {PtyBuf, SockBuf} \subseteq Nat \ {0}
  /\ "none" \notin Client

Inst == 1..MaxInst
NoClient == "none"

VARIABLES
  bound,     \* the scenario; a flaw is a listener that cannot be made
  begun,     \* incarnations begun; the last is the current one
  starter,   \* a start under way: "idle" or "cleaned"
  life,      \* of an incarnation: "none", "up", "dead"
  waiter,    \* its wait goroutine: "wait", "unlinked", "closed", "done"
  sockPath,  \* the incarnation whose socket the path leads to, or 0
  listening, \* incarnations whose listener is open
  backlog,   \* clients connected to one and not accepted
  srv,       \* accept goroutine: [at, client]
  curConn,   \* its client as the PTY reader sees it
  reader,    \* PTY reader: [at, byte]; mu is held in "write"
  ptyOut,    \* bytes the container wrote that nobody read
  ptyIn,     \* keys written to the PTY that the container did not read
  wrote,     \* bytes the container wrote
  at,        \* of a client: "idle", "checked", "up", "left"
  polled,    \* the incarnation whose pid the client watches
  peer,      \* the one it is connected to
  unread,    \* it has sent a key that the server did not read
  wire,      \* bytes sent to it that it did not show
  shown,     \* the last byte it showed
  stuck,     \* clients whose terminal takes no output
  flaws, keys,
  late       \* history: incarnations begun before an earlier one was cleaned up

conVars == <<bound, begun, starter, life, waiter, sockPath, listening, backlog, srv, curConn, reader, ptyOut, ptyIn,
             wrote, at, polled, peer, unread, wire, shown, stuck, flaws, keys, late>>
host    == <<bound, begun, starter, life, waiter, sockPath, listening, flaws, late>>
pty     == <<ptyOut, ptyIn, wrote>>
served  == <<backlog, srv, curConn, reader>>
clients == <<at, polled, peer, unread, wire, shown, stuck, keys>>

Idle == [at |-> "none", client |-> NoClient]
ConInit ==
  /\ bound \in Scenarios /\ keys = 0
  /\ begun = 0 /\ starter = "idle" /\ sockPath = 0 /\ listening = {} /\ flaws = 0 /\ late = {}
  /\ life = [i \in Inst |-> "none"] /\ waiter = [i \in Inst |-> "wait"]
  /\ backlog = [i \in Inst |-> <<>>] /\ srv = [i \in Inst |-> Idle]
  /\ curConn = [i \in Inst |-> NoClient] /\ reader = [i \in Inst |-> [at |-> "none", byte |-> 0]]
  /\ ptyOut = [i \in Inst |-> <<>>] /\ ptyIn = [i \in Inst |-> 0] /\ wrote = [i \in Inst |-> 0]
  /\ at = [c \in Client |-> "idle"] /\ polled = [c \in Client |-> 0] /\ peer = [c \in Client |-> 0]
  /\ unread = {} /\ wire = [c \in Client |-> <<>>] /\ shown = [c \in Client |-> 0] /\ stuck = {}

-----------------------------------------------------------------------------
\* A run, or a recovery that found the child dead, a zombie included: the
\* console directory goes with the other resources ...
CleanConsole ==
  /\ starter = "idle" /\ begun < bound.insts
  /\ begun > 0 => life[begun] = "dead"
  /\ starter' = "cleaned" /\ sockPath' = 0
  /\ UNCHANGED <<bound, begun, life, waiter, listening, flaws, late, served, pty, clients>>

\* Binds the path and serves it; the PTY has a reader from then on.
StartSocket(i) ==
  /\ sockPath' = i /\ listening' = listening \cup {i}
  /\ srv' = [srv EXCEPT ![i].at = "accept"] /\ reader' = [reader EXCEPT ![i].at = "read"]

\* ... then StartSocket succeeds, or fails, which leaves the PTY without anyone
\* to read it; the child starts either way.
SetupSocketConsole(ok) ==
  LET i == begun + 1 IN
  /\ starter = "cleaned"
  /\ ok \/ flaws < bound.flaws
  /\ begun' = i /\ starter' = "idle" /\ life' = [life EXCEPT ![i] = "up"]
  /\ late' = IF \E j \in 1..begun : waiter[j] # "done" THEN late \cup {i} ELSE late
  /\ IF ok THEN StartSocket(i) /\ UNCHANGED flaws
           ELSE flaws' = flaws + 1 /\ UNCHANGED <<sockPath, listening, srv, reader>>
  /\ UNCHANGED <<bound, waiter, backlog, curConn, pty, clients>>

\* What all incarnations wrote.
Written == FoldFunction(+, 0, wrote)

\* External: the container.
ContainerWrites(i) ==
  /\ life[i] = "up" /\ Written < bound.bytes /\ Len(ptyOut[i]) < PtyBuf
  /\ wrote' = [wrote EXCEPT ![i] = @ + 1] /\ ptyOut' = [ptyOut EXCEPT ![i] = Append(@, wrote[i] + 1)]
  /\ UNCHANGED <<host, served, ptyIn, clients>>
ContainerReads(i) ==
  /\ life[i] = "up" /\ ptyIn[i] > 0
  /\ ptyIn' = [ptyIn EXCEPT ![i] = @ - 1]
  /\ UNCHANGED <<host, served, ptyOut, wrote, clients>>
ContainerExits(i) ==
  /\ life[i] = "up"
  /\ life' = [life EXCEPT ![i] = "dead"] /\ ptyIn' = [ptyIn EXCEPT ![i] = 0]
  /\ UNCHANGED <<bound, begun, starter, waiter, sockPath, listening, flaws, late, served, ptyOut, wrote, clients>>

\* The wait goroutine: Wait, then listener.Close, which unlinks the path before
\* it closes the descriptor, then os.Remove of the path.
Moves(i, from, to) == waiter[i] = from /\ waiter' = [waiter EXCEPT ![i] = to]
ClientsReset(i) == backlog' = [backlog EXCEPT ![i] = <<>>]
Unlink(i) ==
  /\ life[i] = "dead" /\ Moves(i, "wait", IF srv[i].at = "none" THEN "done" ELSE "unlinked")
  /\ sockPath' = IF srv[i].at = "none" THEN sockPath ELSE 0
  /\ UNCHANGED <<bound, begun, starter, life, listening, flaws, late, served, pty, clients>>
CloseListener(i) ==
  /\ Moves(i, "unlinked", "closed") /\ listening' = listening \ {i} /\ ClientsReset(i)
  /\ UNCHANGED <<bound, begun, starter, life, sockPath, flaws, late, srv, curConn, reader, pty, clients>>
RemovePath(i) ==
  /\ Moves(i, "closed", "done") /\ sockPath' = 0
  /\ UNCHANGED <<bound, begun, starter, life, listening, flaws, late, served, pty, clients>>

-----------------------------------------------------------------------------
\* The PTY reader: what it reads goes to the current client, if there is one.
ReaderReads(i) ==
  /\ reader[i].at = "read" /\ ptyOut[i] # <<>>
  /\ reader' = [reader EXCEPT ![i] = [at |-> "send", byte |-> Head(ptyOut[i])]]
  /\ ptyOut' = [ptyOut EXCEPT ![i] = Tail(@)]
  /\ UNCHANGED <<host, backlog, srv, curConn, ptyIn, wrote, clients>>
ReaderLocks(i) ==
  /\ reader[i].at = "send"
  /\ reader' = [reader EXCEPT ![i].at = IF curConn[i] = NoClient THEN "read" ELSE "write"]
  /\ UNCHANGED <<host, backlog, srv, curConn, pty, clients>>

\* Connected: neither side has closed.
Connected(c, i) == at[c] = "up" /\ peer[c] = i
\* A client is forgotten when a write to it fails; ReaderDies ends instead.
ReaderDies(i) ==
  /\ reader[i].at = "write" /\ ~Connected(curConn[i], i)
  /\ reader' = [reader EXCEPT ![i].at = "gone"]
  /\ UNCHANGED <<host, backlog, srv, curConn, pty, clients>>
WriteFails(i) ==
  /\ reader[i].at = "write" /\ ~Connected(curConn[i], i)
  /\ curConn' = [curConn EXCEPT ![i] = NoClient] /\ reader' = [reader EXCEPT ![i].at = "read"]
  /\ UNCHANGED <<host, backlog, srv, pty, clients>>
\* Write returns once the socket has taken the frame.
WriteFrame(i) ==
  LET c == curConn[i] IN
  /\ reader[i].at = "write" /\ Connected(c, i) /\ Len(wire[c]) < SockBuf
  /\ wire' = [wire EXCEPT ![c] = Append(@, reader[i].byte)]
  /\ reader' = [reader EXCEPT ![i].at = "read"]
  /\ UNCHANGED <<host, backlog, srv, curConn, pty, at, polled, peer, unread, shown, stuck, keys>>
\* The child is gone and all it wrote is read.
ReaderEnds(i) ==
  /\ reader[i].at = "read" /\ ptyOut[i] = <<>> /\ life[i] = "dead"
  /\ reader' = [reader EXCEPT ![i].at = "gone"]
  /\ UNCHANGED <<host, backlog, srv, curConn, pty, clients>>

Unlocked(i) == reader[i].at # "write"

\* The accept goroutine.
Accept(i) ==
  /\ srv[i].at = "accept" /\ i \in listening /\ backlog[i] # <<>>
  /\ srv' = [srv EXCEPT ![i] = [at |-> "adopt", client |-> Head(backlog[i])]]
  /\ backlog' = [backlog EXCEPT ![i] = Tail(@)]
  /\ UNCHANGED <<host, curConn, reader, pty, clients>>
AcceptFails(i) ==
  /\ srv[i].at = "accept" /\ i \notin listening
  /\ srv' = [srv EXCEPT ![i].at = "ended"]
  /\ UNCHANGED <<host, backlog, curConn, reader, pty, clients>>
\* Under mu; a client still there would be disconnected.
Adopt(i) ==
  /\ srv[i].at = "adopt" /\ Unlocked(i)
  /\ curConn' = [curConn EXCEPT ![i] = srv[i].client]
  /\ peer' = IF curConn[i] # NoClient /\ Connected(curConn[i], i) THEN [peer EXCEPT ![curConn[i]] = 0] ELSE peer
  /\ srv' = [srv EXCEPT ![i].at = "input"]
  /\ UNCHANGED <<host, backlog, reader, pty, at, polled, unread, wire, shown, stuck, keys>>
\* handleClientInput: a key to the PTY, waiting while the PTY takes none ...
HandleInput(i) ==
  LET c == srv[i].client IN
  /\ srv[i].at = "input" /\ c \in unread
  /\ ptyIn[i] < PtyBuf \/ life[i] = "dead"
  /\ unread' = unread \ {c}
  /\ ptyIn' = IF life[i] = "up" THEN [ptyIn EXCEPT ![i] = @ + 1] ELSE ptyIn
  /\ UNCHANGED <<host, served, ptyOut, wrote, at, polled, peer, wire, shown, stuck, keys>>
\* ... until the client is gone and what it sent is read.
InputEnds(i) ==
  /\ srv[i].at = "input" /\ ~Connected(srv[i].client, i) /\ srv[i].client \notin unread
  /\ srv' = [srv EXCEPT ![i].at = "clear"]
  /\ UNCHANGED <<host, backlog, curConn, reader, pty, clients>>
\* Under mu; NotCleared leaves the client in place.
NotCleared(i) ==
  /\ srv[i].at = "clear" /\ Unlocked(i)
  /\ srv' = [srv EXCEPT ![i] = [at |-> "accept", client |-> NoClient]]
  /\ UNCHANGED <<host, backlog, curConn, reader, pty, clients>>
Clear(i) ==
  /\ srv[i].at = "clear" /\ Unlocked(i)
  /\ curConn' = [curConn EXCEPT ![i] = IF @ = srv[i].client THEN NoClient ELSE @]
  /\ srv' = [srv EXCEPT ![i] = [at |-> "accept", client |-> NoClient]]
  /\ UNCHANGED <<host, backlog, reader, pty, clients>>

-----------------------------------------------------------------------------
\* attach: the record's pid is alive ...
Attach(c) ==
  /\ at[c] = "idle" /\ Cardinality({d \in Client : at[d] # "idle"}) < bound.clients
  /\ begun > 0 /\ life[begun] = "up"
  /\ at' = [at EXCEPT ![c] = "checked"] /\ polled' = [polled EXCEPT ![c] = begun]
  /\ UNCHANGED <<host, served, pty, peer, unread, wire, shown, stuck, keys>>
\* ... then the path is dialled.
Dial(c) ==
  /\ at[c] = "checked"
  /\ IF sockPath # 0 /\ sockPath \in listening
     THEN /\ at' = [at EXCEPT ![c] = "up"] /\ peer' = [peer EXCEPT ![c] = sockPath]
          /\ backlog' = [backlog EXCEPT ![sockPath] = Append(@, c)]
     ELSE at' = [at EXCEPT ![c] = "left"] /\ UNCHANGED <<peer, backlog>>
  /\ UNCHANGED <<host, srv, curConn, reader, pty, polled, unread, wire, shown, stuck, keys>>
Type(c) ==
  /\ at[c] = "up" /\ c \notin unread /\ keys < bound.keys
  /\ unread' = unread \cup {c} /\ keys' = keys + 1
  /\ UNCHANGED <<host, served, pty, at, polled, peer, wire, shown, stuck>>
Show(c) ==
  /\ at[c] = "up" /\ wire[c] # <<>> /\ c \notin stuck
  /\ shown' = [shown EXCEPT ![c] = Head(wire[c])] /\ wire' = [wire EXCEPT ![c] = Tail(@)]
  /\ UNCHANGED <<host, served, pty, at, polled, peer, unread, stuck, keys>>
\* External: the terminal stops taking output.
TerminalStops(c) ==
  /\ at[c] = "up" /\ c \notin stuck
  /\ stuck' = stuck \cup {c}
  /\ UNCHANGED <<host, served, pty, at, polled, peer, unread, wire, shown, keys>>

\* AttachSocket returns and closes the connection; one that was not accepted
\* yet is accepted all the same, and found at its end.
Returns(c) ==
  /\ at' = [at EXCEPT ![c] = "left"] /\ peer' = [peer EXCEPT ![c] = 0]
  /\ stuck' = stuck \ {c}
  /\ wire' = [wire EXCEPT ![c] = <<>>] /\ shown' = [shown EXCEPT ![c] = 0]
  /\ UNCHANGED <<host, served, pty, polled, unread, keys>>
Detach(c) == at[c] = "up" /\ Returns(c)
\* done: the pid polled every second is dead.
DoneSeen(c) == at[c] = "up" /\ life[polled[c]] = "dead" /\ Returns(c)
\* The connection ended: nobody holds it any more.
EOFSeen(c) ==
  /\ at[c] = "up" /\ wire[c] = <<>>
  /\ \A i \in Inst : srv[i].client # c /\ c \notin {backlog[i][k] : k \in 1..Len(backlog[i])}
  /\ Returns(c)

ConNext ==
  \/ CleanConsole \/ \E ok \in BOOLEAN : SetupSocketConsole(ok)
  \/ \E i \in Inst : \/ ContainerWrites(i) \/ ContainerReads(i) \/ ContainerExits(i)
                     \/ Unlink(i) \/ CloseListener(i) \/ RemovePath(i)
                     \/ ReaderReads(i) \/ ReaderLocks(i) \/ WriteFails(i) \/ WriteFrame(i) \/ ReaderEnds(i)
                     \/ Accept(i) \/ AcceptFails(i) \/ Adopt(i) \/ HandleInput(i) \/ InputEnds(i) \/ Clear(i)
  \/ \E c \in Client : \/ Attach(c) \/ Dial(c) \/ Type(c) \/ Show(c) \/ TerminalStops(c)
                       \/ Detach(c) \/ DoneSeen(c) \/ EOFSeen(c)

\* Goroutines run; the terminal that is not stuck takes what it is sent.
Reads(i) == ReaderReads(i) \/ ReaderLocks(i) \/ WriteFails(i) \/ WriteFrame(i) \/ ReaderEnds(i)
Serves(i) == Accept(i) \/ AcceptFails(i) \/ Adopt(i) \/ HandleInput(i) \/ InputEnds(i) \/ Clear(i)
Waits(i) == Unlink(i) \/ CloseListener(i) \/ RemovePath(i)
ConFairness ==
  /\ \A i \in Inst : WF_conVars(Reads(i)) /\ WF_conVars(Serves(i)) /\ WF_conVars(Waits(i))
  /\ \A c \in Client : WF_conVars(Show(c)) /\ WF_conVars(DoneSeen(c) \/ EOFSeen(c) \/ Dial(c))

ConSpec == ConInit /\ [][ConNext]_conVars /\ ConFairness

-----------------------------------------------------------------------------
ConTypeOK ==
  /\ begun \in 0..MaxInst /\ sockPath \in 0..MaxInst /\ listening \subseteq Inst
  /\ \A i \in Inst : Len(ptyOut[i]) <= PtyBuf /\ ptyIn[i] \in 0..PtyBuf
  /\ curConn \in [Inst -> Client \cup {NoClient}]

\* A client is served by one incarnation, and the PTY reader never writes to a
\* client that the accept goroutine does not serve.
OneServer ==
  \A i \in Inst : curConn[i] # NoClient => curConn[i] = srv[i].client /\ srv[i].at \in {"input", "clear"}

\* While a client is served no byte is lost, repeated or out of order: what it
\* has shown, what is on its way and what is still to be sent are one run.
Pending(i) == (IF reader[i].at \in {"send", "write"} THEN <<reader[i].byte>> ELSE <<>>) \o ptyOut[i]
OutputWhole ==
  \A i \in Inst : \A c \in Client : (curConn[i] = c /\ Connected(c, i)) =>
    LET run == (IF shown[c] = 0 THEN <<>> ELSE <<shown[c]>>) \o wire[c] \o Pending(i)
    IN \A k \in 1..Len(run) : run[k] = wrote[i] - Len(run) + k

\* The socket leads to the running incarnation, whatever clients do, unless an
\* earlier one was cleaned up after it had begun.
Reachable ==
  \A i \in Inst : (life[i] = "up" /\ srv[i].at # "none" /\ i \notin late) => sockPath = i /\ i \in listening

\* The invariant of the console: one server per client, output whole, the
\* socket reachable.
ConsoleSafe == ConTypeOK /\ OneServer /\ OutputWhole /\ Reachable

\* What a container wrote is taken from it, whatever clients come and go,
\* unless the one it is written to shows nothing, or nobody reads the PTY.
OutputFlows ==
  \A i \in Inst : ptyOut[i] # <<>> ~>
    \/ ptyOut[i] = <<>> \/ reader[i].at = "none"
    \/ curConn[i] # NoClient /\ curConn[i] \in stuck
\* A client that waits is served, refused or leaves, unless the one before it
\* stays or the container does not read its keys.
WaitingIsServed ==
  \A c \in Client :
    (at[c] = "up" /\ srv[peer[c]].client # c) ~>
      \/ at[c] # "up" \/ srv[peer[c]].client = c \/ ptyIn[peer[c]] = PtyBuf
      \/ \E d \in Client \ {c} : at[d] = "up" /\ peer[d] = peer[c]
\* attach returns when its container has ended.
AttachReturns == \A c \in Client : (at[c] = "up" /\ life[polled[c]] = "dead") ~> (at[c] = "left")
\* Nobody waits for good: not the container for its output to be taken, not a
\* waiting client, not an attach whose container has ended.
ConsoleServes == OutputFlows /\ WaitingIsServed /\ AttachReturns

\* "The listener persists for the container lifetime" (socket.go:35), and
\* clients find it.
ListenerPersists == \A i \in Inst : (life[i] = "up" /\ srv[i].at # "none") => sockPath = i
=============================================================================
