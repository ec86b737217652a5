----------------------------- MODULE AttachKeys -----------------------------
(***************************************************************************)
(* What the user types in an attached terminal, on its way to the          *)
(* container: read in chunks, joined when a chunk begins an escape         *)
(* sequence, searched for Ctrl+P Ctrl+Q, and sent in frames with a length  *)
(* field (socket console) or written to the FIFO.  Keys are "p" (Ctrl+P),  *)
(* "q" (Ctrl+Q), "e" (ESC) and "x" (any other).                            *)
(***************************************************************************)
EXTENDS Naturals, Sequences, SequencesExt

CONSTANTS
  Key,       \* the keys typed
  MaxKeys,   \* how many
  MaxChunk,  \* keys one read returns
  ChanCap,   \* chunks stdinCh takes
  FrameMod   \* lengths a frame's length field tells apart

ASSUME AttachKeysAssumption ==
  /\ Key \subseteq {"p", "q", "e", "x"}
  /\ MaxKeys \in Nat /\ {MaxChunk, ChanCap, FrameMod} \subseteq Nat \ {0}

VARIABLES
  via,      \* "socket" or "fifo"
  input,    \* all that was typed
  eof,      \* the terminal is closed
  stdinCh,  \* chunks read and not taken
  taken,    \* the data at hand, as far as filter has not looked at it
  joining,  \* it began with ESC: what arrives meanwhile is joined
  filtering, \* filter has begun, and what it returns is not sent yet
  out,      \* what it has to return
  held,     \* detachKeys.held
  detached, \* the keys were found
  frames,   \* frames on their way: [len, bytes]
  garbled,  \* the server read a frame of the wrong length
  given       \* what the container was given

keyVars == <<via, input, eof, stdinCh, taken, joining, filtering, out, held, detached, frames, garbled, given>>

KeysInit ==
  /\ via \in {"socket", "fifo"}
  /\ input = <<>> /\ eof = FALSE /\ stdinCh = <<>> /\ taken = <<>> /\ joining = FALSE
  /\ filtering = FALSE /\ out = <<>>
  /\ held = FALSE /\ detached = FALSE /\ frames = <<>> /\ garbled = FALSE /\ given = <<>>

\* The reader goroutine; the FIFO console reads and forwards in one.
ReadStdin(data) ==
  /\ ~eof /\ ~detached /\ Len(input) + Len(data) <= MaxKeys
  /\ Len(stdinCh) < (IF via = "socket" THEN ChanCap ELSE 1)
  /\ input' = input \o data /\ stdinCh' = Append(stdinCh, data)
  /\ UNCHANGED <<via, eof, taken, joining, filtering, out, held, detached, frames, garbled, given>>
StdinEnds ==
  /\ ~eof /\ ~detached
  /\ eof' = TRUE
  /\ UNCHANGED <<via, input, stdinCh, taken, joining, filtering, out, held, detached, frames, garbled, given>>

TakesChunk ==
  /\ taken = <<>> /\ ~filtering /\ stdinCh # <<>> /\ ~detached
  /\ taken' = Head(stdinCh) /\ stdinCh' = Tail(stdinCh)
  /\ joining' = (via = "socket" /\ Head(stdinCh)[1] = "e")
  /\ UNCHANGED <<via, input, eof, filtering, out, detached, frames, garbled, given>>
\* Every chunk is searched on its own.
TakeChunkAfresh == TakesChunk /\ held' = FALSE
TakeChunk == TakesChunk /\ UNCHANGED held
\* After the sleep: everything that has arrived, until nothing has.
JoinChunk ==
  /\ joining /\ stdinCh # <<>>
  /\ taken' = taken \o Head(stdinCh) /\ stdinCh' = Tail(stdinCh)
  /\ UNCHANGED <<via, input, eof, joining, filtering, out, held, detached, frames, garbled, given>>

\* detachKeys.filter, key by key: a Ctrl+P is held until the next key, and what
\* follows the detach keys is dropped.
FilterKey ==
  LET b == Head(taken) IN
  /\ taken # <<>> /\ (joining => stdinCh = <<>>)
  /\ joining' = FALSE /\ filtering' = TRUE
  /\ IF held /\ b = "q"
     THEN detached' = TRUE /\ held' = FALSE /\ taken' = <<>> /\ UNCHANGED out
     ELSE /\ out' = (IF held THEN Append(out, "p") ELSE out) \o (IF b = "p" THEN <<>> ELSE <<b>>)
          /\ held' = (b = "p") /\ taken' = Tail(taken) /\ UNCHANGED detached
  /\ UNCHANGED <<via, input, eof, stdinCh, frames, garbled, given>>
\* What is left of the data is sent; a write to the FIFO arrives at once.
Forward ==
  /\ filtering /\ taken = <<>>
  /\ filtering' = FALSE /\ out' = <<>>
  /\ IF via = "socket"
     THEN /\ frames' = IF out = <<>> THEN frames
                       ELSE Append(frames, [len |-> Len(out) % FrameMod, bytes |-> out])
          /\ UNCHANGED given
     ELSE given' = given \o out /\ UNCHANGED frames
  /\ UNCHANGED <<via, input, eof, stdinCh, taken, joining, held, detached, garbled>>
\* flush, which only copyDetach does.
Flush ==
  /\ via = "fifo" /\ eof /\ held /\ taken = <<>> /\ ~filtering /\ stdinCh = <<>>
  /\ held' = FALSE /\ given' = Append(given, "p")
  /\ UNCHANGED <<via, input, eof, stdinCh, taken, joining, filtering, out, detached, frames, garbled>>

\* handleClientInput takes as many bytes as the header says; what follows a
\* frame that was longer is read as a header.
ServerReads ==
  /\ frames # <<>> /\ ~garbled
  /\ LET f == Head(frames) IN
     /\ given' = given \o SubSeq(f.bytes, 1, f.len)
     /\ garbled' = (f.len # Len(f.bytes))
  /\ frames' = Tail(frames)
  /\ UNCHANGED <<via, input, eof, stdinCh, taken, joining, filtering, out, held, detached>>

KeysNext ==
  \/ \E n \in 1..MaxChunk : \E data \in [1..n -> Key] : ReadStdin(data)
  \/ StdinEnds \/ TakeChunk \/ JoinChunk \/ FilterKey \/ Forward \/ Flush \/ ServerReads

KeysSpec == KeysInit /\ [][KeysNext]_keyVars

-----------------------------------------------------------------------------
KeysTypeOK == /\ Len(stdinCh) <= ChanCap /\ input \in Seq(Key) /\ given \in Seq(Key)
              /\ \A k \in 1..Len(frames) : frames[k].len \in 0..(FrameMod - 1)

\* The reference: all that was typed before the first Ctrl+P that Ctrl+Q follows.
DetachAt == {k \in 1..(Len(input) - 1) : input[k] = "p" /\ input[k + 1] = "q"}
Meant == IF DetachAt = {} THEN input ELSE SubSeq(input, 1, CHOOSE k \in DetachAt : \A j \in DetachAt : k <= j)
Wanted == IF DetachAt = {} THEN Meant ELSE Front(Meant)
Quiet == stdinCh = <<>> /\ taken = <<>> /\ ~filtering /\ frames = <<>> /\ (via = "fifo" /\ eof => ~held)

\* The container is given what was typed, in order and whole, however it was
\* cut into chunks and joined; the detach keys are found wherever the cuts
\* fall, and neither of them nor what follows is sent.  A Ctrl+P still held
\* when the terminal closes is lost on the socket console; a frame longer than
\* its length field can say is the exception.
KeysArrive ==
  ~garbled =>
    /\ IsPrefix(given, Wanted)
    /\ detached => DetachAt # {}
    /\ Quiet => /\ detached = (DetachAt # {})
                /\ given = (IF held THEN Front(Wanted) ELSE Wanted)

\* The invariant of the keys typed into an attached terminal.
KeysSafe == KeysTypeOK /\ KeysArrive

\* "binary.BigEndian.PutUint16(frame[1:3], uint16(len(data)))" (socket.go:281)
\* takes it that a frame's length fits: joined chunks do not.
FramesFit == ~garbled
=============================================================================
