-------------------------------- MODULE Uart --------------------------------
(***************************************************************************)
(* The serial console of a guest (pkg/vm/kvm/uart.go): readInput appends   *)
(* what the host types, the guest reads and writes the data register and   *)
(* masks or clears interrupts (PL011), or polls the line status (16550).   *)
(* Every operation ends in updateIRQLocked, which drives the line of the   *)
(* interrupt controller only when its level changes.                       *)
(***************************************************************************)
EXTENDS Naturals, Sequences

CONSTANTS
  MaxInput,      \* bytes the host types
  MaxOutput,     \* bytes the guest writes
  MaxClears      \* interrupts the guest clears, or masks it changes

ASSUME UartAssumption == {MaxInput, MaxOutput, MaxClears} \subseteq Nat

RX == "rx"
TX == "tx"

VARIABLES
  inputBuf,   \* bytes waiting for the guest, numbered as typed
  level,      \* intLevel: raw interrupts
  mask,       \* intEnabled
  asserted,   \* irqAsserted
  line,       \* external: the level of the wire KVM_IRQ_LINE last set
  typed, got, sent,    \* bytes typed, last byte the guest read, bytes written
  clears,
  dropped     \* history: the guest cleared RX with input waiting

uartVars == <<inputBuf, level, mask, asserted, line, typed, got, sent, clears,
              dropped>>

\* updateIRQLocked that does not see the new mask.
UpdateIRQOldMask(lv, mk) ==
  /\ asserted' = (lv \cap mask # {})
  /\ line' = IF asserted' # asserted THEN asserted' ELSE line

\* Raise or lower the wire if the masked status has changed.
UpdateIRQ(lv, mk) ==
  /\ asserted' = (lv \cap mk # {})
  /\ line' = IF asserted' # asserted THEN asserted' ELSE line

UInit ==
  /\ inputBuf = <<>> /\ level = {} /\ mask = {} /\ asserted = FALSE
  /\ line = FALSE /\ typed = 0 /\ got = 0 /\ sent = 0 /\ clears = 0
  /\ dropped = FALSE

\* readInput: a read returned n > 0 bytes.
ReadInput(n) ==
  /\ typed + n <= MaxInput
  /\ inputBuf' = inputBuf \o [i \in 1..n |-> typed + i]
  /\ typed' = typed + n
  /\ level' = level \cup {RX}
  /\ dropped' = FALSE
  /\ UpdateIRQ(level', mask)
  /\ UNCHANGED <<mask, got, sent, clears>>

\* readByte: an empty buffer reads as zero and changes nothing.
ReadByte ==
  /\ inputBuf # <<>>
  /\ got' = Head(inputBuf)
  /\ inputBuf' = Tail(inputBuf)
  /\ level' = IF inputBuf' = <<>> THEN level \ {RX} ELSE level
  /\ dropped' = (dropped /\ inputBuf' # <<>>)
  /\ UpdateIRQ(level', mask)
  /\ UNCHANGED <<mask, typed, sent, clears>>

\* writeByte: the byte is out at once.
WriteByte ==
  /\ sent < MaxOutput
  /\ sent' = sent + 1
  /\ level' = level \cup {TX}
  /\ UpdateIRQ(level', mask)
  /\ UNCHANGED <<inputBuf, mask, typed, got, clears, dropped>>

\* A write to IMSC; enabling TX raises it, the transmitter being idle.
SetMask(mk) ==
  /\ clears < MaxClears
  /\ clears' = clears + 1
  /\ mask' = mk
  /\ level' = IF TX \in mk THEN level \cup {TX} ELSE level
  /\ UpdateIRQ(level', mk)
  /\ UNCHANGED <<inputBuf, typed, got, sent, dropped>>

\* A write to ICR clears the raw status, whatever is in the buffer.
ClearInterrupts(bits) ==
  /\ clears < MaxClears
  /\ clears' = clears + 1
  /\ level' = level \ bits
  /\ dropped' = (dropped \/ (RX \in bits /\ inputBuf # <<>>))
  /\ UpdateIRQ(level', mask)
  /\ UNCHANGED <<inputBuf, mask, typed, got, sent>>

UNext ==
  \/ \E n \in 1..2 : ReadInput(n)
  \/ ReadByte
  \/ WriteByte
  \/ \E mk \in SUBSET {RX, TX} : SetMask(mk)
  \/ \E bits \in SUBSET {RX, TX} : ClearInterrupts(bits)

USpec == UInit /\ [][UNext]_uartVars

-----------------------------------------------------------------------------
UTypeOK ==
  /\ inputBuf \in Seq(1..MaxInput)
  /\ level \subseteq {RX, TX} /\ mask \subseteq {RX, TX}
  /\ asserted \in BOOLEAN /\ line \in BOOLEAN

\* The wire carries the masked status: an update skipped because irqAsserted
\* already has the value never leaves the wire behind.
LineFollows == line = (level \cap mask # {})

\* RX is raised exactly while input waits, until the guest clears it itself;
\* new input raises it again.
RxWhileInput ==
  /\ inputBuf # <<>> => RX \in level \/ dropped
  /\ RX \in level => inputBuf # <<>>

\* Bytes reach the guest as typed, none lost or repeated.
BytesInOrder == inputBuf = [i \in 1..(typed - got) |-> got + i]

\* The invariant of the serial console.
UartSafe == UTypeOK /\ LineFollows /\ RxWhileInput /\ BytesInOrder
=============================================================================
