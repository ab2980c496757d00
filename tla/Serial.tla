------------------------------- MODULE Serial -------------------------------
(***************************************************************************)
(* src/serial.rs: the hypervisor sets up the 16550 on COM1, in whatever    *)
(* state the firmware has left it, and prints lines by polling.  The UART  *)
(* and the line behind it are the environment.                             *)
(***************************************************************************)
EXTENDS Naturals, Sequences, FiniteSets

CONSTANTS
  Char,         \* what a line is made of; NL and CR are apart
  FifoDepth,    \* what the transmitter of the UART holds
  MaxLine,      \* bound: characters of a line
  MaxLines      \* bound: lines printed

ASSUME SerialAssumption ==
  /\ {"nl", "cr", "firmware"} \cap Char = {}
  /\ FifoDepth \in Nat \ {0}
  /\ MaxLine \in Nat /\ MaxLines \in Nat

VARIABLES
  todo,      \* writes of init still to do
  text,      \* what is left of the line being printed
  cr,        \* the carriage return of a line feed is out
  lines,     \* lines begun
  said,      \* everything that put_char is done with
  uart,      \* the registers, and the transmitter's FIFO
  wire,      \* what has left the UART
  left       \* what the firmware left: a UART or none, IER, the latch open or not

vars == <<todo, text, cr, lines, said, uart, wire, left>>

----------------------------------------------------------------------------
(* The UART (external)                                                     *)

Latch(u) == u.lcr >= 128

\* A write to the transmitter that is full is lost; the latch takes two registers
\* away; bits 1 and 2 of FCR clear the FIFOs (all writes of FCR here have them).
Written(u, off, v) ==
  CASE off = 0 /\ Latch(u) -> [u EXCEPT !.dll = v]
    [] off = 0 /\ ~Latch(u) -> [u EXCEPT !.fifo = IF Len(@) < FifoDepth THEN Append(@, v) ELSE @]
    [] off = 1 /\ Latch(u) -> [u EXCEPT !.dlm = v]
    [] off = 1 /\ ~Latch(u) -> [u EXCEPT !.ier = v]
    [] off = 2 -> [u EXCEPT !.fcr = v, !.fifo = << >>]
    [] off = 3 -> [u EXCEPT !.lcr = v]
    [] off = 4 -> [u EXCEPT !.mcr = v]

\* Without a UART the write goes nowhere.
outb(off, v) == uart' = IF left.uart THEN Written(uart, off, v) ELSE uart

\* Bit 5 of LSR: the transmitter is empty.  Without a UART all bits read as one.
ThrEmpty == left.uart => uart.fifo = << >>

Transmit ==
  /\ uart.fifo # << >>
  /\ wire' = Append(wire, Head(uart.fifo))
  /\ uart' = [uart EXCEPT !.fifo = Tail(@)]
  /\ UNCHANGED <<todo, text, cr, lines, said, left>>

----------------------------------------------------------------------------
(* serial::init                                                            *)

\* Variant for the mutation checks: the latch is closed before the divisor is in.
InitWritesLatchEarly ==
  << <<1, 0>>, <<3, 128>>, <<3, 3>>, <<0, 1>>, <<1, 0>>, <<2, 199>>, <<4, 11>> >>

InitWrites ==
  << <<1, 0>>, <<3, 128>>, <<0, 1>>, <<1, 0>>, <<3, 3>>, <<2, 199>>, <<4, 11>> >>

Init ==
  /\ todo = InitWrites
  /\ text = << >>
  /\ cr = FALSE
  /\ lines = 0
  /\ said = << >>
  /\ wire = << >>
  /\ left \in [uart : BOOLEAN, ier : {0, 1}, latch : BOOLEAN]
  /\ uart \in [ier : {left.ier}, dll : {1, 12}, dlm : {0}, lcr : {IF left.latch THEN 131 ELSE 3},
               fcr : {0}, mcr : {0, 3}, fifo : {<< >>, <<"firmware">>}]

InitWrite ==
  /\ todo # << >>
  /\ outb(Head(todo)[1], Head(todo)[2])
  /\ todo' = Tail(todo)
  /\ UNCHANGED <<text, cr, lines, said, wire, left>>

----------------------------------------------------------------------------
(* serial_println                                                          *)

Lines == UNION {[1 .. n -> Char \cup {"nl"}] : n \in 0 .. MaxLine}

\* Variant: the macro writes both characters of the line's end.
PrintlnCrLf ==
  /\ todo = << >> /\ text = << >>
  /\ lines < MaxLines
  /\ lines' = lines + 1
  /\ \E s \in Lines : text' = s \o <<"cr", "nl">>
  /\ UNCHANGED <<todo, cr, said, uart, wire, left>>

\* The text of the caller, which may have line feeds of its own, and a line feed.
Println ==
  /\ todo = << >> /\ text = << >>
  /\ lines < MaxLines
  /\ lines' = lines + 1
  /\ \E s \in Lines : text' = Append(s, "nl")
  /\ UNCHANGED <<todo, cr, said, uart, wire, left>>

\* Variant: the character is written whatever the transmitter holds.
put_char_blind(c) == outb(0, c)

\* Variant: the loop goes on while the transmitter is empty.
put_char_inverted(c) == ~ThrEmpty /\ outb(0, c)

\* The loop ends once the transmitter is empty.
put_char_raw(c) == ThrEmpty /\ outb(0, c)

\* put_char, one write to the port at a time.
PutCr ==
  /\ text # << >> /\ Head(text) = "nl" /\ ~cr
  /\ put_char_raw("cr")
  /\ cr' = TRUE
  /\ UNCHANGED <<todo, text, lines, said, wire, left>>

PutChar ==
  /\ text # << >> /\ (Head(text) = "nl" => cr)
  /\ put_char_raw(Head(text))
  /\ text' = Tail(text)
  /\ said' = Append(said, Head(text))
  /\ cr' = FALSE
  /\ UNCHANGED <<todo, lines, wire, left>>

Done == todo = << >> /\ text = << >> /\ lines = MaxLines /\ uart.fifo = << >>

Program == InitWrite \/ Println \/ PutCr \/ PutChar

Next == Program \/ Transmit \/ (Done /\ UNCHANGED vars)

Spec == Init /\ [][Next]_vars

\* The processor goes on, and the UART sends what it holds.
FairSpec == Spec /\ WF_vars(Program) /\ WF_vars(Transmit)

----------------------------------------------------------------------------
(* What holds                                                              *)

Register == 0 .. 255

\* The type of every variable.
TypeOK ==
  /\ todo \in Seq(Nat \X Register)
  /\ text \in Seq(Char \cup {"nl"})
  /\ cr \in BOOLEAN
  /\ lines \in 0 .. MaxLines
  /\ said \in Seq(Char \cup {"nl"})
  /\ uart \in [ier : Register, dll : Register, dlm : Register, lcr : Register, fcr : Register,
               mcr : Register, fifo : Seq(Char \cup {"nl", "cr", "firmware"})]
  /\ wire \in Seq(Char \cup {"nl", "cr", "firmware"})
  /\ left \in [uart : BOOLEAN, ier : {0, 1}, latch : BOOLEAN]

\* After init the UART runs at 115200 8N1 with its FIFO on, whatever the firmware
\* left.  The write that turns interrupts off (serial.rs:30) does so only where the
\* latch was closed: an open one takes it, and IER keeps what the firmware left.
Configured ==
  todo = << >> /\ left.uart =>
    /\ uart.dll = 1 /\ uart.dlm = 0 /\ uart.lcr = 3 /\ uart.fcr = 199 /\ uart.mcr = 11
    /\ ~left.latch => uart.ier = 0

\* Where the k-th character of s comes out: each line feed up to it takes two places.
After(s, k) == k + Cardinality({i \in 1 .. k : s[i] = "nl"})

\* s as it comes out: a place that is no character's is a carriage return's.
Expanded(s) ==
  [m \in 1 .. After(s, Len(s)) |->
     IF \E k \in DOMAIN s : After(s, k) = m THEN s[CHOOSE k \in DOMAIN s : After(s, k) = m] ELSE "cr"]

\* The lines come out whole and in order, each line feed after a carriage
\* return: nothing is written over what the UART still holds, or into the
\* divisor.  What the firmware had left in the FIFO comes before, or is dropped.
Printed == Expanded(said) \o IF cr THEN <<"cr">> ELSE << >>
LinesComeOut ==
  left.uart => wire \o uart.fifo \in {Printed, <<"firmware">> \o Printed}

\* A print returns: the loop on the transmitter ends, with a UART or without.
PrintReturns == text # << >> ~> text = << >>
=============================================================================
