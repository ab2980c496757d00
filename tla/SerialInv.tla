----------------------------- MODULE SerialInv -----------------------------
(***************************************************************************)
(* The inductive invariant of Serial: how far init has come, and what the  *)
(* registers hold by then; when a character may be on its way.             *)
(***************************************************************************)
EXTENDS Serial

\* What is left of init is the end of it.
ProgressInv ==
  /\ Len(todo) <= Len(InitWrites)
  /\ \A i \in 1 .. Len(todo) : todo[i] = InitWrites[Len(InitWrites) - Len(todo) + i]

\* Each register from the write that sets it on.  The latch is open from the second
\* write to the fifth, and closed before the first character.
RegistersInv ==
  left.uart =>
    /\ Len(todo) = 7 => uart.lcr = (IF left.latch THEN 131 ELSE 3) /\ uart.ier = left.ier
    /\ Len(todo) <= 6 => uart.ier = IF left.latch THEN left.ier ELSE 0
    /\ Len(todo) \in 3 .. 5 => uart.lcr = 128
    /\ Len(todo) <= 4 => uart.dll = 1
    /\ Len(todo) <= 3 => uart.dlm = 0
    /\ Len(todo) <= 2 => uart.lcr = 3
    /\ Len(todo) <= 1 => uart.fcr = 199
    /\ Len(todo) = 0 => uart.mcr = 11

\* Nothing is printed before init is done, and a carriage return on its own is that of
\* the line feed which is next.
TextInv ==
  /\ todo # << >> => text = << >> /\ said = << >>
  /\ cr => text # << >> /\ Head(text) = "nl"

IInv == TypeOK /\ ProgressInv /\ RegistersInv /\ TextInv /\ LinesComeOut
=============================================================================
