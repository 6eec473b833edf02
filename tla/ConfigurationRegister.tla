------------------------ MODULE ConfigurationRegister ------------------------
(***************************************************************************)
(* The configuration registers of Series-7, UltraScale and UltraScale+, by *)
(* the numbers that address them, and the commands written to CMD.         *)
(***************************************************************************)
EXTENDS Integers

RegisterNumber ==
    [CRC  |-> 0,  FAR  |-> 1,  FDRI   |-> 2,  FDRO  |-> 3,  CMD     |-> 4,
     CTL0 |-> 5,  MASK |-> 6,  STAT   |-> 7,  LOUT  |-> 8,  COR0    |-> 9,
     MFWR |-> 10, CBC  |-> 11, IDCODE |-> 12, AXSS  |-> 13, COR1    |-> 14,
     WBSTAR |-> 16, TIMER |-> 17, UNKNOWN |-> 19, BOOTSTS |-> 22,
     CTL1 |-> 24, BSPI |-> 31]

\* A number that no enumerator has is a value of the enumeration all the same.
Registers == DOMAIN RegisterNumber \union {"unnamed"}

Opcodes == {"NOP", "Read", "Write", "reserved"}

OpcodeNumber == [NOP |-> 0, Read |-> 1, Write |-> 2, reserved |-> 3]

\* The name of each number.
OpcodeName == [n \in 0..3 |-> CHOOSE o \in Opcodes : OpcodeNumber[o] = n]

RegisterName ==
    [n \in {RegisterNumber[r] : r \in DOMAIN RegisterNumber} |->
        CHOOSE r \in DOMAIN RegisterNumber : RegisterNumber[r] = n]

\* static_cast of the bits of a header word.
RegisterOf(n) == IF n \in DOMAIN RegisterName THEN RegisterName[n] ELSE "unnamed"

Command ==
    [NOP |-> 0, WCFG |-> 1, LFRM |-> 3, START |-> 5, RCRC |-> 7, SWITCH |-> 9,
     GRESTORE |-> 10, DESYNC |-> 13]

=============================================================================
