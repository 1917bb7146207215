---------------------------- MODULE AddressSpace ----------------------------
(***************************************************************************)
(* What the bus promises the CPU, with no controller in sight: the bytes   *)
(* read at a set of addresses.  Plain addresses are memory cells; fixed    *)
(* addresses never change; the window shows one whole bank out of a set,   *)
(* and only a write that reaches the cartridge may choose another one.     *)
(***************************************************************************)
EXTENDS Words, Functions

CONSTANTS Plain,   \* addresses that behave as memory
          Fixed,   \* addresses that always read the same byte
          Window,  \* addresses that show the selected bank
          Values   \* bytes written

VARIABLES memory,  \* the byte read at each address
          banks    \* the contents the window can show

addressVars == <<memory, banks>>

Init ==
  /\ memory \in [Plain \cup Fixed \cup Window -> Byte]
  /\ Restrict(memory, Window) \in banks

\* The written cells hold their new bytes, the window shows bank b, and
\* every other address reads what it did.
Become(cells, b) ==
  /\ \A a \in DOMAIN cells : memory'[a] = cells[a]
  /\ memory' = [a \in DOMAIN memory |->
                  CASE a \in Window -> b[a]
                    [] a \in DOMAIN cells -> cells[a]
                    [] OTHER -> memory[a]]
  /\ banks' = banks

ShownBank == Restrict(memory, Window)

\* A write to one cell, or a 16-bit write, low byte first, to two.
Put(addr, value) ==
  Become([a \in {addr} |-> value], ShownBank)
Put16(addr, low, high) ==
  Become([a \in {addr, addr + 1} |-> IF a = addr THEN low ELSE high], ShownBank)

\* A write to the cartridge.
Select == \E b \in banks : Become(<<>>, b)

Next ==
  \/ \E addr \in Plain, value \in Values : Put(addr, value)
  \/ \E addr \in {a \in Plain : a + 1 \in Plain}, low, high \in Values :
       Put16(addr, low, high)
  \/ Select

Spec == Init /\ [][Next]_addressVars
=============================================================================
