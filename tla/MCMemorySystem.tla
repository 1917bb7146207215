--------------------------- MODULE MCMemorySystem ---------------------------
(***************************************************************************)
(* Small instances of MemorySystem.  The cartridges differ in everything   *)
(* the controller looks at: bank counts below, at and above the thresholds *)
(* 32 and 64, a count that wraps to 0, a RAM bank count with and without   *)
(* its low bits, controllers other than the MBC1, files shorter than their *)
(* headers say, and one that ends within bank 0.                           *)
(***************************************************************************)
EXTENDS MemorySystem, TLC

\* Every bank has its own byte at each of the probed offsets.
BankMarks(banks) ==
  [i \in {16384 * k + o : k \in 0 .. banks - 1, o \in {0, 1, 16382, 16383}} |->
     16 * ((i \div 16384) + 1) + (i % 4)]

Cart(hardware, rom_size, ram_size, marked, bytes) ==
  [bytes |-> (327 :> hardware @@ 328 :> rom_size @@ 329 :> ram_size)
               @@ BankMarks(marked),
   size |-> bytes, padding |-> 255]

MCCartridges ==
  {Cart(1, 0, 0, 2, 32768),      \* MBC1, 2 banks
   Cart(3, 1, 2, 4, 65536),      \* MBC1, 4 banks, 1 RAM bank
   Cart(3, 4, 3, 2, 32768),      \* MBC1, says 32 banks, holds 2
   Cart(3, 5, 2, 5, 1048576),    \* MBC1, 64 banks, 1 RAM bank
   Cart(3, 6, 5, 5, 2097152),    \* MBC1, 128 banks, 8 RAM banks
   Cart(1, 7, 4, 5, 4194304),    \* MBC1, 256 banks, recorded as 0
   Cart(25, 1, 0, 4, 65536),     \* MBC5
   Cart(1, 0, 0, 0, 336)}        \* MBC1, nothing but a header

\* 16-bit writes to these reach every register, cross every boundary between
\* registers and memory, and wrap around.
MCInputs == {8191, 16383, 32767, 40958, 65535}
MCValues == {10, 31}
MCProbes == {0, 16382, 16383, 16384, 32766, 32767, 32768,
             40958, 40959, 40960, 49150, 49151, 49152, 65535}
=============================================================================
