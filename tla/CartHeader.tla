----------------------------- MODULE CartHeader -----------------------------
(***************************************************************************)
(* The cartridge header as rom.c decodes it: bank counts and the memory    *)
(* controller implied by the hardware code at 0x147.                       *)
(***************************************************************************)
EXTENDS Words, Sequences

\* The enumerators of cart_hardware that the switch of get_cart_hardware
\* names, in its order, from MBC2_ONLY on.  None of these cases ends in a
\* break: each adds its flags and falls through into the next one.
FallThrough ==
  << <<5,   {"MBC2"}>>,
     <<6,   {"MBC2", "has_battery"}>>,
     <<8,   {"has_ram"}>>,
     <<9,   {"has_ram", "has_battery"}>>,
     <<11,  {"MMM01"}>>,
     <<12,  {"MMM01", "has_ram"}>>,
     <<13,  {"MMM01", "has_ram", "has_battery"}>>,
     <<15,  {"MBC3", "has_timer", "has_battery"}>>,
     <<16,  {"MBC3", "has_ram", "has_timer", "has_battery"}>>,
     <<17,  {"MBC3"}>>,
     <<18,  {"MBC3", "has_ram"}>>,
     <<19,  {"MBC3", "has_ram", "has_battery"}>>,
     <<25,  {"MBC5"}>>,
     <<26,  {"MBC5", "has_ram"}>>,
     <<27,  {"MBC5", "has_battery", "has_ram"}>>,
     <<28,  {"MBC5", "has_rumble"}>>,
     <<29,  {"MBC5", "has_rumble", "has_ram"}>>,
     <<30,  {"MBC5", "has_rumble", "has_ram", "has_battery"}>>,
     <<32,  {"MBC6"}>>,
     <<34,  {"MBC7", "has_sensor", "has_rumble", "has_ram", "has_battery"}>>,
     <<252, {"has_camera"}>>,
     <<253, {"BANDAI_TAMA5"}>>,
     <<254, {"HuC3"}>>,
     <<255, {"HuC3", "has_ram", "has_battery"}>> >>

\* get_cart_hardware: the set of flags that are true for a hardware code.
GetCartHardware(code) ==
  CASE code = 1 -> {"MBC1"}
    [] code = 2 -> {"MBC1", "has_ram"}
    [] code = 3 -> {"MBC1", "has_ram", "has_battery"}
    [] OTHER    ->
         UNION {FallThrough[i][2] :
                  i \in {j \in DOMAIN FallThrough :
                           \E e \in 1 .. j : FallThrough[e][1] = code}}

ControllerTypes == {"NONE", "MBC1", "MBC2", "MBC3", "MBC5", "MBC6", "MBC7"}

\* Mutant: the tests in another order.
GetControllerTypeReversed(flags) ==
  IF      "MBC1" \in flags THEN "MBC1"
  ELSE IF "MBC7" \in flags THEN "MBC7"
  ELSE IF "MBC6" \in flags THEN "MBC6"
  ELSE IF "MBC5" \in flags THEN "MBC5"
  ELSE IF "MBC3" \in flags THEN "MBC3"
  ELSE IF "MBC2" \in flags THEN "MBC2" ELSE "NONE"

\* get_controller_type: the first controller among the flags, in this order.
GetControllerType(flags) ==
  IF      "MBC1" \in flags THEN "MBC1"
  ELSE IF "MBC2" \in flags THEN "MBC2"
  ELSE IF "MBC3" \in flags THEN "MBC3"
  ELSE IF "MBC5" \in flags THEN "MBC5"
  ELSE IF "MBC6" \in flags THEN "MBC6"
  ELSE IF "MBC7" \in flags THEN "MBC7" ELSE "NONE"

\* ram_bank_count: number of 8 KiB banks for the RAM size code at 0x149.
RamBankCount(code) ==
  CASE code = 2 -> 1 [] code = 3 -> 4 [] code = 4 -> 16 [] code = 5 -> 8
    [] OTHER -> 0

\* The bank count run_machine computes from the ROM size code at 0x148 is
\* 2 * (1 << code), which an int can hold for these codes, stored in a
\* uint8_t: from code 7 on nothing of it is left.
RomSizeCodes == 0 .. 29
RomBankCount(code) == IF code < 7 THEN 2 * ShiftOne(code) ELSE 0

-----------------------------------------------------------------------------
(* The ROM file: its length, the bytes at the offsets that matter, and the *)
(* byte the rest is filled with.                                           *)

IsCells(f, top) == \A i \in DOMAIN f : i \in Nat /\ i < top /\ f[i] \in Byte

FileByte(file, i) ==
  IF i >= file.size THEN 0
  ELSE IF i \in DOMAIN file.bytes THEN file.bytes[i] ELSE file.padding

HardwareCode(file) == FileByte(file, 327)
RomSizeCode(file)  == FileByte(file, 328)
RamSizeCode(file)  == FileByte(file, 329)

\* main hands over a file that is not empty.  Behind its end the header is 0.
IsCartridge(file) ==
  /\ file.size \in Nat /\ file.size > 0
  /\ IsCells(file.bytes, file.size)
  /\ file.padding \in Byte
  /\ RomSizeCode(file) \in RomSizeCodes
=============================================================================
