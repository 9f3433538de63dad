-------------------------------- MODULE Acpi --------------------------------
(***************************************************************************)
(* acpi.c: the power-off values are taken out of the firmware's tables at  *)
(* boot and written to the power management registers when the user asks.  *)
(*                                                                         *)
(* The tables are the machine's from the start; they are chosen here when  *)
(* the code first reads them.  A DSDT is a sequence of bytes, except that  *)
(* the four bytes of the name "_S5_" are one element.                      *)
(***************************************************************************)
EXTENDS Integers, Sequences, FiniteSetsExt

CONSTANTS
  SleepTypes,        \* the values firmware has for SLP_TYP
  Preludes,          \* what a DSDT holds before its definition of \_S5
  LengthBytes        \* what may follow the lead byte of a PkgLength

S5 == -5
PackageOp == 18
BytePrefix == 10

\* SLP_TYP is a field of three bits; two bits of a lead byte count the bytes
\* that follow it.  Code may mention the name, but is not itself a package.
ASSUME AcpiAssumption ==
  /\ SleepTypes \subseteq 0 .. 7
  /\ \A bytes \in Preludes :
       /\ bytes \in Seq((0 .. 255) \cup {S5})
       /\ \A i \in 1 .. Len(bytes) - 1 : bytes[i] = S5 => bytes[i + 1] # PackageOp
  /\ \A bytes \in LengthBytes : bytes \in Seq(0 .. 255) /\ Len(bytes) <= 3

VARIABLES
  phase,             \* where the code is
  dsdt,              \* the machine: its DSDT,
  registers,         \* the PM1 control registers it has,
  sci_en,            \* whether its ACPI mode is on,
  smi,               \* and whether there is a command that switches it on
  slp_typ,           \* slp_typa, slp_typb
  ready,
  pm1,               \* the word last written to each register
  said               \* whether a reason for not powering off has been printed

acpiVars == <<phase, dsdt, registers, sci_en, smi, slp_typ, ready, pm1, said>>

-----------------------------------------------------------------------------
(* The tables of a machine.                                                *)

\* What a compiler of these tables makes of Name (\_S5, Package () {a, b, 0, 0}).
Element(v) == IF v \in {0, 1} THEN <<v>> ELSE <<BytePrefix, v>>
Package(a, b, length) ==
  <<S5, PackageOp, 64 * Len(length) + 8>> \o length
    \o <<4>> \o Element(a) \o Element(b) \o Element(0) \o Element(0)

Mentions(bytes) == \E i \in DOMAIN bytes : bytes[i] = S5

\* Tables that define \_S5, after a mention of it or not, and that do not.
Tables ==
  {[bytes |-> p \o Package(a, b, l), s5 |-> <<a, b>>, early |-> Mentions(p)] :
     p \in Preludes, a \in SleepTypes, b \in SleepTypes, l \in LengthBytes}
    \cup {[bytes |-> p \o <<S5, 0>>, s5 |-> << >>, early |-> Mentions(p)] : p \in Preludes}
    \cup {[bytes |-> p, s5 |-> << >>, early |-> Mentions(p)] : p \in Preludes}
NoTable == [bytes |-> << >>, s5 |-> << >>, early |-> FALSE]

\* What may be found in place of an RSDP, and the signatures in an RSDT.  A
\* newer RSDP may name an XSDT only.
Copies == {"none", "damaged", "xsdt", "rsdt"}
Entries == {<< >>, <<"APIC">>, <<"APIC", "FACP">>}

AcpiInit ==
  /\ phase = "boot"
  /\ dsdt = NoTable
  /\ registers = {} /\ sci_en = FALSE /\ smi = FALSE
  /\ slp_typ = <<0, 0>>
  /\ ready = FALSE
  /\ pm1 = << >>
  /\ said = FALSE

-----------------------------------------------------------------------------
(* acpi_init.                                                              *)

validated(copy) == copy \in {"xsdt", "rsdt"}

\* The boot loader's copies first, the newer one before the older one, then the
\* two areas of an old BIOS.
find_rsdp(new, old, ebda, bios) ==
  LET found == SelectSeq(<<new, old, ebda, bios>>, validated)
  IN  IF found = << >> THEN "none" ELSE found[1]

\* Mutant: the lead byte is taken for the whole of PkgLength.
pkglength_encoding_size_One(lead_byte) == 1

pkglength_encoding_size(lead_byte) == lead_byte \div 64 + 1

\* parse_s5: the two values, if a package follows the name where it is found first.
parse_s5(bytes) ==
  LET names == {p \in DOMAIN bytes : bytes[p] = S5 /\ p < Len(bytes)}
      op == Min(names) + 1
      first == op + 1 + pkglength_encoding_size(bytes[op + 1]) + 1
      Value(p) == IF bytes[p] = BytePrefix THEN p + 1 ELSE p
      second == Value(first) + 1
  IN  IF names = {} \/ bytes[op] # PackageOp THEN << >>
      ELSE <<bytes[Value(first)], bytes[Value(second)]>>

\* One of the four messages.
Fail ==
  /\ said' = TRUE
  /\ phase' = "up"
  /\ UNCHANGED <<slp_typ, ready>>

acpi_init ==
  /\ phase = "boot"
  /\ \/ \E new, old, ebda, bios \in Copies, entries \in Entries, intact \in BOOLEAN :
          /\ \/ find_rsdp(new, old, ebda, bios) # "rsdt"
             \/ ~intact
             \/ \A k \in DOMAIN entries : entries[k] # "FACP"
          /\ Fail
          /\ UNCHANGED <<dsdt, registers, sci_en, smi>>
     \/ /\ dsdt' \in Tables
        /\ registers' \in {{1}, {1, 2}}
        /\ sci_en' \in BOOLEAN /\ smi' \in BOOLEAN
        /\ LET found == parse_s5(dsdt'.bytes)
           IN  IF found = << >> THEN Fail
               ELSE /\ slp_typ' = found
                    /\ ready' = TRUE
                    /\ phase' = "up"
                    /\ UNCHANGED said
  /\ UNCHANGED pm1

-----------------------------------------------------------------------------
(* acpi_poweroff.                                                          *)

SLP_EN == 8192

\* (slp_typ << 10) | SLP_EN in 16 bits.
Word(typ) ==
  (typ * 1024 + (IF (typ \div 8) % 2 = 1 THEN 0 ELSE SLP_EN)) % 65536

Goto(next) ==
  /\ phase' = next
  /\ UNCHANGED <<dsdt, registers, smi, slp_typ, ready>>

acpi_poweroff ==
  /\ phase = "up"
  /\ IF ready THEN /\ Goto(IF smi /\ ~sci_en THEN "wait" ELSE "write a")
                   /\ UNCHANGED said
     ELSE Goto("up") /\ said' = TRUE
  /\ UNCHANGED <<sci_en, pm1>>

\* The controller has taken the command that wait follows, now or never.
Enabled ==
  /\ phase \notin {"boot", "up", "off"} /\ smi /\ ~sci_en
  /\ sci_en' = TRUE
  /\ UNCHANGED <<phase, dsdt, registers, smi, slp_typ, ready, pm1, said>>

\* A million polls: one of them may see the bit.
Wait ==
  /\ phase = "wait"
  /\ Goto("write a")
  /\ UNCHANGED <<sci_en, pm1, said>>

WriteA ==
  /\ phase = "write a"
  /\ pm1' = <<Word(slp_typ[1])>>
  /\ Goto(IF 2 \in registers THEN "write b" ELSE "after")
  /\ UNCHANGED <<sci_en, said>>

WriteB ==
  /\ phase = "write b"
  /\ pm1' = Append(pm1, Word(slp_typ[2]))
  /\ Goto("after")
  /\ UNCHANGED <<sci_en, said>>

\* A machine in ACPI mode whose registers have what its tables say goes off.
Off ==
  /\ phase = "after" /\ sci_en
  /\ \A k \in registers : pm1[k] = dsdt.s5[k] * 1024 + SLP_EN
  /\ Goto("off")
  /\ UNCHANGED <<sci_en, pm1, said>>

Halt ==
  /\ phase = "after"
  /\ said' = TRUE
  /\ Goto("halted")
  /\ UNCHANGED <<sci_en, pm1>>

AcpiNext == acpi_init \/ acpi_poweroff \/ Enabled \/ Wait \/ WriteA \/ WriteB \/ Off \/ Halt

AcpiSpec == AcpiInit /\ [][AcpiNext]_acpiVars

-----------------------------------------------------------------------------
(* Properties                                                              *)

\* The variables stay in their types.
AcpiTypeOK ==
  /\ phase \in {"boot", "up", "wait", "write a", "write b", "after", "off", "halted"}
  /\ dsdt \in Tables \cup {NoTable}
  /\ registers \in {{}, {1}, {1, 2}} /\ sci_en \in BOOLEAN /\ smi \in BOOLEAN
  /\ slp_typ \in (0 .. 255) \X (0 .. 255)
  /\ ready \in BOOLEAN
  /\ DOMAIN pm1 \subseteq registers
  /\ said \in BOOLEAN

\* The two values are read out of tables that define them, however they are
\* encoded, unless the name is mentioned before, and are never read out of any
\* others; then every register of the machine is told the value the tables have
\* for it and no other, ACPI mode or not; a machine that is not switched off has
\* been told why.
PoweroffIsS5 ==
  /\ phase # "boot" /\ dsdt # NoTable => ready = (dsdt.s5 # << >> /\ ~dsdt.early)
  /\ \A k \in DOMAIN pm1 : pm1[k] = dsdt.s5[k] * 1024 + SLP_EN
  /\ phase \in {"after", "off", "halted"} => DOMAIN pm1 = registers
  /\ (phase = "halted" \/ (phase = "up" /\ ~ready)) => said
=============================================================================
