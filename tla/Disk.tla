-------------------------------- MODULE Disk --------------------------------
(***************************************************************************)
(* The disk layer of disk.c: which controller the machine is driven with,  *)
(* and a sector call's way to its driver.  The AHCI and the eMMC driver    *)
(* are modules of their own; the others are small enough to be here.       *)
(***************************************************************************)
EXTENDS Naturals

CONSTANTS MaxTries, MaxFailures,
          MaxCalls   \* bound: sector calls

VARIABLES
  stage,     \* where disk_init is
  present,   \* the controllers pci_scan found, which disk_init forgets at its end
  active,    \* active_driver
  ata, nvme, \* what the legacy and the NVMe driver do
  a_pc, running, ci, busy, tfe, slot,
  e_pc, cmd, tries, inhibit, status, error, answering, moving, loaded,
  finished, hurried,
  req, outcome, moved

A == INSTANCE Ahci WITH pc <- a_pc
E == INSTANCE Emmc WITH pc <- e_pc

ahci == <<a_pc, running, ci, busy, tfe, slot>>
emmc == <<e_pc, cmd, tries, inhibit, status, error, answering, moving, loaded,
          finished, hurried>>
sectorCall == <<req, outcome, moved>>
own  == <<stage, present, active, ata, nvme>>
diskVars == <<own, ahci, emmc, sectorCall>>

Drivers == {"DISK_NONE", "DISK_IDE", "DISK_AHCI", "DISK_NVME", "DISK_EMMC"}

Nothing == [ahci |-> FALSE, nvme |-> FALSE, emmc |-> 0, ide |-> FALSE]

DiskInit ==
  /\ stage = "scan" /\ active = "DISK_NONE"
  /\ present = Nothing
  /\ ata = "idle" /\ nvme = "idle"
  /\ A!Init /\ E!Init
  /\ req = 0 /\ outcome = "none" /\ moved = {}

-----------------------------------------------------------------------------
(* disk_init.                                                              *)

Settle(driver) == active' = driver /\ stage' = "settled" /\ present' = Nothing

Pass(next) == stage' = next /\ UNCHANGED <<active, present>>

pci_scan ==
  /\ stage = "scan"
  /\ present' \in [ahci : BOOLEAN, nvme : BOOLEAN, emmc : 0 .. 2, ide : BOOLEAN]
  /\ stage' = "ahci" /\ UNCHANGED active
  /\ UNCHANGED <<ata, nvme, ahci, emmc, sectorCall>>

Ahci ==
  /\ stage = "ahci" /\ present.ahci
  /\ A!Setup \/ A!Stop
  /\ UNCHANGED <<own, emmc>>

AhciDone ==
  /\ stage = "ahci"
  /\ \/ ~present.ahci /\ Pass("nvme")
     \/ a_pc = "failed" /\ Pass("nvme")
     \/ a_pc = "idle" /\ Settle("DISK_AHCI")
  /\ UNCHANGED <<ata, nvme, ahci, emmc, sectorCall>>

\* nvme_init fails without a BAR, and otherwise waits until the controller is
\* ready.
Nvme ==
  /\ stage = "nvme"
  /\ \/ Pass("emmc")
     \/ present.nvme /\ Settle("DISK_NVME")
  /\ UNCHANGED <<ata, nvme, ahci, emmc, sectorCall>>

\* The controllers pci_find_next gives, one after the other.
EmmcStart ==
  /\ stage = "emmc"
  /\ e_pc \in {"off", "failed"}
  /\ present.emmc > 0
  /\ present' = [present EXCEPT !.emmc = @ - 1]
  /\ E!Start
  /\ UNCHANGED <<stage, active, ata, nvme, ahci>>

Emmc ==
  /\ stage = "emmc"
  /\ E!BringUp \/ E!SendCmd \/ E!Hardware
  /\ UNCHANGED <<own, ahci>>

EmmcDone ==
  /\ stage = "emmc"
  /\ \/ e_pc = "idle" /\ Settle("DISK_EMMC")
     \/ /\ e_pc \in {"off", "failed"} /\ present.emmc = 0
        /\ IF present.ide THEN Settle("DISK_IDE") ELSE Settle("DISK_NONE")
  /\ UNCHANGED <<ata, nvme, ahci, emmc, sectorCall>>

-----------------------------------------------------------------------------
(* disk_read_sector and disk_write_sector: the driver's call, of which one *)
(* runs at a time.                                                         *)

More == req < MaxCalls

AhciSector ==
  /\ active = "DISK_AHCI"
  /\ (More /\ A!Sector) \/ A!Issue \/ A!Polled \/ A!Failed \/ A!Hardware
  /\ UNCHANGED <<own, emmc>>

EmmcSector ==
  /\ active = "DISK_EMMC"
  /\ \/ More /\ E!Sector
     \/ E!SendCmd \/ E!DataGiveUp \/ E!DataPolled \/ E!Result
     \/ E!Hardware
  /\ UNCHANGED <<own, ahci>>

\* ide_read_sector and ide_write_sector wait for the drive without a limit; if
\* it does not ask for the data they never return.  Neither looks whether it
\* has failed, at the sector or at the flush that ends a write.
AtaSector ==
  /\ active = "DISK_IDE" /\ ata = "idle" /\ More
  /\ req' = req + 1 /\ outcome' = "none" /\ ata' = "drq"
  /\ UNCHANGED <<stage, present, active, nvme, ahci, emmc, moved>>

AtaData ==
  /\ ata = "drq"
  /\ moved' \in {moved, moved \cup {req}}
  /\ \/ ata' = "idle" /\ outcome' = "quiet"
     \/ ata' = "flush" /\ UNCHANGED outcome
  /\ UNCHANGED <<stage, present, active, nvme, ahci, emmc, req>>

AtaFlush ==
  /\ ata = "flush"
  /\ moved' \in {moved, moved \ {req}}
  /\ ata' = "idle" /\ outcome' = "quiet"
  /\ UNCHANGED <<stage, present, active, nvme, ahci, emmc, req>>

\* nvme.c never creates the I/O queues, so that no completion ends the wait of
\* nvme_read_sector and nvme_write_sector.
NvmeSector ==
  /\ active = "DISK_NVME" /\ nvme = "idle" /\ More
  /\ req' = req + 1 /\ outcome' = "none" /\ nvme' = "wait"
  /\ UNCHANGED <<stage, present, active, ata, ahci, emmc, moved>>

\* Without a driver the call returns at once.
NoSector ==
  /\ stage = "settled" /\ active = "DISK_NONE" /\ More
  /\ req' = req + 1 /\ outcome' = "quiet"
  /\ UNCHANGED <<own, ahci, emmc, moved>>

DiskNext ==
  \/ pci_scan \/ Ahci \/ AhciDone \/ Nvme \/ EmmcStart \/ Emmc \/ EmmcDone
  \/ AhciSector \/ EmmcSector \/ AtaSector \/ AtaData \/ AtaFlush \/ NvmeSector
  \/ NoSector

DiskSpec == DiskInit /\ [][DiskNext]_diskVars

-----------------------------------------------------------------------------
(* Properties                                                              *)

\* The variables stay in their types.
DiskTypeOK ==
  /\ stage \in {"scan", "ahci", "nvme", "emmc", "settled"}
  /\ active \in Drivers
  /\ present \in [ahci : BOOLEAN, nvme : BOOLEAN, emmc : 0 .. 2, ide : BOOLEAN]
  /\ a_pc \in {"off", "failed", "stop", "idle", "busy", "poll"}
  /\ tries.sent \in 0 .. MaxTries /\ tries.failed \in 0 .. MaxFailures + 1
  /\ inhibit \subseteq {"cmd", "dat"} /\ status \subseteq {"complete", "transfer"}
  /\ outcome \in {"none", "quiet", "message"}
  /\ ata \in {"idle", "drq", "flush"}
  /\ loaded \in 0 .. MaxCalls /\ hurried \in BOOLEAN
  /\ moved \cup finished \subseteq 1 .. MaxCalls

\* fat32.c cannot see whether a sector call succeeded.  But a call of the AHCI or
\* the eMMC driver that ends without a message on the screen was answered for
\* itself, however late the answers to the calls before it come, and so its
\* sector is where it belongs: with the eMMC driver unless the call wrote its
\* buffer's address while another's data were moving.  Of the legacy driver,
\* which does not look, nothing can be said.
QuietMeansDone ==
  outcome = "quiet" =>
    /\ active = "DISK_AHCI" => req \in moved
    /\ active = "DISK_EMMC" => req \in finished /\ (hurried \/ req \in moved)
=============================================================================
