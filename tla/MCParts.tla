------------------------------ MODULE MCParts ------------------------------
(* The smaller parts for TLC.  They share no variable, so that interleaving  *)
(* them would show nothing more: a behaviour is one of a single part.  The   *)
(* parts are extended, so that TLC evaluates what their proofs assume of the *)
(* constants.                                                                *)
EXTENDS Keyboard, Mouse, Clock, Console, Terminal, Memory, Disk, Mount, Loader, Acpi,
        Files, Cursor

VARIABLE part    \* the one of this behaviour

SmallSteps == {-1, 0, 1}

\* Commands that print nothing, a line, more than the capture buffer holds, and
\* a character that they take back.
SmallOutputs == {<< >>, <<"o">>, <<"o", "p", "q", "r">>, <<NL, "p", BS, "q">>}

\* Programs as a linker lays them out, with and without a .bss; one that a full
\* disk has cut, one too big for the buffer, one without an entry point; some
\* that are linked for the end of the window, the kernel and the top of memory;
\* an object file, and files that are no programs.
Loadable(o, v, f, m) ==
  [type |-> "PT_LOAD", offset |-> o, vaddr |-> v, filesz |-> f, memsz |-> m]
Stack == [type |-> "PT_GNU_STACK", offset |-> 0, vaddr |-> 0, filesz |-> 0, memsz |-> 0]
Linked(n, segments, entry, length) ==
  [name |-> n, kind |-> "program", segments |-> segments, entry |-> entry,
   size |-> length]
SmallElfFiles ==
  {Linked("hello", <<Loadable(4, 12, 2, 2), Loadable(6, 14, 1, 3), Stack>>, 12, 7),
   Linked("bss", <<Loadable(3, 12, 1, 8)>>, 12, 4),
   Linked("cut", <<Loadable(4, 12, 2, 2), Loadable(6, 14, 2, 2), Stack>>, 12, 6),
   Linked("big", <<Loadable(2, 12, 8, 8)>>, 12, 12),
   Linked("noentry", <<Loadable(3, 12, 1, 2)>>, 0, 4),
   Linked("end", <<Loadable(3, 12, 1, 1), Loadable(4, 19, 1, 2)>>, 12, 5),
   Linked("kernel", <<Loadable(2, 2, 2, 4)>>, 2, 4),
   Linked("top", <<Loadable(2, 30, 2, 4)>>, 30, 4),
   Linked("object", << >>, 0, 4),
   [Linked("text", << >>, 0, 2) EXCEPT !.kind = "other"],
   [Linked("empty", << >>, 0, 0) EXCEPT !.kind = "other"]}

\* Bytes that could be taken for those the parser looks for, and code that uses
\* the name before it is defined.
SmallPreludes == {<< >>, <<18, 10, 0>>, <<10, S5, 112>>, <<S5>>}
SmallLengthBytes == {<< >>, <<10>>, <<18, 0>>}

\* Tables without, with one and with two system partitions, whose last sector is
\* full or not; volumes whose last cluster would be a part of one or not.
Entry(t, s) == [type |-> t, start |-> s]
SmallTables ==
  [per_sector : {1, 2, 3},
   entries : {<< >>, <<Entry("esp", 9)>>, <<Entry("data", 7), Entry("esp", 9)>>,
              <<Entry("unused", 0), Entry("data", 7), Entry("esp", 9), Entry("esp", 5)>>,
              <<Entry("data", 7), Entry("data", 5)>>}]
SmallVolumes ==
  {[reserved |-> r, fats |-> f, fat_sectors |-> 2, cluster_sectors |-> s,
    total |-> r + f * 2 + d] : r \in {1, 2}, f \in {1, 2}, s \in {1, 2, 3}, d \in {2, 4, 5}}

vars == <<keyboardVars, mouseVars, clockVars, consoleVars, memoryVars,
          diskVars, terminalVars, loaderVars, acpiVars, mountVars, filesVars,
          cursorVars, part>>

Init == /\ KeyboardInit /\ MouseInit /\ ClockInit /\ ConsoleInit /\ MemoryInit /\ DiskInit
        /\ TerminalInit /\ LoaderInit /\ AcpiInit /\ MountInit /\ FilesInit /\ CursorInit
        /\ part \in {"keyboard", "mouse", "clock", "console", "memory", "disk", "terminal",
                   "loader", "acpi", "mount", "files", "cursor"}

\* A step of one part is a step of no other.
Kept(other, p, variables) == IF p = other THEN TRUE ELSE UNCHANGED variables
Only(p) ==
  /\ part = p /\ UNCHANGED part
  /\ Kept("keyboard", p, keyboardVars)
  /\ Kept("mouse", p, mouseVars)
  /\ Kept("clock", p, clockVars)
  /\ Kept("console", p, consoleVars)
  /\ Kept("memory", p, memoryVars)
  /\ Kept("disk", p, diskVars)
  /\ Kept("terminal", p, terminalVars)
  /\ Kept("loader", p, loaderVars)
  /\ Kept("acpi", p, acpiVars)
  /\ Kept("mount", p, mountVars)
  /\ Kept("files", p, filesVars)
  /\ Kept("cursor", p, cursorVars)

PressKey   == Only("keyboard") /\ \E key \in Keys : Press(key)
ReleaseKey == Only("keyboard") /\ \E key \in Keys : Release(key)
Scancode   == Only("keyboard") /\ keyboard_handler
TakeChar   == Only("keyboard") /\ (GetChar \/ ClearChar)
SendPacket == Only("mouse") /\ Send
LoseByte   == Only("mouse") /\ Lose
MouseByte  == Only("mouse") /\ mouse_handler
ClockTick  == Only("clock") /\ clock_tick
ClockCall  == Only("clock") /\ Call
Get        == Only("clock") /\ \E i \in 1 .. 3 : clock_get(i)
Set        == Only("clock") /\ \E i \in 1 .. 3 : clock_set(i)
Left       == Only("console") /\ cursor_left
Right      == Only("console") /\ cursor_right
Insert     == Only("console") /\ \E c \in Printable : insert_char(c)
DeleteChar == Only("console") /\ delete_char_before_cursor
Up         == Only("console") /\ KeyUp
Down       == Only("console") /\ KeyDown
EnterLine  == Only("console") /\ EnterKey
CancelLine == Only("console") /\ CtrlC
MemoryMap  == Only("memory") /\ \E map \in Maps : pmm_init(map)
Reserve    == Only("memory") /\ pmm_reserve_region
HeapPage   == Only("memory") /\ heap_init
ScanPci    == Only("disk") /\ pci_scan
InitAhci   == Only("disk") /\ (Ahci \/ AhciDone)
InitNvme   == Only("disk") /\ Nvme
InitEmmc   == Only("disk") /\ (EmmcStart \/ Emmc \/ EmmcDone)
DiskCall   == Only("disk") /\ (AhciSector \/ EmmcSector \/ AtaSector \/ NvmeSector \/ NoSector)
MoveData   == Only("disk") /\ (AtaData \/ AtaFlush)
Command    == Only("terminal") /\ EnterCommand
Erase      == Only("terminal") /\ EraseLast
Type       == Only("terminal") /\ \E char \in Typable : TypeChar(char)
Reopen     == Only("terminal") /\ OpenAgain
Page       == Only("terminal") /\ \E y \in 0 .. TrackHeight - 1 : ClickTrack(y)
LoadStart  == Only("loader") /\ (Alloc \/ Read \/ Missing \/ Check)
LoadSegment == Only("loader") /\ Segment
LoadEnd    == Only("loader") /\ (Finish \/ Kill)
InitAcpi   == Only("acpi") /\ acpi_init
PowerOff   == Only("acpi") /\ (acpi_poweroff \/ Enabled \/ Wait)
WritePm1   == Only("acpi") /\ (WriteA \/ WriteB)
PoweredOff == Only("acpi") /\ (Off \/ Halt)
MountDisk  == Only("mount") /\ fat32_init
TakeFree   == Only("mount") /\ Allocate
GiveBack   == Only("mount") /\ \E cluster \in used : Free(cluster)
OpenFiles  == Only("files") /\ Open
Age        == Only("files") /\ Tick
ChangeDir  == Only("files") /\ Elsewhere
ClickNone  == Only("files") /\ Beside
ClickRow   == Only("files") /\ \E row \in DOMAIN entries : Select(row)
EnterDir   == Only("files") /\ \E row \in DOMAIN entries : Enter(row)
LoadFile   == Only("files") /\ \E row \in DOMAIN entries : Load(row)
Glyph      == Only("cursor") /\ \E g \in Glyphs : PutGlyph(g)
NewRow     == Only("cursor") /\ Newline
TakeBack   == Only("cursor") /\ Backspace
ClearAll   == Only("cursor") /\ Clear
MovePtr    == Only("cursor") /\ \E pos \in Cell : cursor_update(pos)

Next ==
  \/ PressKey \/ ReleaseKey \/ Scancode \/ TakeChar
  \/ SendPacket \/ LoseByte \/ MouseByte
  \/ ClockTick \/ ClockCall \/ Get \/ Set
  \/ Left \/ Right \/ Insert \/ DeleteChar \/ Up \/ Down \/ EnterLine \/ CancelLine
  \/ MemoryMap \/ Reserve \/ HeapPage
  \/ ScanPci \/ InitAhci \/ InitNvme \/ InitEmmc \/ DiskCall \/ MoveData
  \/ Command \/ Erase \/ Type \/ Reopen \/ Page
  \/ LoadStart \/ LoadSegment \/ LoadEnd
  \/ InitAcpi \/ PowerOff \/ WritePm1 \/ PoweredOff
  \/ MountDisk \/ TakeFree \/ GiveBack
  \/ OpenFiles \/ Age \/ ChangeDir \/ ClickNone \/ ClickRow \/ EnterDir \/ LoadFile
  \/ Glyph \/ NewRow \/ TakeBack \/ ClearAll \/ MovePtr

Spec == Init /\ [][Next]_vars

\* The parts' variables stay in their types; only those of its part change in a
\* behaviour, so only they are looked at.
TypeOK ==
  /\ part = "keyboard" => KeyboardTypeOK
  /\ part = "mouse" => MouseTypeOK
  /\ part = "clock" => ClockTypeOK
  /\ part = "console" => ConsoleTypeOK
  /\ part = "memory" => MemoryTypeOK
  /\ part = "disk" => DiskTypeOK
  /\ part = "terminal" => TerminalTypeOK
  /\ part = "loader" => LoaderTypeOK
  /\ part = "acpi" => AcpiTypeOK
  /\ part = "mount" => MountTypeOK
  /\ part = "files" => FilesTypeOK
  /\ part = "cursor" => CursorTypeOK
=============================================================================
