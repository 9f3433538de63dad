# LanternOS in TLA+

A verification project for the LanternOS kernel (`src/src/kernel`): TLA+ modules
translated from its C and assembly sources, TLC configurations that check them on
small instances, and TLAPS proofs of the properties that matter most. All paths
below are relative to the repository; line numbers are those of the sources.
`PROJECT.json` maps every definition to the lines it models.

- [1. The system](#1-the-system)
- [2. Modules and the code](#2-modules-and-the-code)
- [3. Runs: what is checked, bounds](#3-runs)
- [4. Fairness](#4-fairness)
- [5. What is atomic](#5-what-is-atomic)
- [6. Proofs](#6-proofs)
- [7. Disagreements found](#7-disagreements-between-the-code-and-what-is-said-of-it)
- [8. Not modelled](#8-not-modelled)
- [9. Plan](#9-plan)

## 1. The system

LanternOS is a 32-bit x86 kernel for one CPU. `kernel_main` sets up memory, interrupts,
the disk and the file system and enters the text shell. The shell is process 0; a
program it runs is another process, switched to by the timer interrupt. The command
`desktop` turns the shell into a window system, one loop that polls the pointer and
the keyboard, with a terminal window in which the same shell commands run.

```
   keyboard.c   mouse.c    timer.c ---> clock.c          interrupts
       |           |          |
   last_char   x, y, left   process_schedule ----+       shared variables
       |           |          |                  |
   shell.c --- window.c, menubar.c, taskbar.c    |       process 0
       |           |                             |
       |         app.c (terminal, files, editor) |
       +-----------+----------+                  |
       |           |          |                  |
    heap.c      fat32.c    elf.c -> process_spawn/kill   called by process 0 only
                   |
        disk.c: ahci / nvme / emmc / ATA
```

| component | state | operations | what is hard | what makes it correct |
|---|---|---|---|---|
| processes (`process.c`, `scheduler.asm`, `timer.c`, `syscall.c`, `idt_asm.asm`, `cmd_run` of `shell.c`) | the table, the current slot, a count, the stacks and what they return into, IF | `process_spawn`, `process_kill`, `process_schedule`, the timer and `int 0x80` gates, the wait loop of `run` | a tick between any two statements; a switch out of a gate; a process that dies by itself | no tick resumes a process without a stack; one running; IF comes back; nobody starves; `run` leaves nothing behind |
| heap (`heap.c`) | a list of block headers | `kmalloc`, `kfree` | long sequences of calls, splitting and merging | blocks tile the region, allocations never overlap, null only when full, nothing leaks |
| file system (`fat32.c`) | FAT copies, directories, clusters, current directory and its path | write, read, mkdir, rmdir, remove, change directory | power loss between sectors, full disk, two spellings of a name | no cross-links, no leaks, copies equal, what is written is read, path and cluster agree |
| desktop (`window.c`, `menubar.c`, `taskbar.c`, `app.c`) | slots, z-order, menus, the editor's focus, applications' blocks, the loop's locals; the terminal's scrollback and line; the file browser's listing | a turn of the loop: click, key, drag, focus; opening, raising and closing windows; the editor's commands; a nested `desktop`; keys, commands and scrolling in the terminal; clicks in the listing | slot numbers kept across a compaction; callbacks that open windows; a scrollback that overflows in the middle of a line; a directory that changes behind a listing | the order is dense, each block has one owner, Save means the editor that is shown, a drag never outlives its window; the scrollback is the end of what was printed and every line of it in reach; a double click acts on what was clicked |
| input (`keyboard.c`, `mouse.c`, `clock.c`) | modifier flags and a one-character buffer; packet and pointer; time | three interrupt handlers, `keyboard_getchar`, `clock_get`, `clock_set` | interrupts between a read and a clear, lost bytes, torn reads | a character is one that was typed, once and in order; the pointer follows the hand and resynchronises; time is never ahead |
| boot and loading (`main.c`, `pmm.c`, `gpt.c`, `fat32_init`, `elf.c`) | page bitmap and its count; where the volume and its data begin; user window and read buffer | `pmm_init`, `pmm_reserve_region`, `heap_init`; `gpt_find_esp`, `fat32_init`; `elf_exec` | regions that end within a page, a heap that does not use the pages it asks for; tables with unused entries, a volume that ends within a cluster; sizes computed in 32 bits, half-loaded programs | the count is the bitmap's, and no page of the kernel, the user window or the heap is left free; clusters lie in the volume, apart from each other; a program that runs is whole |
| shell (`shell.c`, `vga.c`) | line, cursor, history; the text row | editing, history, tokenizer, commands | buffer, cursor, history and screen moved by separate loops | they amount to a line with a cursor and the last lines entered; the screen shows the line. The commands are modelled where they act |
| disk drivers (`disk.c`, `ahci.c`, `nvme.c`, `emmc.c`, `pci.c`, `i2c_dw.c`) | chosen driver, device registers, command memory | `disk_init`; read and write a sector | fall-back between drivers, waits with and without a limit, late answers, errors that stay | a call that ends without a message has moved its own sector |
| firmware tables (`acpi.c`) | the two sleep types, the PM1 registers | `acpi_init`, `acpi_poweroff` | values picked out of compiled AML, two encodings each; registers that are absent, a mode switch that may not come | every register is told what the tables say, or a reason is printed |
| display (`vga.c`, `cursor.c`) | text cursor, capture buffer, the pointer's snapshot | `vga_putchar`, `cursor_update`, `cursor_invalidate` | a snapshot that is older than the text | moving the pointer never changes text |
| descriptor tables, host tools, old boot loader | | | | not modelled: set up once at boot, or not part of the kernel |

How they interact: interrupt handlers share single variables with the code they
interrupt (`last_char`, the pointer, the time, the process table), without locks; a
kernel function is protected only by the order of its statements. The heap, the file
system and the desktop are called by process 0 alone - user programs reach the
kernel through `int 0x80` only, whose calls print a character or end the process -
so their calls never overlap each other. The editor, the file browser and the
terminal are callbacks of the window loop (`on_open`, `on_close`, `on_key`,
`on_click`, `on_focus`), and may change the window list while the loop holds slot
numbers in locals. The list of hazards, each with its line and the properties that
cover it, is in `PROJECT.json`.

## 2. Modules and the code

| module | models | lines |
|---|---|---|
| `Dispatch` | abstract: a set of live processes and the one that runs | |
| `Processes` | the process table and its users, a C statement a step; implements `Dispatch` | `process.c`, `scheduler.asm`, `timer.c`, `syscall.c`, `shell.c:436-455` |
| `ProcessesProofs` | theorems about `Processes` | |
| `Allocator` | abstract: live allocations in a region, never overlapping | |
| `Heap` | `kmalloc` and `kfree`, a loop iteration a step; implements `Allocator` | `heap.c` |
| `HeapProofs` | theorems about `Heap` | |
| `Fat32` | the volume and the calls that change it, a sector write a step | `fat32.c`, `cmd_touch` |
| `Fat32Proofs` | theorems about `Fat32`: its types and the copies of the table, then chains, where the writes land, and the path | |
| `Fat32HonestProofs` | on top of those: what a write leaves on the disk is what it returns | |
| `Fat32LeakProofs` | on top of both: every allocated cluster belongs to something | |
| `WindowStack` | abstract: the windows as a stack of applications | |
| `Desktop` | window list, event loop, menus, editor; implements `WindowStack` | `window.c`, `menubar.c`, `taskbar.c`, `app.c` |
| `DesktopProofs` | theorems about `Desktop`: its lists, its drag, its blocks, its documents, the refinement of `WindowStack`, the File menu | |
| `Keyboard`, `Mouse`, `Clock` | the interrupt handlers and their readers | `keyboard.c`, `mouse.c`, `clock.c` |
| `Line` | abstract: a line with a cursor, the last lines entered, a walk through them | |
| `Console` | the shell's line editor with its echo, a key a step; implements `Line` | `shell.c:15-90, 126-144, 527-564, 611-653`, `vga.c:107-172` |
| `Chars` | the two characters that move the cursor and the room for a line, which `Console` and `Terminal` share | `vga.c:136-145`, `shell.c:15` |
| `Terminal` | the terminal window: scrollback, line, captured output, scrollbar | `app.c:50-360`, `shell.c:567-609`, `vga.c:107-172` |
| `Files` | the file browser, a click a step | `app.c:361-470` |
| `Memory` | the page bitmap from `pmm_init` to `heap_init`, a call a step | `pmm.c`, `heap.c:15-26`, `main.c:36-42` |
| `Emmc`, `Ahci` | two drivers with their controllers, a wait a step | `emmc.c`, `ahci.c` |
| `Disk` | `disk_init`, the sector calls of all drivers; instantiates `Emmc` and `Ahci` | `disk.c`, `nvme.c` |
| `Mount` | `gpt_find_esp`, `fat32_init`, clusters and sectors, `find_free_cluster` | `gpt.c`, `fat32.c` |
| `Loader` | `elf_exec` and `elf_load`, a segment a step, in words of a few bits | `elf.c`, `fat32.c:298-343` |
| `Acpi` | `acpi_init` over what firmware may have; `acpi_poweroff`, a register write a step | `acpi.c` |
| `BootProofs` | theorems about `Mount`, `Memory`, `Disk`, `Acpi`, `Loader` | |
| `Cursor` | the pointer and the text on one frame buffer, cell by cell | `cursor.c`, `vga.c:74-172` |
| `DeviceProofs` | theorems about `Clock`, `Mouse`, `Keyboard`, `Cursor`, `Files`, `Console`, `Terminal` | |
| `MCProcesses`, `MCHeap`, `MCFat32`, `MCDesktop`, `MCTerminal` | constants for TLC | |
| `MCParts` | puts together the twelve parts that share no state (`Keyboard`, `Mouse`, `Clock`, `Console`, `Memory`, `Disk`, `Terminal`, `Loader`, `Acpi`, `Mount`, `Files`, `Cursor`); a behaviour is one of a single part. It extends the parts, so that what their theorems assume of the constants is evaluated | |

Definitions whose name ends in `_Something` after the name of another are plausible
faults of that definition, used to see that the properties notice them. They take no
part in the specifications.

**Processes.** `state`, `current_process`, `process_count`, `stack` and `entry` are the
fields of `processes[]`; `frame[p]` is what the saved `esp` of `p` returns into -
`boot` (the synthetic frame of `process_spawn`), `isr` (a timer frame, whose `iret` sets
IF) or `exit` (the call in `sys_exit`, which returns with IF clear). `Schedule(how)` is
`process_schedule` with `context_switch`; `TimerTick` is the whole handler. `pc[0]`
walks through the statements of `process_spawn` (`SpawnStack`, `SpawnFrame`,
`SpawnPublish`, `SpawnCount`), of the wait loop (`WaitRead` and `WaitClear` are the two
statements of `keyboard_getchar`) and of `process_kill` (`KillMark`, `KillFree`,
`KillCount`). A user program does nothing but compute, make system calls, and end in
one of three ways (`Programs`): never, by returning into `process_bootstrap`, or by
`sys_exit`.

**Heap.** `block` maps the address of each header on the list to its fields; the headers
are `DOMAIN block`, since a header absorbed by a merge is never read again. `held` are
the pointers callers own; callers free what they own, once. `Kmalloc`/`Kfree` are a
call up to its loop, `Search*` and `Merge*` the iterations of the two loops.

**Fat32.** `fat`, `dirs` and `data` are the volume; a cluster is one sector. A call
computes the sequence `todo` of its next sector writes from what it reads, and
`WriteSector` issues them one at a time: a write to the table goes to one copy after the
other before it leaves `todo` (`Rest`), as `fat_set_cluster` has it (`fat32.c:97-110`). `job.at` says where the call goes on when they
are done (`body`, `entry`, `slot`, `return`). `Crash` loses the call and the current
directory and reboots. Names have a stem, a tail beyond the eighth character and an
extension, which is exactly what the two ways the code spells a name tell apart
(`BuildName`, `ReadName`). What the code never looks at - a free cluster's old bytes,
a file's bytes read as entries - is one value. Not in the model: the read of a file of
size 0, which follows first cluster 0 and copies bytes from before the data area
(`fat32.c:333`); the program uses a result only up to the returned length.

**Desktop.** A turn of `desktop()` is two steps, because the code gives the click away
first (`poll`: one action per part of the screen that may take it) and the key, the drag
and the focus afterwards (`key`); `EndTurn` is what every turn ends with. The locals of
the loop are a record on `frames`, a stack, since the terminal command `desktop` enters
the loop again (`RunDesktop`) and its end returns into the middle of a turn (`Resume`).
Only a typed line runs it, and a line is a terminal's: its length is its block's `text`
(`TypeKey`), which the command takes with it (`LineTaken`).
`Opened` is `window_spawn_or_focus`, `CloseWindow` is `close_window` with the editor's
`on_close`, `Renumbered` its last loops over `z_order`. Blocks of the heap are named
by kind; a full heap yields `Null`, which the callbacks check as the code does. A text is
its length: the editor neither compares nor transforms it.

**Keyboard, Mouse, Clock.** Bytes travel on a bounded wire; `keyboard_handler` and
`mouse_handler` are one interrupt each. `Keyboard` has one key of each sort the handler
tells apart, `Keypad8` standing for the scan codes from 58 up, which index past the
maps: what they store is a choice. `Mouse` computes on the real byte format (signs,
overflow, bit 3) and loses bytes anywhere; where the hand leads is stated without the
handler's arithmetic, as the place on the screen nearest to it (`Reach`). `Clock` reads and sets its three fields one
at a time with the timer interrupt between them. `delivered`, `hand`, `clean` and
`midnight` are history variables that no handler reads.

**Console.** A buffer is an array of cells with a terminator, and whatever an earlier line
left behind it, as in the code; `Str` reads it the way the code does. An action is one
key in `shell_run` with everything it prints; `Put` is `vga_putchar` on the row the cursor
is in, with `Bare` for pixels an earlier row left there. `prompt` is the length of the
prompt, which is that of the current directory. Keys come in any order: the driver below
is `Keyboard`. The refinement cuts every buffer at its length or its terminator.

**Memory.** `free` is the set of pages whose bits are clear. `pmm_init` takes any map of up
to three disjoint regions between `Edges` in one of which the kernel lies (`Usable` and
`Counted` are its two walks over the regions), `heap_init` calls `pmm_alloc_page` once a step.

**Disk, Emmc, Ahci.** `Emmc`'s `pc` walks through `emmc_send_cmd` (`inhibit`, `poll`,
`answer`) and the end of a sector call (`data`, `result`); `cmd` tells who called. Every
wait of the code ends with its condition or, at any time, without it (`GiveUp`,
`DataGiveUp`). The controller (`Respond`, `Move` and their failures) sees the inhibit bits
and two status registers and remembers for which call it works, which the driver does
not; an error may leave the inhibit bits set. `loaded` is the call whose buffer address and
count are in the controller's registers: `Sector` writes them before any wait
(`emmc.c:321-323`), and while the data of an earlier call are moving the controller may or
may not take them and may use them for these data (`Move`). `Ahci` has one slot, waits
without a limit, and an error halts the port. Reads and writes of these two differ in
nothing the property sees. The legacy driver's are `AtaSector`, `AtaData` and, for a write,
`AtaFlush`: at the last two the drive may have failed, which the driver does not look at.
`moved`, the calls whose sectors are where they belong, `finished` (the controller has
ended the call's transfer), `hurried` (the address was written with the data line taken)
and `outcome` are history variables, except that `outcome` says whether something was
printed.

**Terminal.** `buf` and `input_start` are those of `terminal_state_t`; `Appended` is
`terminal_append`, the rolling window; `EnterCommand` is `terminal_on_key` at the end of a line
with all it calls: `shell_exec_line` on its own copy of the line (`CommandLine`), the
capture of `vga_putchar` (`Captured`), the appended answer and the next prompt. `Lines`,
`max_offset`, `ThumbTop` and `Shown` are `wrap_text_lines`, `terminal_layout` and
`draw_wrapped_text`. What a command prints is chosen; `transcript`, `line_typed` and `ran`
are history variables.

**Files.** `Select`, `Enter`, `Load` and `Beside` are the branches of `files_on_click`;
`Elsewhere` is a terminal command that changes the directory or its contents while the
listing stays. Rows are hit by number; time is the ticks since the last click as far as
they matter (`Late`). `before` and `acted` are history variables.

**Loader.** Memory is one array of words, because there is no paging: `mem[a]` says what a
cell holds - a byte of a file by its place in it, zeros, or what a program left. `Plus` is
the 32-bit sum at a smaller width. `Accepted` is the list of checks of one turn of
`elf_load`'s loop. A file's segments have memory of their own, as a linker gives it to
them, and only a file that ends with a cluster may be shorter than they say, for that is
how a full disk cuts one (`Segments`). When a segment is copied over the buffer it is read from, what follows
depends on the bytes, and the model stops (`garbled`); `buffer` is placed anywhere in
`BufferPlaces`, because the heap covers the user window (finding 3).

**Acpi.** The tables are the machine's. They are chosen when the code first looks at them,
a valid set by its contents (`Tables`: AML as its compiler writes `\_S5`, after a prelude
in which the name may already occur, `early`), an invalid one by the copy that is damaged.
`parse_s5` works on the bytes and, as the code, stops at the first name. `acpi_poweroff`
goes on in steps because the controller may answer at any time (`Enabled`).

**Mount.** A partition table and a boot sector are chosen, `fat32_init` computes where the
volume, its tables and its data begin, and clusters are taken and given back through
`find_free_cluster`. It justifies what `Fat32` assumes: numbered clusters, each with its
own sector.

**Cursor.** A cell of text is the unit; the sprite covers two cells, of which it fills
the first. `Placed` is the end of `vga_putchar` with the scroll, `cursor_invalidate` what
every drawing function of `vga.c` ends with. `text` is a history variable: what text alone
would have left on the screen.

## 3. Runs

Each run asks one question; the passing ones fire every action of their module.

| run | question | bounds | states |
|---|---|---|---|
| `Processes_table` | is the table consistent under every interleaving, with all three kinds of program, and does everybody run, Ctrl-C work and IF come back as long as no program calls `sys_exit`? | 3 slots | 1,130 |
| `Processes_retire` | violation: does a process that returned stay dead? | 3 slots | |
| `Processes_exit` | violation: does IF come back after `sys_exit`? | 3 slots | |
| `Heap_calls` | is the heap right for every sequence of calls? | 16 units, headers of 1, requests of 1, 3, 6 | 87 thousand |
| `Heap_user_image` | violation: does an allocation stay clear of user images? | same | |
| `Fat32_disk` | is the volume right after every sector write? | clusters 2-4, 2 entries each, files of 0, 1, 3 bytes at 2 to a cluster, 2 FAT copies, 1 power failure | 97 thousand |
| `Fat32_parent` | violation: does `cd ..` find the parent? | same, no failure | |
| `Fat32_touch` | violation: does `touch` leave files alone? | one long name | |
| `Desktop_windows` | is the window list right for every sequence of clicks and keys? | 3 slots, 3 applications, 1 file, heap of 4 blocks, 2 calls of `desktop()` | 1.7 million |
| `Desktop_focus` | violation: has the editor in front its menu rows? | 3 slots, 2 applications | |
| `Terminal_silent` | violation: does the terminal still take a character after a long output? | as in `Small_parts` | |
| `Small_parts` | do the drivers report what was typed, moved and counted? is the line what was edited and the screen what the line is? is the scrollback the end of the output and in reach? are pages and clusters what they are taken for? is a silent sector call done, a running program whole, a power-off what the tables say, a double click meant, and does the pointer leave text alone? | 3 keys, 4 bytes on the wire; 3 packets, 2 bytes lost, screen 3 x 2; 3 h x 2 min x 2 s; 2 characters, buffers of 3 cells, history of 2, 4 columns, prompts of 1 and 2; pages of 4 bytes, 16 pages, 11 edges; 3 tries of `CMD1`, 1 failed, 4 sector calls, 2 eMMC controllers; scrollback of 11, capture of 4, view of 2 x 3 in 4 lines, 2 lines entered; words of 5 bits, 11 files of up to 3 segments; 4 sleep types, 12 shapes of AML; 15 partition tables, 36 volumes, 4 table entries a sector; 2 directories, 2 entries, 2 rows; screen 3 x 2 | 0.79 million |

What they show, and why the bounds are enough:

*Processes.* `TableWellFormed`, `OneRunning`, `SchedulableHasStack`,
`NothingLeftBehind`, and `ImplementsDispatch`: a process leaves the dispatcher only by
`process_kill`, whatever it does itself. `cmd_run` waits for its child, so at most one
program is alive; the second slot is the child, the third shows that the search passes a
dead slot. The proofs remove the bound. Liveness, for behaviours
in which no program calls `sys_exit` (finding 2 is what happens otherwise): `ReadyRuns` (no
starvation) and `ControlReturns` (a seen Ctrl-C brings the prompt back, and IF that a gate
cleared comes on again). `ControlReturns` starts where Ctrl-C has been read: a Ctrl-C that arrives between the two statements of
`keyboard_getchar` is lost, as it is in the code.

*Heap.* 16 units hold up to eight blocks, so fragmentation, exact fits, splits whose rest
is too small, and three free neighbours in a row occur. The constants keep the order of
the real ones: the heap starts before the user window, covers it, and ends with it or
later (2-10 MB and 4-8 MB in the code). The proofs remove the bound.

*Fat32.* With three clusters the root fills up after two entries, extends, and the disk
is full at once, in the middle of a file, of a directory extension or of a `mkdir`.
Sizes 0, 1 and 3 are the empty file, a partly filled cluster and two clusters with a
partial last one. One power failure between any two sectors is what the driver can
survive or not: `OnlyTargetDangles` says that only a delete or an overwrite leaves an
entry on free clusters, and only the entry it works on; every other call loses at most
space. A machine left in that state is not started again by the model, for the next
allocation may link one cluster twice; `NothingLeaks` is for the time before a failure.

*Desktop.* Three slots make a lower, a middle and an upper window, so that a close moves
some slots and not others; a heap of four blocks is one too small for two calls with all
applications. A desktop that is entered again is explored while its documents and lines
are new (the constraint `Reentered` of `MCDesktop`): its windows, menus, drag and focus
behave in full, texts and files do in the first call. After an inner `desktop()` has returned into
an outer one, the outer call's `last_top` and `dragging_index` name slots of the list the
inner call left, so `SaveMeansTheEditor` and `DragIsLive` are stated for behaviours in
which that has not happened, and the ownership of every block for the first call:
entering again forgets the windows without closing them, and what they own is lost.

*Input.* The parts of `Small_parts` share no variable, so one behaviour drives one of
them, and interleaving them would show nothing more. Three presses
hold a modifier, a key and a repeat or another modifier, with their releases arriving late
and interleaved with reads; three packets with two lost bytes leave the driver at each of
the three positions of a packet. `PointerTracks` is, for a driver that has lost a byte, about packets whose movement bytes
do not have bit 3: with such movements the driver may stay out of step, which is in the
nature of the check in `mouse.c:66`. `TimeNeverAhead` allows a torn read to be up to an
hour late, and excepts midnight.

*Console.* Buffers of three cells hold two characters and a terminator, so a line is empty,
half full or full, and a shorter one can follow a longer one; " " is one of the two
characters, because the tokenizer cuts a line there. A history of two is empty, filling
and full, and its lines move. `ImplementsLine` says that nothing left behind in any of
these buffers is ever seen again. Four columns with prompts of one and two are lines that
fit their row and lines that do not: `ScreenInStep` is about the former, and ends for a
line once it has been wrapped, because `vga.c`'s backspace stops at the left edge.

*Terminal.* A scrollback of eleven holds the banner, two prompts and a little more, so that
it overflows in an output, in a prompt and while a line is typed. `NothingOutOfReach` says
that what is kept is the end of what was printed and typed, that the line behind the
prompt is the one the shell is given, and that the scrollbar reaches every line. Four
lines of which two are shown, on a track of six pixels, make the thumb's height and place
round both ways. `TypingIsHeard` is what the scrollback's comment promises, and fails
(finding 7).

*Files.* Two directories, two entries in a row that may change places, and clicks one tick
apart or later: everything that can come between two clicks on a row.

*Loader.* The files are what a linker makes (several segments, a `.bss`, one that ends at
the end of the window), what a full disk leaves of them, what is linked for the kernel or
for the top of memory so that its end wraps around, and what is no program. Each may
follow each, also after a refusal half-way; `ProgramIsWhole` says that nothing of an
earlier one is left in what runs.

*Acpi.* Lengths of one to three bytes, values with and without a prefix, a prelude and
length bytes that look like what the parser searches for, and preludes that mention the
name, also as their last element; one register or two, ACPI mode on, switched on in time,
too late or never.

*Mount.* The last sector of a partition table is full, or has room for unused entries, and
system partitions come first, later, twice or not at all; a volume's last cluster lies in
it, or would be half outside; its table has more entries than there are clusters.

*Cursor.* Three columns and two rows: the pointer lies in the row that scrolls away, in the
one that takes its place, at the edge, on the text cursor and beside it.

*Memory.* The constants keep the order of the real ones: the kernel lies in the first
pages after a reserved part, the heap begins above it and ends above the user window it
contains. The edges begin, end and split pages inside and outside each of these areas, so
regions meet within a page, end in the middle of the heap, or are missing. `PagesKept`
holds because the heap asks for at least as many pages as can be free below its end:
`pmm_alloc_page` gives the lowest first.

*Disk.* Four calls let an error or a late answer of one call meet the next two; the eMMC
bounds on `CMD1` are reached. Two eMMC controllers, each of which may fail at any stage of
its set-up, exercise the fall-back. `QuietMeansDone` rests on the data inhibit bit alone:
a driver that waited for the command line only would take the end of an earlier transfer
for its own. It is about the AHCI and the eMMC driver: the legacy one never sees a failure,
the NVMe one never returns. Of an eMMC call that wrote its address while the data line was
taken (`hurried`) it says that the controller has ended the transfer of this very call, and
not that the data went to its buffer: without that exception TLC finds, within two calls,
the earlier call's data using up the new call's address, so that the new data go astray
and no message is printed. The AHCI driver needs no exception, because it waits for the
command before or finds the port halted.

Deadlock is checked in `Processes_retire`, `Heap_*`, `Fat32_parent`, `Fat32_touch` and
`Terminal_silent`. It is switched off where the system may stop: `sys_exit` halts the
machine with IF clear (`Processes_table`, `Processes_exit`), the power is off
(`Fat32_disk`), the user has left the desktop for good (`Desktop_*`), or the bounds on
keys, packets and calls end a behaviour, the boot is over, the machine is off, or a disk
does not answer (`Small_parts`).

## 4. Fairness

- `Processes`: strong fairness of `TimerTick`, because the timer never stops and the PIC
  holds a tick that comes with IF clear until IF is set again; of the shell's obligatory
  steps and of each process's own steps, because a slice of 10 ms lets the code that has
  the CPU get on, however often it loses it. Nothing is assumed of the user: no key need
  come, no program need be started. `ReadyRuns` and `ControlReturns` are about behaviours
  in which no program calls `sys_exit` (`NoSysExit`), for after one the machine may stop.
- `Heap`: weak fairness of the loop, `Fat32`: weak fairness of a call's own steps. Both are
  straight code of process 0, which does not starve (`ReadyRuns`).
- `Desktop` and the parts of `Small_parts`: none; only safety is stated. A card or a port
  need never answer, so nothing that has to happen could be said of the drivers.

## 5. What is atomic

The kernel is compiled with `-O0` for one CPU, and all gates are interrupt gates. So a C
statement is a step of `Processes` and of the readers of shared variables, statements take
effect in order, and a handler is one step. Where only process 0 can be in the code, and
no handler looks at its data, coarser steps lose nothing: a loop iteration in `Heap`, half
a turn in `Desktop`, the computation between two sector writes in `Fat32`, whose atomic
unit is the sector because that is what a power failure respects.

## 6. Proofs

`tlapm` proves, for every value of the constants that satisfies the assumptions:

| theorem | says | module |
|---|---|---|
| `TableStaysWellFormed` | `Spec => []TableWellFormed` | `ProcessesProofs` |
| `OneRunningHolds` | `[]OneRunning`, with the shell's interrupts on | |
| `StacksSafe` | `[]SchedulableHasStack` | |
| `PromptIsClean` | `[]NothingLeftBehind` | |
| `TableImplementsDispatch` | `Spec => ImplementsDispatch` | |
| `BlocksTile` | `[]WellFormed` | `HeapProofs` |
| `FreeSpaceStaysWhole` | `[]FreeSpaceIsWhole` | |
| `FailureIsHonest` | `[]NullMeansFull` | |
| `HeapImplementsAllocator` | `Spec => ImplementsAllocator` | |
| `AllocationsStayApart` | `[]AllocationsApart`: nobody's bytes reach another caller's or a header | |
| `VolumeStaysWellFormed` | `[]VolumeWellFormed`: the types, and copies of the table that agree but where a failure hit | `Fat32Proofs` |
| `ChainsStayApart` | `[]NoCrossLinks` | |
| `OnlyTheTargetDangles` | `[]OnlyTargetDangles` | |
| `WritesStay` | `[]WritesStayOnTarget` | |
| `PathStaysTrue` | `PlainNames` implies `[]PathNamesCwd` | |
| `WritesAreHonest` | `FittingNames` implies `[]WriteIsHonest` | `Fat32HonestProofs` |
| `NothingIsLost` | `[]NothingLeaks` | `Fat32LeakProofs` |
| `SlotsStayDense` | `[]WellFormed` | `DesktopProofs` |
| `DragStaysLive` | `[]DragIsLive` | |
| `BlocksHaveOwners` | `[]StatesOwned` | |
| `MarksAreTrue` | `SavedMeansOnDisk` (an action property) | |
| `DesktopImplementsStack` | `Spec => ImplementsStack` | |
| `WindowsStayTheirOwn` | `[]OneWindowEach`: no application has two windows, no two windows one block | |
| `SaveRowsMeanTheEditor` | `[]SaveMeansTheEditor` | |
| `ClustersStayInVolume` | `[]ClustersInVolume` | `BootProofs` |
| `PagesStayKept` | `[]PagesKept` | |
| `QuietCallsAreDone` | `[]QuietMeansDone` | |
| `PoweroffTellsS5` | `[]PoweroffIsS5` | |
| `ProgramsAreWhole` | `[]ProgramIsWhole` | |
| `NoTimeFromTheFuture` | `[]TimeNeverAhead` | `DeviceProofs` |
| `PointerStaysOnTrack` | `[]PointerTracks` | |
| `CharactersWereTyped` | `[]KeysAsTyped` | |
| `ConsoleImplementsLine` | `ConsoleSpec => ImplementsLine` | |
| `ScreenStaysInStep` | `[]ScreenInStep` | |
| `ConsoleTypes` | `[]ConsoleTypeOK` | |
| `TerminalKeepsInReach` | `[]NothingOutOfReach` | |
| `TerminalTypes` | `[]TerminalTypeOK` | |
| `TextStaysTrue` | `[]NoStaleText` | |
| `ClicksMeanOneEntry` | `[]ActsOnWhatWasClicked` | |

Assumptions: `MaxProcessesAssumption` (at least one slot), `ProgramsAssumption`,
`HeapAssumption` (the region begins above 0, because 0 is the null pointer, and holds a
header), `DesktopAssumption` (the bounds are naturals, at least one window) and
`NamesAssumption`, `ScreenAssumption` (a row and a column at least), `DayAssumption` (more
than one hour), `RowsAssumption`, and
- `Fat32Assumption`: the root is a cluster of the volume, no cluster has the number that
  marks the end of a chain, there is at least one copy of the table, one byte to a cluster
  and two entries to a directory cluster (`mkdir` writes `.` and `..`), and no name that is
  typed has the stem of a dot entry: `build_fat_name` ends the stem at the first dot;
- `PlainNames`, for `PathStaysTrue` only: no file or directory is made with a name that is
  looked up as `..` is, nor with the one by which the model marks what is stale. The code
  does not forbid the first (section 7), and the theorem is false without it;
- `FittingNames`, for `WritesAreHonest` only: no name is longer than a directory entry
  holds. With a longer one the entry that a write makes is not the one a read of the same
  name looks for (section 7), so that nothing of what was written is read;
- `VolumesAssumption`: the volume has room for its tables, the tables have an entry for
  every cluster, and an entry of the partition table is no larger than a sector;
- `MemoryAssumption`: `HEAP_SIZE` has at least as many pages as can be free below the end
  of the heap, that is above the kernel and outside the user window. The real numbers
  satisfy it (2-10 MB, the kernel below and 4 MB of user window within), and without it
  `heap_init` would be given pages too high and leave some of its own free;
- `MouseAssumption`: a movement has nine bits, the screen has a pixel;
- `KeyboardAssumption`: the two bounds are naturals;
- `ConsoleAssumption`: the buffers, the history and the screen have a cell, a prompt has a
  length, the first one's is 1, and the marks for a terminator, a new line and a backspace
  are none of the characters that a line is made of;
- `TerminalAssumption`: the buffers have room for a terminator and the view for a character,
  the copy that the shell makes of a line is no shorter than the terminal's (256 and 128
  characters), what commands print are texts, and the thumb leaves a pixel of its track for
  every line out of view. In the one size a terminal is opened with (`window.c:327`) that is
  a thumb of 10 pixels at least on a track of 126, for at most 64 lines of which 7 are
  shown; with less track some scroll offset would put the thumb at an end of it too early;
- `AcpiAssumption`: a sleep type has three bits, a byte eight, the extra length bytes of an
  AML package are at most three, and where a table uses the name before it defines it no
  package follows, of which the code would take the values;
- `LoaderAssumption`: the buffer is not at address 0 and does not wrap around, and the files
  are what a linker makes, or a whole number of clusters of it (`Segments`).

Each stands in the module that declares the constants, and TLC evaluates it in the run of
that module.

*Processes.* None of the properties is inductive: that a tick never finds a slot without a
stack depends on where the shell is in `process_spawn` and `process_kill`, and that the
shell runs with interrupts on depends on which frame a suspended process returns into.
The invariant is `IInv == TypeOK /\ CpuInv /\ SlotInv /\ PhaseInv`: `CpuInv` relates
the current slot, the interrupt flag and the frame of process 0, which is a timer frame
whenever it is suspended; `SlotInv` says that every slot but 0 and `pid` is dead and owns
no stack, and in which phases of the shell `pid`'s slot owns one and may be alive;
`PhaseInv` gives the count for every phase and says that the shell has the CPU in all the
phases in which the slot is half built or half taken down. `NextProcessRunnable` says of
the cyclic search that it yields a runnable slot or the one it started from. Three lemmas,
`ScheduleInv`, `ShellInv` and `UserInv`, carry the invariant over the actions.
Cardinality appears only in the count of `TableWellFormed`, which follows because the slots in use are
{0} or {0, `pid`}. The refinement maps spawning to `Create`, a switch to `Switch` and the
first statement of `process_kill` to `Destroy`.

*Heap.* `IInv == ListInv /\ HeldInv /\ Coalesced /\ SearchInv /\ MergeInv`. `ListInv` is
type correctness and tiling; `HeldInv` says that the pointers held are exactly the blocks
in use and no larger than them; `SearchInv` that every block before the search position
did not fit, `MergeInv` that no two free neighbours lie before the merge position, which
makes `Coalesced` and `NullMeansFull` inductive. Three geometric lemmas do the work:
`Neighbours` (the next header is the nearest one above), `SplitTiles` and `AbsorbTiles`
(a split and a merge leave a tiling). `AllocationsApart` goes beyond the
refinement, which forgets the headers; no run checks it, because it follows from `HeldInv`
and the tiling in every state.

*Desktop.* That z_order names every slot does not survive a step by itself: what opening
and closing keep is that it is a permutation (`Permutes`), so that what is removed is there
once and what is renumbered leaves no gap. `IInv` adds the types of the lists, menus and
loops; `SpawnKeeps`, `RaiseKeeps` and `CloseKeeps` carry the permutation over the three
ways the order changes. `DragInv` is about the
innermost loop only and rests on `IInv`: an inner `desktop()` that returns puts the outer
loop, whose slot is stale, on top again, which is why `DragIsLive` excludes it
(`resumed`). `OwnInv` says of the blocks that titles are unique, that a window's block is
of its application, that every call of `desktop()` has a screen of its own, and that before
a second call no application's block is without a window; from it follow `StatesOwned`
and, with uniqueness of the titles, the refinement: by name the window list is a sequence
without repetition (`Stacked`), whatever slots the compaction moves. `FocusInv` is what
`SaveMeansTheEditor` needs to be inductive. While the File menu has its rows, the window
they mean is the editor that was in front when the turn began; or the list has been
forgotten by an inner `desktop()` and is still empty or one window long, with the editor's
block untouched; or the front window has changed in this turn, whose end clears the rows,
and no line can be run before that. The last case showed a flaw of an earlier model, in
which a terminal that had just been opened could run `desktop` without a line having been
typed: with three nested calls, more than the run's two, the rows would have outlived
their editor.

*Fat32.* The copies of the table differ while a call writes them one after the other, and
a power failure may leave them so. `LockStep` counts: the entries in which copies differ,
but for the one at the head of `todo` (`Torn`), are at most as many as there have been
power failures. `HeadInv` says that of the pending writes only the head may have reached
some copies, which hold its value; `JobInv` that a call knows the place or the name its
next phase needs. Everything a call computes - chains, free slots, writes - is typed by
lemmas of its own. A chain is a recursive function of the whole table, so its properties
are proved for the least length at which they could fail (`ChainFacts`, `ChainSteps`,
`ChainLast`), and the invariant `ChainsInv` speaks of the table's entries instead: there
are labels `own` and places `pos` such that a cluster which is followed by another has the
label of that one and a smaller place, no two are followed by the same, none by a free one
(`TableInv`), and every entry on the medium names a cluster that is its own label, a
different one for each (`HeadsInv`, `CwdInv`). From that, clusters of one chain share a
label and clusters of two never do (`ChainLabels`). The rest of the invariant says what is
left to do. `IntactInv`: an entry names a free cluster only if it is the call's and the
call has yet to rewrite it (`Losing`). `PhaseInv` gives the shape of the pending writes in
every phase: what is left of making an entry (`Making`), of allocating a cluster and
linking it (`Grows`, `Storing`), of cutting a chain and freeing the rest (`Cutting`,
`Freeing`), with the clusters that are still to be freed out of reach of every other entry
(`Doomed`). `TornLands` is about a write that has reached some copies of the table.
A write to the first copy changes what the code reads and takes the phase one step further
(`CallWrites`), with new labels where a cluster is linked (`BaseLink`) or freed
(`BaseFree`); one to a later copy changes nothing it reads (`ViewPhase`). Between the
writes a call reads a volume on which nothing dangles (`AllUsed`), and so what it finds to
write has the shape (`WriteClusterSound`, `WriteTrimSound`, `MkdirEntrySound`,
`DeleteSound` and their like). `PhaseLands` then says of each shape where its next write
goes.

`PathStaysTrue` needs the way that the path takes (`Way`): a directory for each of its
components, each named by the entry that a search of the one before finds, no two alike.
While a call is in progress its entry is in none of them but the last, the current
directory. As labels tell the chains apart, no write then lands on a directory above it
(`WriteAway`), and a directory that stays as it is gives every search the same answer
(`FindStays`). That no directory comes twice is what makes the current one none of those
above it; it is kept when `cd` adds one, because the entry found is in the current
directory and those of the directories on the way are not. `Located` says that an entry
found for a directory names a cluster, for `cd` would take 0 for the root.

`WritesAreHonest` follows the clusters of the file that is being written one by one. While
the loop runs there is a sequence of them (`Laid`), no two alike, each holding its piece of
the data and each but the newest linked to the next (`Linked`); the newest link and the
store may be among the writes that are left (`Laying`), and when the loop is over the
entries past them are yet to be freed (`Trimming`). The entry that the write was begun with,
or the slot it will take, stays the first that a search of the directory finds
(`BeginFinds`, `Finds`), because no write of this call makes another slot of it used, and
when the directory grows its chain becomes longer at the end only (`LinkExtends`). A loop
that ends early has seen `FindFreeCluster` fail, and from then on nothing is freed
(`Short`). In the end the chain of the entry is the sequence (`LaidLeads`), as many
clusters as the number returned needs (`Needed`, `Quotient`). `mkdir` that finds no room
has taken the last free cluster itself and given it back, so that one may be free.

`NothingIsLost` speaks of what is reached from the root by following directories, and of
the time before a power failure. Its invariant, `LeakInv`, rests on `Inv`, `ChainsInv` and
`HonestInv` and never mentions reaching. `TreeInv`: every entry that names a cluster, but
for the one the call works on, is listed in a directory that is the root or is named by
such an entry in turn (`Anchored`), and there is a rank that grows from a directory to
those listed in it. `FedInv`: every cluster in use is the root, follows another, is named
by such an entry, is owed by the call, or will be freed or linked by a write that is still
to come. `Plan` orders those writes: a link to a new cluster is the last write of its
table, nothing is claimed once clusters are being freed, and what a write cuts off is freed
by a later one. `LengthInv` gives every file but the call's own the length its size takes.
`DoneInv` says what a call has done when it returns, so that its entry can be put back
among the others: a write that stored nothing has no cluster, `mkdir` has an entry in the
current directory, or has given its cluster back, and a deleted entry is not in use.
A write to the table keeps the tree because it changes the chain of no directory but the
call's, and that one at its end (`DirStays`), a write of an entry because only the call's
entry is touched (`TreeStep`); the bookkeeping of the pending writes is `FedStep` and
`PlanStep`. When a directory is removed, nothing was left in it but the dot entries, so
none of the others loses its place; when one is made, it gets a rank above that of the
current directory (`BackWhole`).
That this means what the property says is shown between calls. With each step of the
reaching one more directory is found; were one never found, so would be the one that lists
it, whose rank is smaller (`TreeIsLive`), and as the directories are at most as many as the
clusters, the bounded search finds all. A cluster in use that no chain holds would be one
that follows another such, back to one that follows none, and that one belongs to nothing
(`UsedIsOwned`).

The proof of the chains asked for one change of the model: after a power failure it leaves the
machine off when any entry on the medium names a free cluster (`Kept`), no longer only
when one does that is reached from the root. TLC finds the same states with both; that
they agree rests on every directory's remains being unlisted, which the invariant does not
say.

*Mount.* `MountedInv` gives the three values that `fat32_init` computes, and every cluster
in use is one of `Clusters`; what remains is arithmetic: a step of the cluster number is a
cluster's worth of sectors (`OffsetGrows`), the rounding-down of `total_clusters` keeps the
last one inside (`ClusterInData`) and leaves no whole one out (`NoOtherInData`).
`gpt_find_esp` finds the first entry of its type because the double loop visits entries in
the order of their numbers (`FindEsp`).

*Memory.* That the count is the bitmap's is arithmetic over the regions (`CountedIsCardinality`,
by the first region at which it could fail); that no page of the heap stays free is
counting: `MemoryInv` says that the pages which are free below the end of the heap are at
most as many as `heap_init` has still to ask for, and `pmm_alloc_page` takes the lowest.

*Disk.* `DiskInv`: one driver has been set up at most (`OneDriver`); the port that is
polled works for the call that polls it (`PortInv`); and for the eMMC, when a driver has
seen both inhibit lines free, whatever the card still works on is the last sector command
(`LinesInv`, `CardInv`), so that a late answer to an earlier call cannot be taken for its
own. Where its data go is `AddressInv`: an address that was written with the data line
free is still there when the transfer comes, because there was none before it.

*Acpi.* `PackageIs` gives every byte of a compiled package its place, `NameIsFound` says
that the first `_S5_` of a table that does not use it before is the one that the compiler
wrote, `EarlyMention` that in any other the parser ends where the name comes first, and
`ParseFinds` puts them together for each of the encodings. The invariant (`WordsInv`) is about which of
the registers have been told, in each phase.

*Loader.* `LoaderInv`: while a file is checked and laid, the buffer holds it, byte by byte
(`ReadInv`); every segment that has been passed is skipped, or placed in the window
without wrapping around, laid, and clear of the buffer (`LaidInv`), so that neither the
next segment nor the freeing of the buffer disturbs it. That the sums of `elf_load` may
wrap is met in `AcceptedIsPlaced` alone.

*Mouse.* While nothing is lost, what is in `packet[]` and on the wire together are none, one
or two whole packets, and the hand is where these will have taken the pointer (`TrackInv`);
the arithmetic is in `FirstByte` and `AppliedIsReached`, one whole packet applied at once.

*Keyboard.* The flags are those of the moment at which a byte was sent, not of now: for
every byte on the wire, `FlagsInv` relates what the bytes before it will have made of
`shift` and `ctrl` to the keys held at its press. `CodesInv` keeps an arrow's code behind
its prefix, and `NumbersInv` orders the presses through the wire, the buffered character,
the one that is being read, and those delivered.

*Console.* Of a buffer the code reads what is in front of its length, or of the first
terminator (`StrLenIs`, `StrLenOnly`). `BufferInv` adds to the types that no terminator is
among the characters of the line; that is what makes a line that is saved, entered or
loaded the same string in the other buffer (`EnteredIs`, `SavedIs`, `LoadBuffer`), and with
the moving of a full history (`HistoryIs`) and the two shifts of an array as cutting and
joining of sequences (`SpliceIs`, `CutIs`) each key is a step of `Line`. What a key draws is
a sequence of characters, and what the screen is after them a recursive function of their
number, so its lemmas are about the least number at which they could fail (`Induct`):
a text appears behind the cursor or takes the line to another row (`EchoText`), backspaces
and the rubbing out of cells leave blanks behind (`EchoBack`, `EchoRub`). `StandInv` says
that the row shows the line as far as the cursor (`Shows`) or the line has gone on to
another row, which nothing but a prompt undoes (`EchoTyped`); what a deletion draws passes
through a line that ends in a blank (`DeleteStands`).

*Terminal.* That the scrollback is the end of the transcript does not survive an edit by
itself: a backspace in a scrollback that has lost its beginning would leave it one byte
short of that. The invariant, `TerminalInv`, adds what finding 7 is about: once a byte was
dropped the scrollback is full up to the prompt, so that nothing can be typed behind it, and
an edit only meets a scrollback that has everything (`AllThere`, `EditedLine`).
`AppendedIsLast` says of one call of `terminal_append` that it keeps the end of all that was
appended, and of the several calls of a reply likewise (`RepliedIsLast`, `PromptedIsLast`,
`FreshLine`). The capture buffer and the lines of the view are recursive functions: that the
former is a text and the latter finitely many is shown at the least place where it could
fail (`CapturedIsText`, `AllLinesIsSeq`, with `LineEndIs`: a line that is not the last takes
at least one character). The scrollbar is arithmetic: what the rounded-down quotients leave
of the track (`TrackIsLeft`, `ThumbLeaves`, `ScrollbarLeads`).

*Cursor.* `NoStaleText` speaks of the sprite's first cell; the second cell must be
saved faithfully as well (`SnapshotInv`), although the sprite never hides it, because it
is written back. *Clock.* A half-copied time is no time, so the invariant compares the
fields copied so far (`Leading`); an advance that goes backwards in hours is midnight.
*Files.* `RowInv`: the row remembered still has the entry that was clicked.

Model-checked only: liveness (`ReadyRuns`, `ControlReturns`, `CallsReturn`), because the
prover has neither fairness nor ENABLED; and the type invariants of the parts together
(`TypeOK` of `MCParts`), of which those of `Mouse`, `Keyboard`, `Memory`, `Console` and
`Terminal` are proved. What a recursive function computes is proved where the least value
at which it could fail can be named - a chain's length, a count over regions, the first
entry of a table, the first line of a text. What such a function computes beyond that,
that the lines of a text are its characters for example, no theorem says.

## 7. Disagreements between the code and what is said of it

Each is a run that expects its violation.

1. `Processes_retire`, `process.c:102`: the slot a tick leaves becomes READY whatever it
   was, so a program that returned is revived and `run` waits for ever, or until Ctrl-C
   (`process.c:30-32`, "just retire the process").
2. `Processes_exit`, `syscall.c:12`: `sys_exit` yields inside the `int 0x80` gate. It too is
   put back to READY, and when it is resumed it halts with IF clear: the machine stops
   (`process.c:16-21`, "only ever called from timer_handler()").
3. `Heap_user_image`, `heap.c:5`: the heap covers the whole window user images are copied
   to, and an allocation as large as the desktop's back buffer reaches into it
   (`elf.h:66-67`, "well clear of ... the kernel heap").
4. `Fat32_parent`, `fat32.c:486`: the name built for `..` is blanks and a dot, so `cd ..`
   always fails (`fat32.c:466-467`).
5. `Fat32_touch`, `shell.c:306`: for a stem of more than eight characters the read that
   should find a file spells its name otherwise than the write, and `touch` empties an
   existing file (`shell.c:300-301`).
6. `Desktop_focus`, `window.c:533`: the front window is compared by slot number; closing it
   can give its number to the editor, which then has no File menu (`app.h:42`).

7. `Terminal_silent`, `app.c:302`: an overflow leaves the scrollback at exactly
   `TERMINAL_BUF_MAX - 1` bytes, and a character is taken only below that, so nothing can be
   typed any more (`app.c:132-135`, the rolling window is there lest "a long-running
   terminal go silent").

Met while modelling, and stated by no run: entering `desktop` again leaks the windows'
blocks (`window.c:272`); a close button covered by another window's body still closes
(`window.c:441-452`); a button held after a click that was consumed may start a drag in
the next turn (`window.c:512`); the editor saves by bare name into whatever directory is
current (`app.c:530`); the key after a right Ctrl is taken for an extended one and is
mostly swallowed (`keyboard.c:98`); `vga_putchar('\b')` erases the character it steps
over, so the shell's cursor movements blank text on the screen (`vga.c:141-145`), and does
not go back to the row above; after a task file error `ahci.c` never restarts the port,
so every later call fails with the same message (`ahci.c:164`); the eMMC driver leaves the
error status of a failed transfer set, so the next command fails as well (`emmc.c:333-334`);
it writes address, size and count of a transfer before it waits for the lines
(`emmc.c:321-323`), so that the data of a call that was given up may use them and those of
the new call go elsewhere, without a message; the legacy driver never reads ERR or DF, so
a read or write that failed ends like one that did not (`disk.c:34-35`, and
`disk.c:47-51`, which takes the end of BSY for "write is done" and for a flush that "actually
lands on disk");
`nvme_init` reports success before the I/O queues exist, which its own note admits
(`nvme.c:88-90`), and the first sector call then waits for ever; without any driver
`disk_read_sector` returns with the buffer as it was (`disk.c:114`); `heap_init` ignores
which pages it is given (`heap.c:18-20`); usable regions that overlap would be counted
twice (`pmm.c:53`); `mkdir ..` makes a directory by the very name that `cd ..` looks up, and
entering it takes a component off the path (`fat32.c:494-511`); a path longer than the 127
characters of `cwd_path` is cut (`fat32.c:515`), where the model's has no bound;
`fat32_read_file` copies the name it is asked for into twelve bytes without counting
(`fat32.c:307-310`), so the model reads only names that fit. A table that mentions `_S5_`
before it defines it is not powered off by (`acpi.c:164-171`), with a message. A save that
a full disk cut short unmarks the document although only a part was written
(`app.c:530-531`): `SavedMeansOnDisk` compares lengths with `<=` and allows it.

In the terminal: `wrap_text_lines` stops at 64 lines (`app.c:54-69`), so the newest output
may not be shown although the view is pinned to it (`app.c:73`); the capture of `vga.c` is
not re-entrant (`vga.h:62-63`), but `desktop` typed into the terminal nests it; `clear`
calls `vga_clear` directly and draws over the desktop; `vga_putchar` checks and stores
`cap_len` and `cursor_x` apart (`vga.c:123-134`), so a user process may print in between.

In the windows: `repaint_region` redraws whole windows without clipping or redrawing what
lies above them (`window.c:138-169`); a press on a title bar raises without a repaint
(`window.c:512-522`); a click in a body may reach a window under a covering title bar
(`window.c:456-489`); with the start menu and a drop-down both open the one is drawn on top
and the other gets the click; the task bar acts on the z-order at the click and shows that
of the last drawing (`taskbar.c:371-376`). In the file browser `(ly - 18) / 16` rounds
towards 0, so a click in the header hits the first row; the listing goes stale when the
terminal changes the directory; a third click loads the file again; a click beside the
rows does not end a double click.

At boot and in the loader: `elf.h:85-87` says 0 on success where the code returns a pid;
`fat32_read_file` returns whole clusters, so `elf_load`'s checks against the end of the
file are against a rounded size; an RSDP that names only an XSDT hides an older valid one;
a disk with an MBR has 0x55AA too, so `fat32_init` takes its first sector for a boot
sector without a word; entries of the last sector of the partition table beyond the
announced number are scanned. The pointer: after text was printed its next move leaves a
picture of it behind, and a pointer that was overwritten is not redrawn until it moves,
other than `vga.c:154-165` has it.

## 8. Not modelled

- Geometry and drawing. The pointer may be over any part of any window, covered or not.
- The settings page: it has no state. Pixels, colours and the desktop's back buffer.
- Set-up of the input controllers, the frame buffer, descriptor tables and the PCI
  enumeration: written once at boot or only written to; the I2C driver (`i2c_dw.c`), which
  nothing calls yet. Checksums and layout of the firmware's tables: a copy is valid or not.
- What a loader does once a segment has overwritten the file it is read from (`garbled`).
- The file system over a failing disk. `disk_read_sector` and `disk_write_sector` return
  nothing, so a failed sector is invisible above them; `Fat32` runs over a disk that does
  what it is told until the power fails.
- Names longer than the name buffer of `fat32_read_file` (`fat32.c:307`).
- A null `kmalloc` in `process_spawn` (`process.c:59`), which is not checked there: the loader
  has just given back a buffer that is many times a stack. `int 0x80` from process 0
  (`cmd_syscalltest`, `shell.c:425-433`): it prints, and changes nothing of a process.
- Who owns the buffer of a sector call that was given up, and registers as bit fields.
- Long-name directory entries, which the driver skips, and clusters of several sectors.
- `old/` and `tools/`: not part of the kernel.

## 9. Plan

Order of the work, most important behaviour first:

1. *done* `Dispatch`, `Processes`, `ProcessesProofs`: everything else runs on it.
2. *done* `Allocator`, `Heap`, `HeapProofs`.
3. *done* `Fat32` with power failures.
4. *done* `WindowStack`, `Desktop`.
5. *done* `Keyboard`, `Mouse`, `Clock`.
6. *done* `Line`, `Console`.
7. *done* `Memory`, `Emmc`, `Ahci`, `Disk`.
8. *done* `Loader`, `Mount`, `Acpi`; `Terminal`, `Files`; `Cursor`.
9. *done* Proofs about `Desktop`, `Mount`, `Memory`, `Disk`, `Acpi`, `Loader`, `Cursor`,
   `Files`, `Clock`, `Mouse`, `Keyboard`, and of `Fat32` `VolumeWellFormed` and what
   chains share (`NoCrossLinks`, `OnlyTargetDangles`, `WritesStayOnTarget`) and the path
   (`PathNamesCwd`), then what a write returns (`WriteIsHonest`) and what is allocated
   (`NothingLeaks`), of `Console` `ImplementsLine` and `ScreenInStep`, and of `Terminal`
   `NothingOutOfReach`.
10. *done* What callers and users take from the refinements: no two live allocations
    overlap (`AllocationsStayApart`), no application has two windows (`WindowsStayTheirOwn`).
11. The three reads of the pointer by the desktop loop (`mouse.c:78`) against the mouse
    interrupt, and the settings of the controllers at boot.
