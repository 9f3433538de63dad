------------------------------- MODULE Files --------------------------------
(***************************************************************************)
(* The file browser of app.c: a listing taken when the window opens and    *)
(* after each change of directory, rows that are selected by a click and   *)
(* acted upon by a second one that follows it quickly.                     *)
(*                                                                         *)
(* The listing is a copy.  The terminal may change the current directory   *)
(* and what is in it behind the browser's back.                            *)
(***************************************************************************)
EXTENDS Integers, Sequences, FiniteSets

CONSTANTS
  Dirs, RootDir,           \* directories; names are those of their entries
  FileNames,
  FILES_MAX_ENTRIES,
  FILES_DBLCLICK_TICKS,
  MaxEntries               \* bound: entries of a directory

ASSUME RowsAssumption == FILES_MAX_ENTRIES \in Nat

VARIABLES
  cwd,
  disk,                    \* the entries of each directory
  entries, selected, last_click_row,   \* files_state_t, with rows from 1
  age,                     \* timer ticks since last_click_ticks, as far as they matter
  before,                  \* history: the entry of the click before, or NoEntry
  acted                    \* history: what the last double click did

filesVars == <<cwd, disk, entries, selected, last_click_row, age, before, acted>>

NoRow == 0
NoEntry == "no entry"
Quiet == [name |-> NoEntry, first |-> NoEntry, gap |-> 0]
Late == FILES_DBLCLICK_TICKS + 1

\* A name is that of a directory or of a file; a directory lists each once.  The
\* entries . and .. of a directory, neither of which leads out of it, are left out.
Names == (Dirs \ {RootDir}) \cup FileNames
Contents == {s \in UNION {[1 .. n -> Names] : n \in 0 .. MaxEntries} :
               \A i, j \in DOMAIN s : s[i] = s[j] => i = j}

\* fat32_list_dir_entries
Listing(dir) ==
  SubSeq(disk[dir], 1, IF Len(disk[dir]) < FILES_MAX_ENTRIES THEN Len(disk[dir])
                       ELSE FILES_MAX_ENTRIES)

FilesInit ==
  /\ cwd = RootDir
  /\ disk = [d \in Dirs |-> << >>]
  /\ entries = << >> /\ selected = NoRow
  /\ last_click_row = NoRow /\ age = Late
  /\ before = NoEntry /\ acted = Quiet

\* files_on_open; closing gives the state back.
Open ==
  /\ entries' = Listing(cwd) /\ selected' = NoRow
  /\ last_click_row' = NoRow /\ age' = Late
  /\ before' = NoEntry /\ acted' = Quiet
  /\ UNCHANGED <<cwd, disk>>

Tick ==
  /\ age < Late
  /\ age' = age + 1
  /\ UNCHANGED <<cwd, disk, entries, selected, last_click_row, before, acted>>

\* A command in the terminal.
Elsewhere ==
  /\ \/ cwd' \in Dirs /\ UNCHANGED disk
     \/ \E d \in Dirs, s \in Contents : disk' = [disk EXCEPT ![d] = s] /\ UNCHANGED cwd
  /\ UNCHANGED <<entries, selected, last_click_row, age, before, acted>>

-----------------------------------------------------------------------------
(* files_on_click.                                                         *)

Beside ==
  /\ selected' = NoRow
  /\ UNCHANGED <<cwd, disk, entries, last_click_row, age, before, acted>>

IsDoubleClick(row) == row = last_click_row /\ age <= FILES_DBLCLICK_TICKS

Select(row) ==
  /\ row \in DOMAIN entries /\ ~IsDoubleClick(row)
  /\ selected' = row
  /\ last_click_row' = row /\ age' = 0
  /\ before' = entries[row]
  /\ UNCHANGED <<cwd, disk, entries, acted>>

Did(row) == acted' = [name |-> entries[row], first |-> before, gap |-> age]

\* fat32_change_dir looks the name up in the directory that is current now.
CanEnter(name) == \E k \in DOMAIN disk[cwd] : disk[cwd][k] = name

\* Mutant: the row stays the last one clicked when other entries come into it.
Enter_Chained(row) ==
  /\ IsDoubleClick(row) /\ entries[row] \in Dirs
  /\ cwd' = IF CanEnter(entries[row]) THEN entries[row] ELSE cwd
  /\ entries' = Listing(cwd') /\ selected' = NoRow
  /\ last_click_row' = row
  /\ age' = 0 /\ before' = NoEntry
  /\ Did(row)
  /\ UNCHANGED disk

Enter(row) ==
  /\ IsDoubleClick(row) /\ entries[row] \in Dirs
  /\ cwd' = IF CanEnter(entries[row]) THEN entries[row] ELSE cwd
  /\ entries' = Listing(cwd') /\ selected' = NoRow
  /\ last_click_row' = NoRow
  /\ age' = 0 /\ before' = NoEntry
  /\ Did(row)
  /\ UNCHANGED disk

\* Into the editor: what it loads is the editor's business.
Load(row) ==
  /\ IsDoubleClick(row) /\ entries[row] \notin Dirs
  /\ selected' = row /\ age' = 0
  /\ before' = entries[row]
  /\ Did(row)
  /\ UNCHANGED <<cwd, disk, entries, last_click_row>>

FilesNext ==
  \/ Open \/ Tick \/ Elsewhere \/ Beside
  \/ \E row \in 1 .. FILES_MAX_ENTRIES : Select(row) \/ Enter(row) \/ Load(row)

FilesSpec == FilesInit /\ [][FilesNext]_filesVars

-----------------------------------------------------------------------------
(* Properties                                                              *)

\* The variables stay in their types.
FilesTypeOK ==
  /\ cwd \in Dirs
  /\ disk \in [Dirs -> Contents]
  /\ entries \in Contents /\ Len(entries) <= FILES_MAX_ENTRIES
  /\ selected \in {NoRow} \cup DOMAIN entries
  /\ last_click_row \in {NoRow} \cup DOMAIN entries
  /\ age \in 0 .. Late

\* What is opened or entered was clicked twice in quick succession, and both
\* clicks meant it: no other entry had come into its row in between.
ActsOnWhatWasClicked ==
  acted # Quiet => acted.first = acted.name /\ acted.gap <= FILES_DBLCLICK_TICKS
=============================================================================
