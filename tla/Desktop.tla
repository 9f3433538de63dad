------------------------------ MODULE Desktop ------------------------------
(***************************************************************************)
(* The desktop: the window list and the event loop of window.c, the start  *)
(* menu of taskbar.c, the pull-down menus of menubar.c and the windows'    *)
(* applications of app.c, the text editor with its documents.              *)
(*                                                                         *)
(* desktop() is one loop.  A turn of it samples the pointer and gives a    *)
(* click to one part of the screen (poll), then gives a key to the front   *)
(* window, starts or ends a drag and tells a window that has come to the   *)
(* front (key).  The command "desktop", typed in the terminal window,      *)
(* enters the loop again before the drag of the outer one (resume), so the *)
(* loop's locals form a stack.                                             *)
(*                                                                         *)
(* Geometry is abstracted: windows can be dragged anywhere right of the    *)
(* taskbar and below the menu bar, so that the pointer may be over any     *)
(* window's button, title or body, whatever lies over it.                  *)
(***************************************************************************)
EXTENDS Integers, Sequences, FiniteSets

CONSTANTS MaxWindows,   \* MAX_WINDOWS, 8 in the code
          Apps,         \* the applications the taskbar can open
          Names,        \* the names of files
          MaxText,      \* how long a document may be
          MaxBlocks,    \* how many blocks the heap has room for
          MaxSessions   \* bound: how often desktop() is called

ASSUME DesktopAssumption ==
  /\ MaxWindows \in Nat \ {0}
  /\ Apps \subseteq {"Terminal", "Files", "Settings", "TextEdit"}
  /\ MaxText \in Nat
  /\ MaxBlocks \in Nat
  /\ MaxSessions \in Nat

VARIABLES
  windows,    \* windows[]: the application of a slot and its app_state
  z_order,    \* z_order[], back to front; its length is g_window_count
  object,     \* the blocks the desktop and the applications kmalloc
  files,      \* the files of the current directory
  focusWin,   \* g_textedit_focus_win
  items,      \* the rows of the File menu
  openMenu,   \* s_open_menu is the File menu (no row of Edit has a command)
  startMenu,  \* s_start_menu_open
  frames,     \* the locals of the calls of desktop() that have not returned
  sessions,   \* how many calls there have been
  resumed     \* history: an inner call has returned into an outer one

screenVars == <<windows, z_order, object>>
menuVars   == <<focusWin, items, openMenu, startMenu>>
vars == <<windows, z_order, object, files, focusWin, items, openMenu,
          startMenu, frames, sessions, resumed>>

Slot   == 0 .. MaxWindows - 1
NoSlot == -1
Kinds  == {"None"} \cup Apps         \* APP_NONE is the window "SolOS"

\* The blocks the heap may hand out, by what they are for: an application has
\* one at most in every call of desktop(), which begins without windows.
Stateful == {"Terminal", "Files", "TextEdit"}
Object   == ({"Screen"} \cup Stateful) \X (1 .. MaxSessions)
Null     == <<"null", 0>>

\* A text is its length: a file is as empty as a missing one to the editor, and
\* what a full disk leaves of a text is a shorter one.
NoName   == "untitled"
Contents == 0 .. MaxText

ASSUME NamesAssumption == NoName \notin Names

\* A block: of the desktop, of an application, or of nobody.
Blank(kind) == [kind |-> kind, text |-> 0, name |-> NoName, dirty |-> FALSE,
                prompt |-> FALSE]

count == Len(z_order)
Live  == 0 .. count - 1
top   == IF count = 0 THEN NoSlot ELSE z_order[count]

me       == frames[Len(frames)]
InLoop(phase) == frames # << >> /\ me.phase = phase
SetLoop(loop) == frames' = [frames EXCEPT ![Len(frames)] = loop]

Init ==
  /\ windows = [i \in Slot |-> [app |-> "None", state |-> Null]]
  /\ z_order = << >>
  /\ object = [o \in Object |-> Blank("free")]
  /\ files = [n \in Names |-> 0]
  /\ focusWin = NoSlot
  /\ items = << >>
  /\ openMenu = FALSE
  /\ startMenu = FALSE
  /\ frames = << >>
  /\ sessions = 0
  /\ resumed = FALSE

-----------------------------------------------------------------------------
(***************************************************************************)
(* The window list                                                         *)
(***************************************************************************)

DropAt(z, p)  == [i \in 1 .. Len(z) - 1 |-> IF i < p THEN z[i] ELSE z[i + 1]]
PosOf(z, idx) == CHOOSE p \in DOMAIN z : z[p] = idx

\* Mutant: the window that was in front goes to the back.
BringToFront_Swapped(z, idx) ==
  IF \E p \in DOMAIN z : z[p] = idx
  THEN [z EXCEPT ![PosOf(z, idx)] = z[Len(z)], ![Len(z)] = idx]
  ELSE z

\* bring_to_front
BringToFront(z, idx) ==
  IF \E p \in DOMAIN z : z[p] = idx THEN Append(DropAt(z, PosOf(z, idx)), idx)
  ELSE z

\* find_window_by_title: an application's windows have its title.
Find(app) ==
  LET at == {i \in Live : windows[i].app = app}
  IN  IF at = {} THEN NoSlot ELSE CHOOSE i \in at : \A j \in at : i <= j

\* kmalloc for an application or a back buffer: null when the heap is full.
NewObject(kind) ==
  LET used == {o \in Object : object[o].kind # "free"}
      free == {n \in 1 .. MaxSessions : <<kind, n>> \notin used}
  IN  IF free = {} \/ Cardinality(used) >= MaxBlocks THEN Null
      ELSE <<kind, CHOOSE n \in free : \A m \in free : n <= m>>

\* Mutant: nothing is ever given back.
Freed_Never(o) == object

\* kfree, guarded as on_close guards it.
Freed(o) == IF o = Null THEN object ELSE [object EXCEPT ![o] = Blank("free")]

\* window_spawn_or_focus, which the cases of desktop()'s switch repeat: the
\* lists it leaves and the slot of the window.  spawn_window calls on_open.
Opened(app) ==
  LET at  == Find(app)
      o   == IF app \in Stateful THEN NewObject(app) ELSE Null
  IN  IF at = NoSlot /\ count < MaxWindows
      THEN [windows |-> [windows EXCEPT ![count] = [app |-> app, state |-> o]],
            z_order |-> Append(z_order, count),
            object  |-> IF o = Null THEN object
                        ELSE [object EXCEPT ![o] = Blank(app)],
            slot    |-> count]
      ELSE [windows |-> windows, z_order |-> BringToFront(z_order, at),
            object  |-> object,  slot    |-> at]

Show(list) == /\ windows' = list.windows
              /\ z_order' = list.z_order
              /\ object' = list.object

\* Mutant: one number too many is moved down.
Renumbered_OffByOne(z, idx) ==
  LET rest == DropAt(z, PosOf(z, idx))
  IN  [p \in DOMAIN rest |-> IF rest[p] >= idx - 1 THEN rest[p] - 1 ELSE rest[p]]

\* The last loops of close_window: z_order without idx, for the moved slots.
Renumbered(z, idx) ==
  LET rest == DropAt(z, PosOf(z, idx))
  IN  [p \in DOMAIN rest |-> IF rest[p] > idx THEN rest[p] - 1 ELSE rest[p]]

\* Mutant: the editor that is closed stays the one the Save row means.
FocusAfterClose_Kept(idx) == focusWin

\* textedit_on_close
FocusAfterClose(idx) ==
  IF windows[idx].app = "TextEdit" /\ focusWin = idx THEN NoSlot ELSE focusWin

\* close_window: on_close frees the block, the slots above move down and keep
\* their place in z_order.  The slot that was the last keeps its old content.
CloseWindow(idx) ==
  /\ object' = Freed(windows[idx].state)
  /\ windows' = LET closed == [windows EXCEPT ![idx].state = Null]
                IN  [i \in Slot |-> IF idx <= i /\ i < count - 1
                                    THEN closed[i + 1] ELSE closed[i]]
  /\ z_order' = Renumbered(z_order, idx)
  /\ focusWin' = FocusAfterClose(idx)

-----------------------------------------------------------------------------
(***************************************************************************)
(* Entering and leaving desktop()                                          *)
(***************************************************************************)

\* The head of desktop(): the back buffer, no windows, then the first one.
\* "outer" are the calls that are suspended and "blocks" the heap they leave;
\* with no room for the buffer desktop() returns to them at once.
EnterDesktop(outer, blocks) ==
  /\ sessions < MaxSessions
  /\ sessions' = sessions + 1
  /\ IF NewObject("Screen") = Null
       THEN frames' = outer /\ object' = blocks /\ UNCHANGED <<windows, z_order>>
       ELSE /\ object' = [blocks EXCEPT ![NewObject("Screen")] = Blank("Screen")]
            /\ windows' = [windows EXCEPT ![0] = [app |-> "None", state |-> Null]]
            /\ z_order' = <<0>>
            /\ frames' = Append(outer,
                 [phase |-> "poll", screen |-> NewObject("Screen"), pressed |-> FALSE,
                  consumed |-> FALSE, body |-> NoSlot, dragging |-> NoSlot,
                  lastTop |-> 0])
  /\ UNCHANGED <<files, menuVars, resumed>>

\* cmd_desktop in the text shell.
StartDesktop == frames = << >> /\ EnterDesktop(frames, object)

-----------------------------------------------------------------------------
(***************************************************************************)
(* Poll: the pointer                                                       *)
(***************************************************************************)

\* A turn of the loop without a click: nothing is pressed, or still pressed.
NoClick ==
  /\ InLoop("poll")
  /\ \E pressed \in {FALSE, me.pressed} :
       SetLoop([me EXCEPT !.phase = "key", !.pressed = pressed])
  /\ UNCHANGED <<screenVars, files, menuVars, sessions, resumed>>

\* The button goes down.  "consumed" keeps the drag of this turn away, and
\* the pointer is not in the title of the window whose body it is in.
Click(consumed, body) ==
  /\ InLoop("poll")
  /\ ~me.pressed
  /\ SetLoop([me EXCEPT !.phase = "key", !.pressed = TRUE,
                        !.consumed = consumed, !.body = body])
  /\ UNCHANGED <<sessions, resumed>>

\* taskbar_handle_click in the strip: an icon, a window's icon, the start
\* icon, or none of them.  Of more than three windows it shows the first two.
\* The power icon acts like none if the machine can not be turned off.
OpenTerminal ==
  /\ "Terminal" \in Apps
  /\ Click(TRUE, NoSlot)
  /\ Show(Opened("Terminal"))
  /\ UNCHANGED <<files, menuVars>>

SelectWindow ==
  /\ Click(TRUE, NoSlot)
  /\ \E i \in 1 .. (IF count > 3 THEN 2 ELSE count) :
       z_order' = BringToFront(z_order, z_order[i])
  /\ UNCHANGED <<windows, object, files, menuVars>>

\* A click away from the open panel closes it like one on its icon.
ToggleStart ==
  /\ Click(TRUE, NoSlot)
  /\ startMenu' = ~startMenu
  /\ UNCHANGED <<screenVars, files, focusWin, items, openMenu>>

MissTaskbar ==
  /\ Click(TRUE, NoSlot)
  /\ UNCHANGED <<screenVars, files, menuVars>>

\* ... in the panel of the open start menu.
OpenFromStart ==
  /\ startMenu
  /\ Click(TRUE, NoSlot)
  /\ startMenu' = FALSE
  /\ \E app \in Apps \ {"Terminal"} : Show(Opened(app))
  /\ UNCHANGED <<files, focusWin, items, openMenu>>

\* TB_RETURN_TO_SHELL leaves the loop: the buffer is freed, the windows stay
\* as they are, and an outer call goes on after the command that entered.
ReturnToShell ==
  /\ startMenu
  /\ InLoop("poll")
  /\ ~me.pressed
  /\ startMenu' = FALSE
  /\ object' = Freed(me.screen)
  /\ frames' = SubSeq(frames, 1, Len(frames) - 1)
  /\ UNCHANGED <<windows, z_order, files, focusWin, items, openMenu, sessions>>
  /\ resumed' = (resumed \/ Len(frames) > 1)

\* menubar_handle_click on the File button.  While the menu is open, a click on
\* a row with no command or elsewhere on the bar closes it as well.
ToggleMenu ==
  /\ ~startMenu
  /\ Click(TRUE, NoSlot)
  /\ openMenu' = ~openMenu
  /\ UNCHANGED <<screenVars, files, focusWin, items, startMenu>>

-----------------------------------------------------------------------------
(***************************************************************************)
(* The editor's commands                                                   *)
(***************************************************************************)

\* What fat32_write_file may do with a text: all of it, the part that fits on
\* the disk, or nothing.
Writes(name, text) ==
  {[files |-> [files EXCEPT ![name] = kept], ok |-> TRUE] : kept \in 0 .. text}
    \cup {[files |-> files, ok |-> FALSE]}

\* Mutant: a write that failed counts as one.
Saved_Anyway(doc, name, write) == [doc EXCEPT !.name = name, !.dirty = FALSE]

\* The document after a write: a short one counts as done.
Saved(doc, name, write) ==
  IF write.ok THEN [doc EXCEPT !.name = name, !.dirty = FALSE] ELSE doc

\* textedit_start_save_as
Prompting(doc) == [doc EXCEPT !.prompt = TRUE]

\* A row of the File menu: textedit_cmd_save or textedit_cmd_save_as, on the
\* window the editor had when it was last told of the focus.
PickRow ==
  /\ ~startMenu
  /\ openMenu
  /\ Click(TRUE, NoSlot)
  /\ openMenu' = FALSE
  /\ \E row \in DOMAIN items :
       LET o == IF focusWin = NoSlot THEN Null ELSE windows[focusWin].state
       IN  IF o = Null
           THEN UNCHANGED <<object, files>>
           ELSE IF items[row] = "SaveAs" \/ object[o].name = NoName
           THEN /\ object' = [object EXCEPT ![o] = Prompting(object[o])]
                /\ UNCHANGED files
           ELSE \E write \in Writes(object[o].name, object[o].text) :
                  /\ files' = write.files
                  /\ object' = [object EXCEPT ![o] =
                                  Saved(object[o], object[o].name, write)]
  /\ UNCHANGED <<windows, z_order, focusWin, items, startMenu>>

-----------------------------------------------------------------------------
(***************************************************************************)
(* Poll: a click among the windows                                         *)
(***************************************************************************)

\* Neither the taskbar nor the menu bar has the click; a menu that is open
\* closes.
ClickBelow(consumed, body) ==
  /\ ~startMenu
  /\ Click(consumed, body)
  /\ openMenu' = FALSE
  /\ UNCHANGED <<items, startMenu>>

ClickClose ==
  /\ ClickBelow(TRUE, NoSlot)
  /\ \E idx \in Live : CloseWindow(idx)
  /\ UNCHANGED files

\* The body of a window: it comes to the front and its application gets the
\* click, which to most of them means nothing here.
ClickBody ==
  \E idx \in Live :
    /\ ClickBelow(FALSE, idx)
    /\ z_order' = BringToFront(z_order, idx)
    /\ UNCHANGED <<windows, object, files, focusWin>>

\* The background or a title.
ClickElsewhere ==
  /\ ClickBelow(FALSE, NoSlot)
  /\ UNCHANGED <<screenVars, files, focusWin>>

FilesWindows == {i \in Live : windows[i].app = "Files" /\ windows[i].state # Null}

\* textedit_load_file
Loaded(name) ==
  [Blank("TextEdit") EXCEPT !.text = files[name], !.name = name]

\* files_on_click, the second click on a file: the editor's window, which may
\* have been open with another document, comes to the front and loads it.
OpenFile ==
  \E idx \in FilesWindows, name \in Names :
    /\ "TextEdit" \in Apps
    /\ ClickBelow(FALSE, idx)
    /\ LET list  == Opened("TextEdit")
           under == BringToFront(z_order, idx)
           o     == IF list.slot = NoSlot THEN Null
                    ELSE list.windows[list.slot].state
       IN  /\ windows' = list.windows
           /\ z_order' = IF list.slot \in Live THEN BringToFront(under, list.slot)
                         ELSE IF list.slot = NoSlot THEN under
                         ELSE Append(under, list.slot)
           /\ object' = IF o = Null THEN list.object
                        ELSE [list.object EXCEPT ![o] = Loaded(name)]
    /\ UNCHANGED <<files, focusWin>>

\* ... on a directory: other files are the current ones.
OpenDirectory ==
  \E idx \in FilesWindows :
    /\ ClickBelow(FALSE, idx)
    /\ z_order' = BringToFront(z_order, idx)
    /\ files' \in [Names -> Contents]
    /\ UNCHANGED <<windows, object, focusWin>>

-----------------------------------------------------------------------------
(***************************************************************************)
(* The rest of a turn                                                      *)
(***************************************************************************)

\* Mutant: letting go does not end the drag.
Dragged_NeverEnds(t) == IF t # NoSlot THEN t ELSE me.dragging

\* dragging_index, when a drag of t has begun or (NoSlot) none has.
Dragged(t) == IF t # NoSlot THEN t ELSE IF me.pressed THEN me.dragging ELSE NoSlot

\* A press over a title starts a drag, also in a later turn than the click;
\* letting go ends it.  Then the front slot is compared with the one of the
\* last turn.  When it is another, menubar_clear_menu, and then the window's
\* on_focus: only the editor has one, which adds its rows.
EndTurn ==
  \E t \in {NoSlot} \cup
           (IF me.pressed /\ me.dragging = NoSlot /\ ~me.consumed
            THEN Live \ {me.body} ELSE {}) :
    LET z     == BringToFront(z_order, t)
        front == IF count = 0 THEN NoSlot ELSE z[count]
    IN  /\ z_order' = z
        /\ SetLoop([me EXCEPT !.phase = "poll", !.dragging = Dragged(t),
                              !.consumed = FALSE, !.body = NoSlot,
                              !.lastTop = front])
        /\ IF front = me.lastTop
             THEN UNCHANGED <<focusWin, items, openMenu>>
             ELSE /\ openMenu' = FALSE
                  /\ IF front # NoSlot /\ windows[front].app = "TextEdit"
                       THEN focusWin' = front /\ items' = <<"Save", "SaveAs">>
                       ELSE UNCHANGED focusWin /\ items' = << >>

\* ... after the call that a command of this turn made has returned.
Resume ==
  /\ InLoop("resume")
  /\ EndTurn
  /\ UNCHANGED <<windows, object, files, startMenu, sessions, resumed>>

-----------------------------------------------------------------------------
(***************************************************************************)
(* Key: the front window has the keyboard                                  *)
(***************************************************************************)

\* A key and the rest of the turn.
Key ==
  /\ InLoop("key")
  /\ EndTurn
  /\ UNCHANGED <<windows, startMenu, sessions, resumed>>

\* No key, no window that takes keys, or one that the window ignores.
NoKey == Key /\ UNCHANGED <<object, files>>

\* The block of the front window, if that is one of "app".
Front(app) == IF top # NoSlot /\ windows[top].app = app THEN windows[top].state
              ELSE Null

\* textedit_on_key: a document, after a key that only changes it.
Edits(doc) ==
  {[doc EXCEPT !.text = text, !.dirty = TRUE] :
     text \in {doc.text - 1, doc.text + 1} \cap 0 .. MaxText}

EditKey ==
  /\ Key
  /\ LET o == Front("TextEdit")
     IN  /\ o # Null
         /\ ~object[o].prompt
         /\ \E doc \in Edits(object[o]) : object' = [object EXCEPT ![o] = doc]
  /\ UNCHANGED files

\* The prompt for a name takes every key.  It ends with Ctrl-C, with Enter on
\* no name, or with Enter on the name typed since it began, which is written.
PromptKey ==
  /\ Key
  /\ LET o == Front("TextEdit")
     IN  /\ o # Null
         /\ object[o].prompt
         /\ \/ /\ object' = [object EXCEPT ![o].prompt = FALSE]
               /\ UNCHANGED files
            \/ \E name \in Names : \E write \in Writes(name, object[o].text) :
                 /\ files' = write.files
                 /\ object' = [object EXCEPT ![o] =
                      [Saved(object[o], name, write) EXCEPT !.prompt = FALSE]]

\* terminal_on_key: a character, or one less, of the line; the text of the
\* terminal's block is the line that has been typed since its last prompt.
TypeKey ==
  /\ Key
  /\ LET o == Front("Terminal")
     IN  /\ o # Null
         /\ \E text \in {object[o].text - 1, object[o].text + 1} \cap 0 .. MaxText :
              object' = [object EXCEPT ![o].text = text]
  /\ UNCHANGED files

\* Enter ends the line.
LineTaken(o) == [object EXCEPT ![o].text = 0]

\* Enter on a line: the command may write, remove or leave behind any file,
RunCommand ==
  /\ Key
  /\ LET o == Front("Terminal")
     IN  /\ o # Null
         /\ object[o].text > 0
         /\ object' = LineTaken(o)
  /\ files' \in [Names -> Contents]

\* ... or be "desktop", which begins with a heap in which the line is taken.
RunDesktop ==
  /\ InLoop("key")
  /\ LET o == Front("Terminal")
     IN  /\ o # Null
         /\ object[o].text > 0
         /\ EnterDesktop([frames EXCEPT ![Len(frames)] =
                            [me EXCEPT !.phase = "resume", !.body = NoSlot]],
                         LineTaken(o))

-----------------------------------------------------------------------------
Next ==
  \/ StartDesktop \/ ReturnToShell
  \/ NoClick
  \/ OpenTerminal \/ SelectWindow \/ ToggleStart \/ MissTaskbar
  \/ OpenFromStart \/ ToggleMenu \/ PickRow
  \/ ClickClose \/ ClickBody \/ ClickElsewhere \/ OpenFile \/ OpenDirectory
  \/ NoKey \/ EditKey \/ PromptKey \/ TypeKey \/ RunCommand \/ RunDesktop
  \/ Resume

Spec == Init /\ [][Next]_vars

-----------------------------------------------------------------------------
(***************************************************************************)
(* Properties                                                              *)
(***************************************************************************)

Block == [kind : {"free", "Screen"} \cup Stateful, text : 0 .. MaxText,
          name : Names \cup {NoName}, dirty : BOOLEAN,
          prompt : BOOLEAN]

Loop == [phase : {"poll", "key", "resume"}, screen : Object,
         pressed : BOOLEAN, consumed : BOOLEAN, body : Slot \cup {NoSlot},
         dragging : Slot \cup {NoSlot}, lastTop : Slot \cup {NoSlot}]

\* The variables stay in their types: every index kept is one of windows[] or
\* the -1 that means none.
TypeOK ==
  /\ windows \in [Slot -> [app : Kinds, state : Object \cup {Null}]]
  /\ z_order \in Seq(Slot) /\ count <= MaxWindows
  /\ object \in [Object -> Block]
  /\ files \in [Names -> Contents]
  /\ focusWin \in Slot \cup {NoSlot}
  /\ items \in {<< >>, <<"Save", "SaveAs">>}
  /\ openMenu \in BOOLEAN
  /\ startMenu \in BOOLEAN
  /\ frames \in Seq(Loop)
  /\ sessions \in 0 .. MaxSessions
  /\ resumed \in BOOLEAN

\* z_order names every slot in use exactly once, whatever has been opened,
\* raised and closed (window.c: "raw indices stay dense").
OrderIsDense == {z_order[p] : p \in DOMAIN z_order} = Live

\* The lists hold what their readers index them with, and each window once.
WellFormed == TypeOK /\ OrderIsDense

StateOf(app) == {windows[i].state : i \in {j \in Live : windows[j].app = app}}

\* A block belongs to the window of its application, or to the call of
\* desktop() that draws with it.  While no call has been entered after another
\* window list existed, no other block is in use: closing a window and leaving
\* the desktop give back what opening and entering took.
StatesOwned ==
  /\ \A i, j \in Live : /\ windows[i].state # Null
                        => /\ object[windows[i].state].kind = windows[i].app
                           /\ windows[j].state = windows[i].state => i = j
  /\ {o \in Object : object[o].kind = "Screen"} =
       {frames[f].screen : f \in DOMAIN frames}
  /\ sessions = 1 =>
       \A app \in Apps : {o \in Object : object[o].kind = app} = StateOf(app) \ {Null}

\* The Save rows act on the editor that is on the screen: the slot the editor
\* remembers for them still holds it when a row is picked, however windows have
\* moved since, and never holds the block of another application.
SaveMeansTheEditor ==
  InLoop("poll") /\ ~resumed /\ items # << >> /\ focusWin # NoSlot =>
    LET o == windows[focusWin].state
    IN  o # Null => /\ object[o].kind = "TextEdit"
                    /\ StateOf("TextEdit") \subseteq {o}

\* The window being dragged is a window, and none is closed under a drag:
\* desktop() keeps its slot number while others come and go.  (A desktop that
\* was entered from the terminal replaces the windows under the outer drag.)
DragIsLive ==
  frames # << >> /\ ~resumed => me.dragging \in Live \cup {NoSlot}

\* A document loses its mark of being unsaved only when the file it is named
\* after holds its text, or what a full disk has left of it (app.c: "dirty,
\* modified since open/last save").
SavedMeansOnDisk ==
  [][\A o \in Object :
       object[o].dirty /\ object'[o].kind = "TextEdit" /\ ~object'[o].dirty
         => files'[object'[o].name] <= object'[o].text]_vars

\* By name, the window list is a stack: opening, raising and closing do to it
\* what they promise, for every order of the slots.
Stack == INSTANCE WindowStack WITH
           First <- "None", Opener <- <<"Files", "TextEdit">>,
           stack <- [p \in DOMAIN z_order |-> windows[z_order[p]].app]
ImplementsStack == Stack!Spec

\* An application in front has its rows in the menu (app.h: on_focus is
\* "called whenever this window becomes the frontmost/focused one").
FrontEditorHasItsRows ==
  InLoop("poll") /\ top # NoSlot /\ windows[top].app = "TextEdit"
    => items = <<"Save", "SaveAs">>
=============================================================================
