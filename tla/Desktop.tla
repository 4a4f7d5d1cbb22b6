------------------------------ MODULE Desktop -------------------------------
(***************************************************************************)
(* The desktop and the mouse (src/src/core/gui/desktop.cpp,                *)
(* src/src/drivers/mouse.cpp), and the Ctrl key.  The mouse interrupt      *)
(* brings one byte; every third byte completes a packet, which moves the   *)
(* pointer and then presses or releases the button at its new place.  The  *)
(* decoder may meet any bytes: the controller can lose some, so what it    *)
(* takes for a packet need not be one.                                     *)
(*                                                                         *)
(* Windows are stacked as they were added; the last one is on top.         *)
(* Drawing is left out.                                                    *)
(***************************************************************************)
EXTENDS Integers, Sequences

CONSTANTS
  MaxX, MaxY,        \* 799, 599: the pointer's bounds
  StartX, StartY,    \* where the pointer starts: 400, 300
  TaskbarY, StartW,  \* 560, 90: the Start button is below and left of these
  TitleH,            \* 20
  Places,            \* the windows added at boot, [x, y, width, height]
  Word,              \* 2^8, the number of bytes
  SyncBit,           \* 8
  Bytes              \* the bytes that may arrive

\* A part of the window's title bar is on the screen.
OnScreen(w) ==
  /\ w.x <= MaxX /\ w.x + w.width > 0
  /\ w.y <= MaxY /\ w.y + TitleH > 0

Window == [x : Int, y : Int, width : Nat, height : Nat]

ASSUME DesktopAssumption ==
  /\ {MaxX, MaxY, StartX, StartY, TaskbarY, StartW} \subseteq Nat
  /\ StartX <= MaxX /\ StartY <= MaxY
  /\ TitleH \in Nat
  /\ Places \in Seq(Window) /\ \A i \in DOMAIN Places : OnScreen(Places[i])
  /\ Word \in Nat \ {0} /\ Word % 2 = 0 /\ SyncBit \in Nat \ {0}
  /\ Bytes \subseteq 0..(Word - 1)

NoWindow == 0

VARIABLES
  packet,            \* the bytes of an incomplete packet; cycle is its length
  mouse_x, mouse_y,  \* the driver's and the desktop's copies, always equal
  windows,
  active_window, drag_window,   \* positions in windows, or NoWindow
  drag_offset_x, drag_offset_y,
  show_start_menu,
  left_button,       \* of the last packet
  ctrl_pressed,
  held               \* the Ctrl keys that are down: "left", "right"

pointer == <<packet, mouse_x, mouse_y, windows, active_window, drag_window,
             drag_offset_x, drag_offset_y, show_start_menu, left_button>>
keyboard == <<ctrl_pressed, held>>
vars == <<pointer, keyboard>>

\* Desktop::Init adds the windows; the newest has the focus.
Init ==
  /\ packet = <<>>
  /\ mouse_x = StartX /\ mouse_y = StartY
  /\ windows = Places
  /\ active_window = Len(Places)
  /\ drag_window = NoWindow
  /\ drag_offset_x = 0 /\ drag_offset_y = 0
  /\ show_start_menu = FALSE
  /\ left_button = FALSE
  /\ ctrl_pressed = FALSE
  /\ held = {}

-----------------------------------------------------------------------------
(* The mouse driver.                                                       *)

\* The bit of weight b is set in byte d.
Bit(d, b) == (d \div b) % 2 = 1

\* (int8_t)d
Signed(d) == IF d < Word \div 2 THEN d ELSE d - Word

\* (int8_t)-n: the most negative value is its own opposite.
Negated(n) == IF n = -(Word \div 2) THEN n ELSE -n

Clamp(n, max) == IF n < 0 THEN 0 ELSE IF n >= max THEN max ELSE n

\* A byte that does not complete a packet; the first must have the sync bit.
HandleByte(data) ==
  /\ Len(packet) < 2
  /\ packet' = IF packet = <<>> /\ ~Bit(data, SyncBit) THEN packet
               ELSE Append(packet, data)
  /\ UNCHANGED <<mouse_x, mouse_y, windows, active_window, drag_window,
                 drag_offset_x, drag_offset_y, show_start_menu, left_button>>
  /\ UNCHANGED keyboard

-----------------------------------------------------------------------------
(* The desktop.  OnMouseMove comes first; the button then finds the        *)
(* pointer at (mx, my) and the windows at ws.                              *)

MovedTo(w, x, y) == [x |-> x, y |-> y, width |-> w.width, height |-> w.height]

\* Mutant of Dragged: the window jumps to the pointer.
DraggedJump(mx, my) ==
  IF drag_window = NoWindow THEN windows
  ELSE [windows EXCEPT ![drag_window] = MovedTo(windows[drag_window], mx, my)]

\* OnMouseMove: a window being dragged follows the pointer.
Dragged(mx, my) ==
  IF drag_window = NoWindow THEN windows
  ELSE [windows EXCEPT ![drag_window] =
          MovedTo(windows[drag_window], mx - drag_offset_x, my - drag_offset_y)]

\* The windows under a point.
Under(ws, mx, my) ==
  {i \in DOMAIN ws : /\ mx >= ws[i].x /\ mx < ws[i].x + ws[i].width
                     /\ my >= ws[i].y /\ my < ws[i].y + ws[i].height}

OnStart(mx, my) == my > TaskbarY /\ mx < StartW

\* OnMouseDown on the Start button.
PressStart(mx, my) ==
  /\ OnStart(mx, my)
  /\ show_start_menu' = ~show_start_menu
  /\ UNCHANGED <<active_window, drag_window, drag_offset_x, drag_offset_y>>

\* Mutant of PressWindow: a drag starts anywhere in the window.
PressWindowAnywhere(ws, mx, my) ==
  /\ ~OnStart(mx, my)
  /\ \E i \in Under(ws, mx, my) :
       /\ \A j \in Under(ws, mx, my) : j <= i
       /\ active_window' = i
       /\ drag_window' = i
       /\ drag_offset_x' = mx - ws[i].x
       /\ drag_offset_y' = my - ws[i].y
  /\ UNCHANGED show_start_menu

\* OnMouseDown on a window: it gets the focus, and its title bar a drag.
PressWindow(ws, mx, my) ==
  /\ ~OnStart(mx, my)
  /\ \E i \in Under(ws, mx, my) :
       /\ \A j \in Under(ws, mx, my) : j <= i
       /\ active_window' = i
       /\ IF my < ws[i].y + TitleH
          THEN /\ drag_window' = i
               /\ drag_offset_x' = mx - ws[i].x
               /\ drag_offset_y' = my - ws[i].y
          ELSE UNCHANGED <<drag_window, drag_offset_x, drag_offset_y>>
  /\ UNCHANGED show_start_menu

\* OnMouseDown on the wallpaper or the rest of the taskbar.
PressNothing(ws, mx, my) ==
  /\ ~OnStart(mx, my)
  /\ Under(ws, mx, my) = {}
  /\ UNCHANGED <<active_window, drag_window, drag_offset_x, drag_offset_y,
                 show_start_menu>>

\* Mutant of Release: the drag goes on.
ReleaseIgnored ==
  UNCHANGED <<drag_window, active_window, drag_offset_x, drag_offset_y,
              show_start_menu>>

\* OnMouseUp
Release ==
  /\ drag_window' = NoWindow
  /\ UNCHANGED <<active_window, drag_offset_x, drag_offset_y, show_start_menu>>

\* The byte that completes a packet.
HandlePacket(data) ==
  /\ Len(packet) = 2
  /\ packet' = <<>>
  /\ LET mx == Clamp(mouse_x + Signed(packet[2]), MaxX)
         my == Clamp(mouse_y + Negated(Signed(data)), MaxY)
         ws == Dragged(mx, my)
         left == Bit(packet[1], 1)
     IN  /\ mouse_x' = mx
         /\ mouse_y' = my
         /\ windows' = ws
         /\ left_button' = left
         /\ \/ /\ left
               /\ PressStart(mx, my) \/ PressWindow(ws, mx, my)
                  \/ PressNothing(ws, mx, my)
            \/ ~left /\ Release
  /\ UNCHANGED keyboard

-----------------------------------------------------------------------------
(* Ctrl.  Both Ctrl keys send 0x1D; the right one sends 0xE0 before it,    *)
(* which the keyboard handler takes for the release of another key.        *)

\* OnKeyDown(0x1D), also for the repeats of a key that stays down.
CtrlDown(k) ==
  /\ held' = held \cup {k}
  /\ ctrl_pressed' = TRUE
  /\ UNCHANGED pointer

\* Mutant of CtrlUp: the release is not noticed.
CtrlUpIgnored(k) ==
  /\ k \in held
  /\ held' = held \ {k}
  /\ UNCHANGED <<ctrl_pressed, pointer>>

\* OnKeyUp(0x1D)
CtrlUp(k) ==
  /\ k \in held
  /\ held' = held \ {k}
  /\ ctrl_pressed' = FALSE
  /\ UNCHANGED pointer

Next ==
  \/ \E d \in Bytes : HandleByte(d) \/ HandlePacket(d)
  \/ \E k \in {"left", "right"} : CtrlDown(k) \/ CtrlUp(k)

Spec == Init /\ [][Next]_vars

-----------------------------------------------------------------------------
\* A window being dragged sticks to the pointer at the point where its title
\* bar was grabbed.
Grip ==
  drag_window # NoWindow =>
    LET w == windows[drag_window]
    IN  /\ mouse_x - w.x = drag_offset_x /\ mouse_y - w.y = drag_offset_y
        /\ drag_offset_x \in 0..(w.width - 1)
        /\ drag_offset_y \in 0..(TitleH - 1)

\* Whatever bytes arrive, in or out of step, the pointer stays on the screen
\* (mouse.cpp:102-109), and no drag takes a title bar off it entirely.  What is
\* left of it may lie under the Start button, which takes the press first
\* (desktop.cpp:138-143).
TitleOnScreen ==
  /\ mouse_x \in 0..MaxX /\ mouse_y \in 0..MaxY
  /\ \A i \in DOMAIN windows : OnScreen(windows[i])

\* A drag goes on, with the same window and grip, for as long as the button
\* is held, although every packet presses the button anew; and it ends with
\* the button.
DragWhileHeld ==
  [][/\ left_button' /\ drag_window # NoWindow =>
          /\ drag_window' = drag_window
          /\ drag_offset_x' = drag_offset_x
          /\ drag_offset_y' = drag_offset_y
     /\ ~left_button' => drag_window' = NoWindow]_vars

\* Ctrl is never stuck: the editor takes letters for commands only while a
\* Ctrl key is down.
CtrlNotStuck == ctrl_pressed => held # {}

=============================================================================
