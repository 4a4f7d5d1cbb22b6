---------------------------- MODULE DesktopProofs ---------------------------
(***************************************************************************)
(* Proofs about the desktop and the mouse, for any screen, any windows and *)
(* any bytes: the drag's grip, the pointer and the windows on the screen,  *)
(* and Ctrl.                                                               *)
(***************************************************************************)
EXTENDS Desktop, SequenceTheorems, TLAPS

\* The pointer and the windows, at any byte.  A drag needs the button, and
\* holds its window in the title bar.
DeskInv ==
  /\ packet \in Seq(Bytes) /\ Len(packet) <= 2
  /\ mouse_x \in 0..MaxX /\ mouse_y \in 0..MaxY
  /\ windows \in [1..Len(Places) -> Window]
  /\ drag_window \in 0..Len(Places)
  /\ drag_offset_x \in Int /\ drag_offset_y \in Int
  /\ \A i \in DOMAIN windows : OnScreen(windows[i])
  /\ Grip
  /\ drag_window # NoWindow => drag_offset_y < windows[drag_window].height
  /\ left_button \in BOOLEAN
  /\ ~left_button => drag_window = NoWindow

-----------------------------------------------------------------------------
(* The parts of a packet.                                                  *)

\* The screen, the word and the windows.
LEMMA ConstantFacts ==
  /\ MaxX \in Nat /\ MaxY \in Nat /\ TitleH \in Nat
  /\ Word \in Nat /\ Word \div 2 \in Nat
  /\ Bytes \in SUBSET Int /\ Len(Places) \in Nat
  /\ Places \in [1..Len(Places) -> Window]
  BY DesktopAssumption

\* Whatever a byte says, the pointer is clamped to the screen.
LEMMA ClampRange ==
  ASSUME NEW n \in Int, NEW max \in Nat PROVE Clamp(n, max) \in 0..max
  BY DEF Clamp

\* A packet byte is a signed distance.
LEMMA SignedType ==
  ASSUME NEW d \in Bytes PROVE Signed(d) \in Int /\ Negated(Signed(d)) \in Int
<1>1. d \in Int
  BY ConstantFacts
<1>2. Signed(d) \in Int
  BY <1>1, ConstantFacts DEF Signed
<1> QED BY <1>2, ConstantFacts DEF Negated

\* A moved window keeps its size.
LEMMA MovedToFacts ==
  ASSUME NEW w \in Window, NEW x \in Int, NEW y \in Int
  PROVE  /\ MovedTo(w, x, y) \in Window
         /\ MovedTo(w, x, y).x = x /\ MovedTo(w, x, y).y = y
         /\ MovedTo(w, x, y).width = w.width /\ MovedTo(w, x, y).height = w.height
  BY DEF MovedTo, Window

\* The parts of a window.
LEMMA WindowType ==
  ASSUME NEW w \in Window
  PROVE  w.x \in Int /\ w.y \in Int /\ w.width \in Nat /\ w.height \in Nat
  BY DEF Window

\* A window that is dragged keeps its grip and stays on the screen; the
\* others stay where they are.
LEMMA DraggedFacts ==
  ASSUME DeskInv, NEW mx \in 0..MaxX, NEW my \in 0..MaxY
  PROVE  LET ws == Dragged(mx, my)
         IN  /\ ws \in [1..Len(Places) -> Window]
             /\ \A i \in 1..Len(Places) : OnScreen(ws[i])
             /\ drag_window # NoWindow =>
                  LET w == ws[drag_window]
                  IN  /\ mx - w.x = drag_offset_x /\ my - w.y = drag_offset_y
                      /\ drag_offset_x \in 0..(w.width - 1)
                      /\ drag_offset_y \in 0..(TitleH - 1)
                      /\ drag_offset_y < w.height
<1> DEFINE ws == Dragged(mx, my)
           d == drag_window
           w == windows[d]
           u == MovedTo(w, mx - drag_offset_x, my - drag_offset_y)
<1>0. /\ windows \in [1..Len(Places) -> Window] /\ mx \in Int /\ my \in Int
      /\ \A i \in 1..Len(Places) : OnScreen(windows[i])
      /\ drag_offset_x \in Int /\ drag_offset_y \in Int
      /\ d \in 0..Len(Places) /\ Len(Places) \in Nat
      /\ 0 <= mx /\ mx <= MaxX /\ 0 <= my /\ my <= MaxY
  BY ConstantFacts DEF DeskInv
<1>1. CASE d = NoWindow
  <2>1. ws = windows
    BY <1>1 DEF Dragged
  <2> QED BY <1>0, <1>1, <2>1
<1>2. CASE d # NoWindow
  <2>1. d \in 1..Len(Places)
    BY <1>0, <1>2 DEF NoWindow
  <2>2. w \in Window
    BY <1>0, <2>1
  <2>3. /\ drag_offset_x \in 0..(w.width - 1) /\ drag_offset_y \in 0..(TitleH - 1)
        /\ drag_offset_y < w.height
    BY <1>2 DEF DeskInv, Grip
  <2>4. /\ u \in Window /\ u.x = mx - drag_offset_x /\ u.y = my - drag_offset_y
        /\ u.width = w.width /\ u.height = w.height
    BY <1>0, <2>2, MovedToFacts
  <2>5. w.width \in Nat /\ w.height \in Nat
    BY <2>2, WindowType
  <2> HIDE DEF u
  <2>6. ws = [windows EXCEPT ![d] = u]
    BY <1>2 DEF Dragged, u
  <2> HIDE DEF ws, w
  <2>7. /\ ws \in [1..Len(Places) -> Window] /\ ws[d] = u
        /\ \A i \in 1..Len(Places) : i # d => ws[i] = windows[i]
    BY <1>0, <2>1, <2>4, <2>6
  <2>8. OnScreen(u)
    BY <1>0, <2>3, <2>4, <2>5, ConstantFacts DEF OnScreen
  <2>9. \A i \in 1..Len(Places) : OnScreen(ws[i])
    BY <1>0, <2>7, <2>8
  <2>10. mx - u.x = drag_offset_x /\ my - u.y = drag_offset_y
    BY <1>0, <2>4
  <2> QED BY <2>3, <2>4, <2>7, <2>9, <2>10 DEF ws
<1> QED BY <1>1, <1>2

\* A window that is pressed in its title bar is gripped there.
LEMMA PressGrips ==
  ASSUME NEW ws \in [1..Len(Places) -> Window], NEW mx \in Int, NEW my \in Int,
         NEW i \in Under(ws, mx, my), my < ws[i].y + TitleH
  PROVE  /\ i \in 1..Len(Places)
         /\ mx - ws[i].x \in 0..(ws[i].width - 1)
         /\ my - ws[i].y \in 0..(TitleH - 1)
         /\ my - ws[i].y < ws[i].height
<1>1. /\ i \in 1..Len(Places) /\ mx >= ws[i].x /\ mx < ws[i].x + ws[i].width
      /\ my >= ws[i].y /\ my < ws[i].y + ws[i].height
  BY DEF Under
<1>2. /\ ws[i].x \in Int /\ ws[i].y \in Int /\ ws[i].width \in Nat
      /\ ws[i].height \in Nat
  BY <1>1, WindowType
<1>3. \A x, y \in Int, n, h \in Nat :
        mx >= x /\ mx < x + n /\ my >= y /\ my < y + h /\ my < y + TitleH =>
          /\ mx - x \in 0..(n - 1) /\ my - y \in 0..(TitleH - 1)
          /\ my - y < h
  BY ConstantFacts
<1> QED BY <1>1, <1>2, <1>3

-----------------------------------------------------------------------------
(* The invariant.                                                          *)

\* The pointer, the windows and the grip, whatever bytes arrive
\* (mouse.cpp:66-116, desktop.cpp:132-187).
THEOREM DeskInvHolds == Spec => []DeskInv
<1>1. Init => DeskInv
  <2> SUFFICES ASSUME Init PROVE DeskInv
    OBVIOUS
  <2>1. packet \in Seq(Bytes) /\ Len(packet) <= 2
    BY DEF Init
  <2>2. mouse_x \in 0..MaxX /\ mouse_y \in 0..MaxY
    BY DesktopAssumption DEF Init
  <2>3. /\ windows \in [1..Len(Places) -> Window]
        /\ \A i \in DOMAIN windows : OnScreen(windows[i])
    BY ConstantFacts, DesktopAssumption DEF Init
  <2>4. drag_window = NoWindow /\ drag_window \in 0..Len(Places)
        /\ drag_offset_x \in Int /\ drag_offset_y \in Int
        /\ left_button \in BOOLEAN
    <3>1. Len(Places) \in Nat
      BY ConstantFacts
    <3>2. 0 \in 0..Len(Places)
      BY <3>1
    <3>3. drag_window = NoWindow /\ drag_window \in 0..Len(Places)
      BY <3>2 DEF Init, NoWindow
    <3>4. drag_offset_x \in Int /\ drag_offset_y \in Int
      BY DEF Init
    <3>5. left_button \in BOOLEAN
      BY DEF Init
    <3> QED BY <3>3, <3>4, <3>5
  <2> QED BY <2>1, <2>2, <2>3, <2>4 DEF DeskInv, Grip
<1>2. DeskInv /\ [Next]_vars => DeskInv'
  <2> SUFFICES ASSUME DeskInv, [Next]_vars PROVE DeskInv'
    OBVIOUS
  <2>1. ASSUME NEW d \in Bytes, HandleByte(d) PROVE DeskInv'
    <3>1. packet \in Seq(Bytes) /\ Len(packet) < 2
      BY <2>1 DEF HandleByte, DeskInv
    <3>2. packet' \in Seq(Bytes) /\ Len(packet') <= 2
      BY <2>1, <3>1 DEF HandleByte
    <3> QED BY <2>1, <3>2 DEF HandleByte, DeskInv, Grip
  <2>2. ASSUME NEW d \in Bytes, HandlePacket(d) PROVE DeskInv'
    <3> DEFINE mx == Clamp(mouse_x + Signed(packet[2]), MaxX)
               my == Clamp(mouse_y + Negated(Signed(d)), MaxY)
               ws == Dragged(mx, my)
               left == Bit(packet[1], 1)
    <3>1. mx \in 0..MaxX /\ my \in 0..MaxY
      <4>1. packet[2] \in Bytes
        <5>1. packet \in Seq(Bytes) /\ Len(packet) = 2
          BY <2>2 DEF DeskInv, HandlePacket
        <5>2. packet \in [1..Len(packet) -> Bytes]
          BY <5>1, LenProperties
        <5> QED BY <5>1, <5>2
      <4>2. /\ mouse_x \in Int /\ mouse_y \in Int
            /\ Signed(packet[2]) \in Int /\ Negated(Signed(d)) \in Int
        <5>1. mouse_x \in Int /\ mouse_y \in Int
          BY DEF DeskInv
        <5> QED BY <4>1, <5>1, SignedType
      <4>3. /\ mouse_x + Signed(packet[2]) \in Int
            /\ mouse_y + Negated(Signed(d)) \in Int
        BY <4>2
      <4> QED BY <4>3, ClampRange, ConstantFacts
    <3>2. /\ mouse_x' = mx /\ mouse_y' = my /\ windows' = ws
          /\ left_button' = left /\ packet' = <<>>
          /\ \/ left /\ PressStart(mx, my)
             \/ left /\ PressWindow(ws, mx, my)
             \/ left /\ PressNothing(ws, mx, my)
             \/ ~left /\ Release
      BY <2>2 DEF HandlePacket
    <3>3. left \in BOOLEAN
      BY DEF Bit
    <3> HIDE DEF mx, my, left
    <3>4. /\ ws \in [1..Len(Places) -> Window]
          /\ \A i \in 1..Len(Places) : OnScreen(ws[i])
          /\ drag_window # NoWindow =>
               /\ mx - ws[drag_window].x = drag_offset_x
               /\ my - ws[drag_window].y = drag_offset_y
               /\ drag_offset_x \in 0..(ws[drag_window].width - 1)
               /\ drag_offset_y \in 0..(TitleH - 1)
               /\ drag_offset_y < ws[drag_window].height
      BY <3>1, DraggedFacts
    <3> HIDE DEF ws
    <3>5. packet' \in Seq(Bytes) /\ Len(packet') <= 2
      BY <3>2
    <3>6. DOMAIN windows' = 1..Len(Places)
      BY <3>2, <3>4
    <3>7. ASSUME drag_window' = drag_window, drag_offset_x' = drag_offset_x,
                 drag_offset_y' = drag_offset_y, left
          PROVE  DeskInv'
      BY <3>1, <3>2, <3>3, <3>4, <3>5, <3>6, <3>7 DEF DeskInv, Grip
    <3>8. CASE left /\ PressStart(mx, my)
      BY <3>7, <3>8 DEF PressStart
    <3>9. CASE left /\ PressNothing(ws, mx, my)
      BY <3>7, <3>9 DEF PressNothing
    <3>10. CASE left /\ PressWindow(ws, mx, my)
      <4>1. PICK i \in Under(ws, mx, my) :
              IF my < ws[i].y + TitleH
              THEN /\ drag_window' = i
                   /\ drag_offset_x' = mx - ws[i].x
                   /\ drag_offset_y' = my - ws[i].y
              ELSE UNCHANGED <<drag_window, drag_offset_x, drag_offset_y>>
        BY <3>10 DEF PressWindow
      <4>2. CASE my < ws[i].y + TitleH
        <5>0. mx \in Int /\ my \in Int
          BY <3>1
        <5>1. /\ i \in 1..Len(Places)
              /\ mx - ws[i].x \in 0..(ws[i].width - 1)
              /\ my - ws[i].y \in 0..(TitleH - 1)
              /\ my - ws[i].y < ws[i].height
          BY <3>4, <4>2, <5>0, PressGrips
        <5>2. drag_window' = i /\ drag_offset_x' = mx - ws[i].x
              /\ drag_offset_y' = my - ws[i].y /\ left
          BY <3>10, <4>1, <4>2
        <5>3. Grip'
          BY <3>2, <5>1, <5>2 DEF Grip
        <5>4. /\ drag_window' \in 0..Len(Places)
              /\ drag_offset_x' \in Int /\ drag_offset_y' \in Int
          BY <5>1, <5>2
        <5>5. drag_offset_y' < windows'[drag_window'].height
          BY <3>2, <5>1, <5>2
        <5>6. \A j \in DOMAIN windows' : OnScreen(windows'[j])
          BY <3>2, <3>4, <3>6
        <5> QED BY <3>1, <3>2, <3>3, <3>4, <3>5, <5>2, <5>3, <5>4, <5>5, <5>6 DEF DeskInv
      <4>3. CASE ~(my < ws[i].y + TitleH)
        BY <3>7, <3>10, <4>1, <4>3
      <4> QED BY <4>2, <4>3
    <3>11. CASE ~left /\ Release
      BY <3>1, <3>2, <3>3, <3>4, <3>5, <3>6, <3>11, ConstantFacts
         DEF DeskInv, Grip, Release, NoWindow
    <3> QED BY <3>2, <3>8, <3>9, <3>10, <3>11
  <2>3. ASSUME NEW k \in {"left", "right"}, CtrlDown(k) \/ CtrlUp(k)
        PROVE  DeskInv'
    BY <2>3 DEF CtrlDown, CtrlUp, pointer, DeskInv, Grip
  <2>4. CASE UNCHANGED vars
    BY <2>4 DEF vars, pointer, DeskInv, Grip
  <2> QED BY <2>1, <2>2, <2>3, <2>4 DEF Next
<1> QED BY <1>1, <1>2, PTL DEF Spec

\* The grip of a drag (desktop.cpp:153-187).
THEOREM GripHolds == Spec => []Grip
<1>1. DeskInv => Grip
  BY DEF DeskInv
<1> QED BY <1>1, DeskInvHolds, PTL

\* Whatever bytes arrive, the pointer stays on the screen (mouse.cpp:102-109)
\* and so does a part of every title bar, under the Start button at worst.
THEOREM TitleOnScreenHolds == Spec => []TitleOnScreen
<1>1. DeskInv => TitleOnScreen
  BY DEF DeskInv, TitleOnScreen
<1> QED BY <1>1, DeskInvHolds, PTL

\* What a step may do to a drag.
DragStep ==
  /\ left_button' /\ drag_window # NoWindow =>
       /\ drag_window' = drag_window
       /\ drag_offset_x' = drag_offset_x
       /\ drag_offset_y' = drag_offset_y
  /\ ~left_button' => drag_window' = NoWindow

\* With the one window Desktop::Init adds (desktop.cpp:55), a drag goes on for
\* as long as the button is held, although every packet presses it anew.
THEOREM DragWhileHeldHolds ==
  ASSUME Len(Places) <= 1 PROVE Spec => DragWhileHeld
<1>1. DeskInv /\ DeskInv' /\ [Next]_vars => [DragStep]_vars
  <2> SUFFICES ASSUME DeskInv, DeskInv', [Next]_vars PROVE [DragStep]_vars
    OBVIOUS
  <2>0. ~left_button' => drag_window' = NoWindow
    BY DEF DeskInv
  <2>1. ASSUME drag_window' = drag_window, drag_offset_x' = drag_offset_x,
               drag_offset_y' = drag_offset_y
        PROVE  [DragStep]_vars
    BY <2>0, <2>1 DEF DragStep
  <2>2. ASSUME NEW d \in Bytes, HandleByte(d) PROVE [DragStep]_vars
    BY <2>1, <2>2 DEF HandleByte
  <2>3. ASSUME NEW d \in Bytes, HandlePacket(d) PROVE [DragStep]_vars
    <3> DEFINE mx == Clamp(mouse_x + Signed(packet[2]), MaxX)
               my == Clamp(mouse_y + Negated(Signed(d)), MaxY)
               ws == Dragged(mx, my)
               left == Bit(packet[1], 1)
    <3>1. /\ mouse_x' = mx /\ mouse_y' = my /\ windows' = ws /\ left_button' = left
          /\ \/ left /\ PressStart(mx, my)
             \/ left /\ PressWindow(ws, mx, my)
             \/ left /\ PressNothing(ws, mx, my)
             \/ ~left /\ Release
      BY <2>3 DEF HandlePacket
    <3>2. mx \in 0..MaxX /\ my \in 0..MaxY
      BY <3>1 DEF DeskInv
    <3> HIDE DEF mx, my, left
    <3>3. /\ ws \in [1..Len(Places) -> Window]
          /\ drag_window # NoWindow =>
               /\ mx - ws[drag_window].x = drag_offset_x
               /\ my - ws[drag_window].y = drag_offset_y
               /\ drag_offset_y \in 0..(TitleH - 1)
      BY <3>2, DraggedFacts
    <3> HIDE DEF ws
    <3>4. CASE left /\ PressStart(mx, my)
      BY <2>1, <3>4 DEF PressStart
    <3>5. CASE left /\ PressNothing(ws, mx, my)
      BY <2>1, <3>5 DEF PressNothing
    <3>6. CASE left /\ PressWindow(ws, mx, my)
      <4>1. PICK i \in Under(ws, mx, my) :
              IF my < ws[i].y + TitleH
              THEN /\ drag_window' = i
                   /\ drag_offset_x' = mx - ws[i].x
                   /\ drag_offset_y' = my - ws[i].y
              ELSE UNCHANGED <<drag_window, drag_offset_x, drag_offset_y>>
        BY <3>6 DEF PressWindow
      <4>2. CASE my < ws[i].y + TitleH /\ drag_window # NoWindow
        <5>1. i \in 1..Len(Places) /\ drag_window \in 0..Len(Places)
              /\ Len(Places) \in Nat
          BY <3>3, ConstantFacts DEF Under, DeskInv
        <5>2. i = drag_window
          BY <4>2, <5>1 DEF NoWindow
        <5> QED BY <2>1, <3>3, <4>1, <4>2, <5>2
      <4>3. CASE drag_window = NoWindow
        BY <2>0, <4>3 DEF DragStep
      <4>4. CASE ~(my < ws[i].y + TitleH)
        BY <2>1, <4>1, <4>4
      <4> QED BY <4>2, <4>3, <4>4
    <3>7. CASE ~left /\ Release
      <4>1. ~left_button'
        BY <3>1, <3>7
      <4> QED BY <2>0, <4>1 DEF DragStep
    <3> QED BY <3>1, <3>4, <3>5, <3>6, <3>7
  <2>4. ASSUME NEW k \in {"left", "right"}, CtrlDown(k) \/ CtrlUp(k)
        PROVE  [DragStep]_vars
    BY <2>1, <2>4 DEF CtrlDown, CtrlUp, pointer
  <2>5. CASE UNCHANGED vars
    BY <2>5
  <2> QED BY <2>2, <2>3, <2>4, <2>5 DEF Next
<1>2. DragWhileHeld <=> [][DragStep]_vars
  BY DEF DragWhileHeld, DragStep
<1> QED BY <1>1, <1>2, DeskInvHolds, PTL DEF Spec

\* Ctrl is never stuck (desktop.cpp:196-201).
THEOREM CtrlNotStuckHolds == Spec => []CtrlNotStuck
<1>1. Init => CtrlNotStuck
  BY DEF Init, CtrlNotStuck
<1>2. CtrlNotStuck /\ [Next]_vars => CtrlNotStuck'
  <2> SUFFICES ASSUME CtrlNotStuck, [Next]_vars PROVE CtrlNotStuck'
    OBVIOUS
  <2>1. ASSUME NEW d \in Bytes, HandleByte(d) \/ HandlePacket(d)
        PROVE  CtrlNotStuck'
    BY <2>1 DEF HandleByte, HandlePacket, keyboard, CtrlNotStuck
  <2>2. ASSUME NEW k \in {"left", "right"}, CtrlDown(k) \/ CtrlUp(k)
        PROVE  CtrlNotStuck'
    BY <2>2 DEF CtrlDown, CtrlUp, CtrlNotStuck
  <2>3. CASE UNCHANGED vars
    BY <2>3 DEF vars, keyboard, CtrlNotStuck
  <2> QED BY <2>1, <2>2, <2>3 DEF Next
<1> QED BY <1>1, <1>2, PTL DEF Spec

=============================================================================
