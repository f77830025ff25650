---------------------------- MODULE DesktopProofs ----------------------------
(***************************************************************************)
(* A dragged window keeps its grip, captures end with their command and    *)
(* the pointer follows the hand, for every screen, every placing of the    *)
(* windows and everything a user may do, however the interrupts fall       *)
(* between the steps of a pass and the polls of mouse_init.                *)
(***************************************************************************)
EXTENDS Desktop, FiniteSetTheorems, FunctionTheorems, TLAPS

Window == [x : Int, y : Int, w : Int, h : Int, open : BOOLEAN]
Point == [x : Int, y : Int, left : BOOLEAN]
PortByte == [src : {"aux", "ack", "ctl"}, val : Int]
                \cup [src : {"key"}, val : Int, key : DOMAIN Scan]

\* What the mouse and the controller hold are numbers.
MouseTypes ==
    /\ mx \in Int /\ my \in Int /\ btn_left \in BOOLEAN
    /\ packet \in Seq(Int)
    /\ port \in Seq(PortByte)
    /\ latch \in Int /\ ccb \in Int
    /\ moves \in Seq(Point) /\ typing \in Seq(DOMAIN Scan)

\* The windows and the locals of desktop_run.
WindowTypes ==
    /\ wins \in [Apps -> Window]
    /\ active \in Apps
    /\ last \in Point /\ dragging \in BOOLEAN
    /\ mxp \in Int /\ myp \in Int
    /\ frames \in Seq([last : Point, dragging : BOOLEAN])

\* A drag goes on only while the button was down at the end of the last pass,
\* in the runs that wait for an inner one as well: the press that began it is
\* not seen as another one.
DragIsHeld ==
    /\ dragging => last.left
    /\ \A i \in DOMAIN frames : frames[i].dragging => frames[i].last.left

DesktopInv == MouseTypes /\ WindowTypes /\ DragIsHeld /\ DragKeepsGrip /\ CaptureEnds

-----------------------------------------------------------------------------
(* The mouse.                                                                *)

LEMMA ClampType ==
    ASSUME NEW v \in Int, NEW n \in Int
    PROVE  Clamp(v, n) \in Int
BY DEF Clamp

\* Setting or clearing a bit of the command byte gives a number.
LEMMA BitsType ==
    ASSUME NEW v \in Int
    PROVE  With(v, 2) \in Int /\ Without(v, 32) \in Int
<1> HIDE DEF Bit
<1> QED BY DEF With, Without, Flag

LEMMA NothingRead == <<>> \in Seq(Int)
OBVIOUS

LEMMA OutsideTypes ==
    ASSUME MouseTypes, Report \/ PressKey \/ MouseIrq \/ KeyboardIrq
    PROVE  MouseTypes'
<1>1. CASE Report
  <2> DEFINE s == Head(moves)
             dx == s.x - mx
             dy == my - s.y
             first == 8 + Flag(s.left, 1) + Flag(dx < 0, 16) + Flag(dy < 0, 32)
                        + Flag(Abs(dx) > 255, 64) + Flag(Abs(dy) > 255, 128)
  <2>0. moves \in Seq(Point) /\ moves # <<>> /\ mx \in Int /\ my \in Int
    BY <1>1 DEF Report, MouseTypes
  <2>1. s \in Point /\ Tail(moves) \in Seq(Point)
    BY <2>0
  <2>2. dx \in Int /\ dy \in Int
    <3>1. s.x \in Int /\ s.y \in Int
      BY <2>1 DEF Point
    <3> HIDE DEF s
    <3> QED BY <2>0, <3>1
  <2>3. first \in Int /\ dx % 256 \in Int /\ dy % 256 \in Int
    BY <2>2 DEF Flag
  <2>4. port' = port \o <<Byte("aux", first), Byte("aux", dx % 256), Byte("aux", dy % 256)>>
    BY <1>1 DEF Report
  <2> HIDE DEF first, dx, dy
  <2>5. /\ Byte("aux", first) \in PortByte
        /\ Byte("aux", dx % 256) \in PortByte
        /\ Byte("aux", dy % 256) \in PortByte
    BY <2>3 DEF Byte, PortByte
  <2>6. port' \in Seq(PortByte)
    BY <2>4, <2>5 DEF MouseTypes
  <2> QED BY <1>1, <2>1, <2>6 DEF Report, MouseTypes, mouse
<1>2. CASE PressKey
  <2>1. typing \in Seq(DOMAIN Scan) /\ typing # <<>>
    BY <1>2 DEF PressKey, MouseTypes
  <2>2. Head(typing) \in DOMAIN Scan /\ Tail(typing) \in Seq(DOMAIN Scan)
    BY <2>1
  <2>3. Scan[Head(typing)] \in Int
    <3>1. Scan[Head(typing)] \in 0..255
      BY <2>2, DesktopAssumption
    <3> QED BY <3>1
  <2>4. [src |-> "key", val |-> Scan[Head(typing)], key |-> Head(typing)] \in PortByte
    BY <2>2, <2>3 DEF PortByte
  <2> QED BY <1>2, <2>2, <2>4 DEF PressKey, MouseTypes, mouse
<1>3. CASE MouseIrq
  <2>1. Head(port) \in PortByte /\ Tail(port) \in Seq(PortByte)
    BY <1>3 DEF MouseIrq, FromMouse, MouseTypes
  <2>2. Head(port).val \in Int
    BY <2>1 DEF PortByte
  <2>3. port' \in Seq(PortByte) /\ latch' \in Int
    BY <1>3, <2>1, <2>2 DEF MouseIrq, Taken, MouseTypes
  <2>4. mx' \in Int /\ my' \in Int /\ btn_left' \in BOOLEAN /\ packet' \in Seq(Int)
    <3>1. CASE Len(packet) < 2
      <4>1. /\ packet' \in {<<>>, Append(packet, Head(port).val)}
            /\ mx' = mx /\ my' = my /\ btn_left' = btn_left
        BY <1>3, <3>1 DEF MouseIrq, Callback
      <4>2. Append(packet, Head(port).val) \in Seq(Int)
        BY <2>2 DEF MouseTypes
      <4>3. packet' \in Seq(Int)
        BY <4>1, <4>2, NothingRead
      <4> QED BY <4>1, <4>3 DEF MouseTypes
    <3>2. CASE Len(packet) >= 2
      <4>1. packet[1] \in Int /\ packet[2] \in Int
        BY <3>2 DEF MouseTypes
      <4>2. packet' = <<>> /\ Moved(Head(port).val)
        BY <1>3, <3>2 DEF MouseIrq, Callback, MouseTypes
      <4> DEFINE overflow == Bit(packet[1], 64) \/ Bit(packet[1], 128)
                 dx == IF overflow THEN 0 ELSE Signed(packet[2], Bit(packet[1], 16))
                 dy == IF overflow THEN 0 ELSE Signed(Head(port).val, Bit(packet[1], 32))
      <4>3. dx \in Int /\ dy \in Int
        BY <2>2, <4>1 DEF Signed
      <4>4. /\ mx' = Clamp(mx + dx, Width) /\ my' = Clamp(my - dy, Height)
            /\ btn_left' = Bit(packet[1], 1)
        BY <4>2 DEF Moved
      <4>5. btn_left' \in BOOLEAN
        BY <4>4 DEF Bit
      <4> HIDE DEF dx, dy
      <4>6. mx' \in Int /\ my' \in Int
        <5>1. mx + dx \in Int /\ my - dy \in Int /\ Width \in Int /\ Height \in Int
          BY <4>3, DesktopAssumption DEF MouseTypes
        <5> QED BY <4>4, <5>1, ClampType
      <4> QED BY <4>2, <4>5, <4>6
    <3> QED BY <3>1, <3>2 DEF MouseTypes
  <2> QED BY <1>3, <2>3, <2>4 DEF MouseIrq, MouseTypes, hands
<1>4. CASE KeyboardIrq
  <2>1. Head(port) \in PortByte /\ Tail(port) \in Seq(PortByte)
    BY <1>4 DEF KeyboardIrq, MouseTypes
  <2>2. Head(port).val \in Int
    BY <2>1 DEF PortByte
  <2> QED BY <1>4, <2>1, <2>2 DEF KeyboardIrq, Taken, MouseTypes, mouse, hands
<1> QED BY <1>1, <1>2, <1>3, <1>4

\* The call of mouse_init and its polls.
LEMMA MouseInitTypes ==
    ASSUME MouseTypes,
           \/ MouseInit \/ ResetY \/ ResetCycle \/ ResetLeft \/ AskStatus
           \/ SetDefaults \/ Enable \/ OpenIrq
    PROVE  MouseTypes'
<1>1. CASE MouseInit \/ ResetY \/ ResetCycle \/ ResetLeft
  <2>1. Width \div 2 \in Int /\ Height \div 2 \in Int
    BY DesktopAssumption
  <2>2. /\ mx' \in {mx, Width \div 2} /\ my' \in {my, Height \div 2}
        /\ packet' \in {packet, <<>>} /\ btn_left' \in {btn_left, FALSE}
        /\ UNCHANGED <<port, latch, ccb, moves, typing>>
    BY <1>1 DEF MouseInit, ResetY, ResetCycle, ResetLeft, Reset, device
  <2>3. mx' \in Int /\ my' \in Int /\ btn_left' \in BOOLEAN /\ packet' \in Seq(Int)
    BY <2>1, <2>2, NothingRead DEF MouseTypes
  <2> QED BY <2>2, <2>3 DEF MouseTypes
<1>2. CASE AskStatus
  <2>1. ccb' \in Int
    BY <1>2, BitsType DEF AskStatus, MouseTypes
  <2>2. Byte("ctl", ccb') \in PortByte
    BY <2>1 DEF Byte, PortByte
  <2>3. port' \in Seq(PortByte)
    BY <1>2, <2>2 DEF AskStatus, MouseTypes
  <2> QED BY <1>2, <2>1, <2>3 DEF AskStatus, MouseTypes, mouse, hands
<1>3. /\ Answer \in Int /\ Rest \in Seq(PortByte)
      /\ Append(Rest, Byte("ack", ACK)) \in Seq(PortByte)
  <2>1. port # <<>> => Head(port) \in PortByte /\ Tail(port) \in Seq(PortByte)
    BY DEF MouseTypes
  <2>2. Answer \in Int /\ Rest \in Seq(PortByte)
    BY <2>1 DEF Answer, Rest, MouseTypes, PortByte
  <2>3. Byte("ack", ACK) \in PortByte
    BY DEF Byte, PortByte, ACK
  <2> QED BY <2>2, <2>3
<1>4. CASE SetDefaults
  <2>1. With(Answer, 2) \in Int
    BY <1>3, BitsType
  <2>2. Without(With(Answer, 2), 32) \in Int
    BY <2>1, BitsType
  <2> QED BY <1>3, <1>4, <2>2 DEF SetDefaults, MouseTypes, mouse, hands
<1>5. CASE Enable
  BY <1>3, <1>5 DEF Enable, MouseTypes, mouse, hands
<1>6. CASE OpenIrq
  BY <1>3, <1>6 DEF OpenIrq, MouseTypes, mouse, hands
<1> QED BY <1>1, <1>2, <1>4, <1>5, <1>6

-----------------------------------------------------------------------------
(* The desktop.                                                              *)

\* The windows and rows there are have a first and a last among any of them.
LEMMA ExtremesOf ==
    ASSUME NEW S \in SUBSET (0..6), S # {}
    PROVE  Max(S) \in S /\ Min(S) \in S
<1>0. PICK z \in S : z \in {0, 1, 2, 3, 4, 5, 6}
  <2>1. PICK z : z \in S
    OBVIOUS
  <2>2. z \in 0..6
    BY <2>1
  <2>3. z \in {0, 1, 2, 3, 4, 5, 6}
    BY <2>2
  <2> QED BY <2>1, <2>3
<1>1. \E x \in S : \A y \in S : x >= y
  <2>1. CASE 6 \in S
    BY <2>1
  <2>2. CASE 6 \notin S /\ 5 \in S
    BY <2>2
  <2>3. CASE 6 \notin S /\ 5 \notin S /\ 4 \in S
    BY <2>3
  <2>4. CASE 6 \notin S /\ 5 \notin S /\ 4 \notin S /\ 3 \in S
    BY <2>4
  <2>5. CASE 6 \notin S /\ 5 \notin S /\ 4 \notin S /\ 3 \notin S /\ 2 \in S
    BY <2>5
  <2>6. CASE 6 \notin S /\ 5 \notin S /\ 4 \notin S /\ 3 \notin S /\ 2 \notin S /\ 1 \in S
    BY <2>6
  <2>7. CASE 6 \notin S /\ 5 \notin S /\ 4 \notin S /\ 3 \notin S /\ 2 \notin S /\ 1 \notin S /\ 0 \in S
    BY <2>7
  <2> QED BY <1>0, <2>1, <2>2, <2>3, <2>4, <2>5, <2>6, <2>7
<1>2. \E x \in S : \A y \in S : x =< y
  <2>1. CASE 0 \in S
    BY <2>1
  <2>2. CASE 0 \notin S /\ 1 \in S
    BY <2>2
  <2>3. CASE 0 \notin S /\ 1 \notin S /\ 2 \in S
    BY <2>3
  <2>4. CASE 0 \notin S /\ 1 \notin S /\ 2 \notin S /\ 3 \in S
    BY <2>4
  <2>5. CASE 0 \notin S /\ 1 \notin S /\ 2 \notin S /\ 3 \notin S /\ 4 \in S
    BY <2>5
  <2>6. CASE 0 \notin S /\ 1 \notin S /\ 2 \notin S /\ 3 \notin S /\ 4 \notin S /\ 5 \in S
    BY <2>6
  <2>7. CASE 0 \notin S /\ 1 \notin S /\ 2 \notin S /\ 3 \notin S /\ 4 \notin S /\ 5 \notin S /\ 6 \in S
    BY <2>7
  <2> QED BY <1>0, <2>1, <2>2, <2>3, <2>4, <2>5, <2>6, <2>7
<1>3. Max(S) \in S
  BY <1>1 DEF Max
<1>4. Min(S) \in S
  BY <1>2 DEF Min
<1> QED BY <1>3, <1>4

\* Tab goes to a window.
LEMMA NextOpenIsApp ==
    ASSUME WindowTypes
    PROVE  next_open \in Apps
<1> DEFINE after == {k \in 1..6 : (active + k) % 6 \in Open}
<1>1. CASE after = {}
  BY <1>1 DEF next_open, WindowTypes
<1>2. CASE after # {}
  <2>1. after \in SUBSET (0..6)
    OBVIOUS
  <2>2. Min(after) \in after
    BY <1>2, <2>1, ExtremesOf
  <2>3. Min(after) \in 1..6 /\ active \in 0..5
    BY <2>2 DEF WindowTypes, Apps
  <2>4. (active + Min(after)) % 6 \in 0..5
    BY <2>3
  <2> QED BY <1>2, <2>4 DEF next_open, Apps
<1> QED BY <1>1, <1>2

\* A click chooses a window.
LEMMA ClickedIsApp ==
    ASSUME WindowTypes, NEW p, NEW saved
    PROVE  Clicked(p, saved).active \in Apps /\ Clicked(p, saved).drag \in BOOLEAN
<1> DEFINE Fine(r) == r.active \in Apps /\ r.drag \in BOOLEAN
<1>1. active \in Apps /\ dragging \in BOOLEAN
  BY DEF WindowTypes
<1>2. Fine(MenuClick(p))
  <2>1. CASE MenuItems(p) = {}
    BY <1>1, <2>1 DEF MenuClick, Unclicked
  <2>2. CASE MenuItems(p) # {}
    <3>1. Max(MenuItems(p)) \in MenuItems(p)
      BY <2>2, ExtremesOf DEF MenuItems
    <3>2. Max(MenuItems(p)) \in 0..6
      BY <3>1 DEF MenuItems
    <3>3. CASE Max(MenuItems(p)) = 6
      BY <1>1, <2>2, <3>3 DEF MenuClick, Unclicked
    <3>4. CASE Max(MenuItems(p)) # 6
      <4>1. Max(MenuItems(p)) \in Apps
        BY <3>2, <3>4 DEF Apps
      <4> QED BY <1>1, <2>2, <3>4, <4>1 DEF MenuClick, Unclicked
    <3> QED BY <3>3, <3>4
  <2> QED BY <2>1, <2>2
<1>3. Target(p) \in Apps
  <2>1. Under(p) \in SUBSET (0..6) /\ Tasks(p) \in SUBSET (0..6)
    BY DEF Under, Tasks, Open, Apps
  <2>2. Under(p) # {} => Max(Under(p)) \in Under(p)
    BY <2>1, ExtremesOf
  <2>3. Tasks(p) # {} => Max(Tasks(p)) \in Tasks(p)
    BY <2>1, ExtremesOf
  <2>4. Under(p) \subseteq Apps /\ Tasks(p) \subseteq Apps
    BY DEF Under, Tasks, Open
  <2> QED BY <1>1, <2>2, <2>3, <2>4 DEF Target
<1>4. ASSUME NEW a \in Apps PROVE Fine(WindowClick(p, a, saved))
  BY <1>1 DEF WindowClick, Unclicked
<1>5. Fine([Unclicked EXCEPT !.menu = TRUE])
  BY <1>1 DEF Unclicked
<1>6. Fine(WindowClick(p, Target(p), saved))
  BY <1>3, <1>4
<1> HIDE DEF Fine
<1>7. Fine(Clicked(p, saved))
  BY <1>2, <1>5, <1>6 DEF Clicked
<1> QED BY <1>7 DEF Fine

\* Steps that leave the windows, the drag and the capture alone.
LEMMA StillStep ==
    ASSUME DesktopInv, MouseTypes',
           UNCHANGED <<wins, active, last, dragging, grip, frames>>,
           mxp' \in Int, myp' \in Int, cap' \in {0, cap}
    PROVE  DesktopInv'
<1>1. WindowTypes' /\ DragIsHeld' /\ DragKeepsGrip'
  BY DEF DesktopInv, WindowTypes, DragIsHeld, DragKeepsGrip
<1>2. CaptureEnds'
  BY DEF DesktopInv, CaptureEnds, WindowTypes
<1> QED BY <1>1, <1>2 DEF DesktopInv

LEMMA SameMouse ==
    ASSUME MouseTypes, UNCHANGED <<mouse, device, moves, typing>>
    PROVE  MouseTypes'
BY DEF MouseTypes, mouse, device

\* Steps of the environment, the shell and mouse_init.
LEMMA AroundStep ==
    ASSUME DesktopInv, Outside \/ Gui \/ ShellKey \/ Poll
    PROVE  DesktopInv'
<1> SUFFICES MouseTypes' /\ UNCHANGED <<wins, active, last, dragging, grip, frames, mxp, myp, cap>>
  BY StillStep DEF DesktopInv, WindowTypes
<1>1. MouseTypes
  BY DEF DesktopInv
<1>2. CASE Outside
  BY <1>1, <1>2, OutsideTypes DEF Outside, screen, locals, calls
<1>3. CASE Gui
  BY <1>1, <1>3, MouseInitTypes DEF Gui, screen, locals
<1>4. CASE ShellKey
  BY <1>1, <1>4, SameMouse DEF ShellKey, hands, screen, locals, calls
<1>5. CASE Poll
  BY <1>1, <1>5, MouseInitTypes DEF Poll, screen, locals, calls
<1> QED BY <1>2, <1>3, <1>4, <1>5

LEMMA FrontAndLast ==
    ASSUME NEW S, NEW s \in Seq(S), s # <<>>
    PROVE  /\ Front(s) \in Seq(S) /\ Len(Front(s)) = Len(s) - 1 /\ Len(s) \in Nat \ {0}
           /\ \A i \in 1..(Len(s) - 1) : Front(s)[i] = s[i]
           /\ Last(s) \in S /\ Last(s) = s[Len(s)]
<1>1. Len(s) \in Nat \ {0}
  OBVIOUS
<1>2. Front(s) = [i \in 1..(Len(s) - 1) |-> s[i]]
  <2>1. Front(s) = [i \in 1..((1 + (Len(s) - 1)) - 1) |-> s[(1 + i) - 1]]
    BY <1>1 DEF Front
  <2> QED BY <1>1, <2>1
<1>3. \A i \in 1..(Len(s) - 1) : s[i] \in S
  BY <1>1
<1> QED BY <1>1, <1>2, <1>3 DEF Last

\* The beginning and the end of desktop_run.
LEMMA CallStep ==
    ASSUME DesktopInv, Setup \/ Return
    PROVE  DesktopInv'
<1>0. MouseTypes' /\ MouseTypes
  BY SameMouse DEF DesktopInv, Setup, Return, mouseVars, hands
<1>1. CASE Setup
  <2>1. /\ wins' = Placed /\ active' = W_TERM /\ dragging' = FALSE /\ grip' = NoGrip
        /\ last' = [x |-> mx, y |-> my, left |-> FALSE]
        /\ mxp' = mxp /\ myp' = myp /\ cap' = cap /\ frames' = frames
    BY <1>1 DEF Setup, calls
  <2>2. last' \in Point /\ W_TERM \in Apps /\ Placed \in [Apps -> Window]
    BY <1>0, <2>1, DesktopAssumption DEF MouseTypes, Point, W_TERM, Apps, Window
  <2> QED BY <1>0, <2>1, <2>2
          DEF DesktopInv, WindowTypes, DragIsHeld, DragKeepsGrip, CaptureEnds
<1>2. CASE Return
  <2>1. /\ wins' = wins /\ active' = active /\ grip' = NoGrip
        /\ mxp' = mxp /\ myp' = myp
    BY <1>2 DEF Return, screen
  <2>2. CASE frames = <<>>
    BY <1>0, <1>2, <2>1, <2>2
       DEF Return, DesktopInv, WindowTypes, DragIsHeld, DragKeepsGrip, CaptureEnds
  <2>3. CASE frames # <<>>
    <3> DEFINE n == Len(frames)
               Frame == [last : Point, dragging : BOOLEAN]
    <3>1. /\ frames' = Front(frames)
          /\ last' = Last(frames).last /\ dragging' = Last(frames).dragging
          /\ cap' = 0
      BY <1>2, <2>3 DEF Return, Released
    <3>2. /\ frames' \in Seq(Frame) /\ Len(frames') = n - 1 /\ n \in Nat \ {0}
          /\ \A i \in 1..(n - 1) : frames'[i] = frames[i]
          /\ Last(frames) \in Frame /\ Last(frames) = frames[n]
      BY <2>3, <3>1, FrontAndLast DEF DesktopInv, WindowTypes
    <3>3. WindowTypes'
      BY <2>1, <3>1, <3>2 DEF DesktopInv, WindowTypes
    <3>4. DragIsHeld'
      BY <3>1, <3>2 DEF DesktopInv, DragIsHeld
    <3> QED BY <1>0, <2>1, <3>1, <3>2, <3>3, <3>4 DEF DesktopInv, DragKeepsGrip, CaptureEnds
  <2> QED BY <2>2, <2>3
<1> QED BY <1>1, <1>2

\* Keys.
LEMMA KeyStep ==
    ASSUME DesktopInv, Keyed
    PROVE  DesktopInv'
<1>0. MouseTypes /\ WindowTypes
  BY DEF DesktopInv
<1> DEFINE Still == UNCHANGED <<wins, active, last, dragging, grip, frames, mxp, myp>>
<1>1. ASSUME MouseTypes', Still, cap' \in {0, cap} PROVE DesktopInv'
  BY <1>0, <1>1, StillStep DEF WindowTypes
<1>2. ASSUME NEW k, NEW next, Got(k, next)
      PROVE  MouseTypes' /\ UNCHANGED <<last, dragging, mxp, myp>>
  BY <1>0, <1>2, SameMouse DEF Got, hands
<1>3. CASE NoKey
  BY <1>0, <1>1, <1>3, SameMouse DEF NoKey, mouseVars, hands, screen, locals, calls
<1>4. CASE Leave
  BY <1>1, <1>2, <1>4 DEF Leave, screen
<1>5. CASE Switch
  <2>1. CASE Got("tick", "readx") /\ UNCHANGED <<active, grip>>
    BY <1>1, <1>2, <1>5, <2>1 DEF Switch
  <2>2. CASE Got("tab", "readx") /\ active' = next_open /\ grip' = NoGrip
    <3>1. MouseTypes' /\ UNCHANGED <<last, dragging, mxp, myp, wins, cap, frames>>
      BY <1>2, <1>5, <2>2 DEF Switch
    <3>2. active' \in Apps
      BY <1>0, <2>2, NextOpenIsApp
    <3> QED BY <2>2, <3>1, <3>2
            DEF DesktopInv, WindowTypes, DragIsHeld, DragKeepsGrip, CaptureEnds
  <2> QED BY <1>5, <2>1, <2>2 DEF Switch
<1>6. ASSUME NEW k \in DOMAIN Scan, Write(k) PROVE DesktopInv'
  BY <1>1, <1>2, <1>6 DEF Write, screen
<1>7. ASSUME NEW k \in DOMAIN Scan, MoveByKey(k) PROVE DesktopInv'
  <2>1. MouseTypes' /\ UNCHANGED <<last, dragging, mxp, myp, active, cap, frames>>
    BY <1>2, <1>7 DEF MoveByKey
  <2>2. CASE k \in DOMAIN Arrow
    <3>1. /\ wins' = [wins EXCEPT ![active].x = @ + Arrow[k].x, ![active].y = @ + Arrow[k].y]
          /\ grip' = NoGrip
      BY <1>7, <2>2 DEF MoveByKey
    <3>2. wins[active] \in Window /\ Arrow[k].x \in Int /\ Arrow[k].y \in Int
      BY <1>0, <2>2, DesktopAssumption DEF WindowTypes
    <3> DEFINE w == [wins[active] EXCEPT !.x = @ + Arrow[k].x, !.y = @ + Arrow[k].y]
    <3>3. wins' \in [Apps -> Window]
      <4>1. wins' = [wins EXCEPT ![active] = w]
        BY <1>0, <3>1 DEF WindowTypes
      <4>2. wins[active].x + Arrow[k].x \in Int /\ wins[active].y + Arrow[k].y \in Int
        BY <3>2 DEF Window
      <4>3. w \in Window
        BY <3>2, <4>2 DEF Window
      <4> HIDE DEF w
      <4> QED BY <1>0, <4>1, <4>3 DEF WindowTypes
    <3> QED BY <2>1, <3>1, <3>3
            DEF DesktopInv, WindowTypes, DragIsHeld, DragKeepsGrip, CaptureEnds
  <2>3. CASE k \notin DOMAIN Arrow
    BY <1>1, <1>7, <2>1, <2>3 DEF MoveByKey
  <2> QED BY <2>2, <2>3
<1>8. CASE OwnWord
  BY <1>1, <1>2, <1>8 DEF OwnWord, screen
<1>9. CASE Execute
  BY <1>1, <1>2, <1>9 DEF Execute, Released
<1>10. CASE Nest
  <2> DEFINE Frame == [last : Point, dragging : BOOLEAN]
             this == [last |-> last, dragging |-> dragging]
  <2>1. /\ MouseTypes'
        /\ UNCHANGED <<wins, active, last, dragging, mxp, myp>>
        /\ grip' = NoGrip
        /\ frames' = Append(frames, this)
        /\ cap' = Len(frames')
    BY <1>0, <1>10, MouseInitTypes DEF Nest, screen
  <2>2. this \in Frame /\ frames \in Seq(Frame)
    BY <1>0 DEF WindowTypes
  <2>3. this.dragging => this.last.left
    BY DEF DesktopInv, DragIsHeld
  <2> HIDE DEF this
  <2>4. /\ frames' \in Seq(Frame) /\ Len(frames') = Len(frames) + 1
        /\ \A i \in 1..Len(frames) : frames'[i] = frames[i]
        /\ frames'[Len(frames) + 1] = this
    BY <2>1, <2>2
  <2>5. WindowTypes'
    BY <1>0, <2>1, <2>4 DEF WindowTypes
  <2>6. DragIsHeld'
    <3>1. ASSUME NEW i \in 1..(Len(frames) + 1) PROVE frames'[i].dragging => frames'[i].last.left
      BY <2>2, <2>3, <2>4 DEF DesktopInv, DragIsHeld
    <3> QED BY <2>1, <2>2, <2>4, <3>1 DEF DesktopInv, DragIsHeld
  <2>7. CaptureEnds' /\ DragKeepsGrip'
    BY <2>1, <2>2, <2>4 DEF CaptureEnds, DragKeepsGrip
  <2> QED BY <2>1, <2>5, <2>6, <2>7 DEF DesktopInv
<1> QED BY <1>3, <1>4, <1>5, <1>6, <1>7, <1>8, <1>9, <1>10 DEF Keyed

\* The rest of a pass: the reads of the mouse ..
LEMMA ReadStep ==
    ASSUME DesktopInv, ReadX \/ ReadY
    PROVE  DesktopInv'
<1>1. MouseTypes'
  BY SameMouse DEF DesktopInv, ReadX, ReadY, mouseVars, hands
<1>2. UNCHANGED <<wins, active, last, dragging, grip, frames, cap>> /\ mxp' \in Int /\ myp' \in Int
  BY DEF DesktopInv, ReadX, ReadY, screen, calls, WindowTypes, MouseTypes
<1> QED BY <1>1, <1>2, StillStep

\* .. and what they lead to.
LEMMA ActStep ==
    ASSUME DesktopInv, Act
    PROVE  DesktopInv'
<1>0. MouseTypes /\ WindowTypes /\ DragIsHeld /\ DragKeepsGrip
  BY DEF DesktopInv
<1> DEFINE p == [x |-> mxp, y |-> myp]
<1>1. PICK saved \in BOOLEAN :
        LET r == IF btn_left /\ ~last.left THEN Clicked(p, saved) ELSE Unclicked
            shown == [i \in Apps |-> [wins[i] EXCEPT !.open = i \in r.open]]
        IN  /\ active' = r.active
            /\ dragging' = (r.drag /\ btn_left)
            /\ wins' = IF dragging' THEN [shown EXCEPT ![r.active] = Pulled(@)] ELSE shown
            /\ grip' = IF ~dragging' THEN NoGrip
                       ELSE IF dragging THEN grip
                       ELSE [win |-> r.active, x |-> wins[r.active].x - last.x,
                             y |-> wins[r.active].y - last.y]
  BY DEF Act
<1> DEFINE r == IF btn_left /\ ~last.left THEN Clicked(p, saved) ELSE Unclicked
           shown == [i \in Apps |-> [wins[i] EXCEPT !.open = i \in r.open]]
<1>2. /\ last' = [x |-> mxp, y |-> myp, left |-> btn_left]
      /\ mxp' = 0 /\ myp' = 0 /\ cap' = cap /\ frames' = frames
      /\ MouseTypes'
  BY <1>0, SameMouse DEF Act, mouseVars, hands, calls
<1>3. r.active \in Apps /\ r.drag \in BOOLEAN
  <2>1. Unclicked.active \in Apps /\ Unclicked.drag \in BOOLEAN
    BY <1>0 DEF Unclicked, WindowTypes
  <2> QED BY <1>0, <2>1, ClickedIsApp
<1>4. dragging => r.active = active
  BY <1>0 DEF DragIsHeld, Unclicked
<1>5. /\ active' = r.active
      /\ dragging' = (r.drag /\ btn_left)
      /\ wins' = IF dragging' THEN [shown EXCEPT ![r.active] = Pulled(@)] ELSE shown
      /\ grip' = IF ~dragging' THEN NoGrip
                 ELSE IF dragging THEN grip
                 ELSE [win |-> r.active, x |-> wins[r.active].x - last.x,
                       y |-> wins[r.active].y - last.y]
  BY <1>1
<1> HIDE DEF r
<1>6. /\ shown \in [Apps -> Window]
      /\ \A i \in Apps : shown[i].x = wins[i].x /\ shown[i].y = wins[i].y
  <2>1. ASSUME NEW i \in Apps
        PROVE  /\ [wins[i] EXCEPT !.open = i \in r.open] \in Window
               /\ [wins[i] EXCEPT !.open = i \in r.open].x = wins[i].x
               /\ [wins[i] EXCEPT !.open = i \in r.open].y = wins[i].y
    <3>1. wins[i] \in Window /\ (i \in r.open) \in BOOLEAN
      BY <1>0 DEF WindowTypes
    <3> QED BY <3>1 DEF Window
  <2> QED BY <2>1
<1> HIDE DEF shown
<1>7. last.x \in Int /\ last.y \in Int /\ mxp \in Int /\ myp \in Int
  BY <1>0 DEF WindowTypes, Point
<1>8. CASE dragging'
  <2>1. wins' = [shown EXCEPT ![r.active] = Pulled(shown[r.active])]
    BY <1>5, <1>8
  <2>2. shown[r.active] \in Window
    BY <1>3, <1>6
  <2>3. /\ Pulled(shown[r.active]) \in Window
        /\ Pulled(shown[r.active]).x = shown[r.active].x + mxp - last.x
        /\ Pulled(shown[r.active]).y = shown[r.active].y + myp - last.y
    <3> DEFINE w == shown[r.active]
    <3>1. w.x + mxp - last.x \in Int /\ w.y + myp - last.y \in Int
      BY <1>7, <2>2 DEF Window
    <3> HIDE DEF w
    <3>2. w \in Window
      BY <2>2 DEF w
    <3>3. /\ Pulled(w) \in Window
          /\ Pulled(w).x = w.x + mxp - last.x /\ Pulled(w).y = w.y + myp - last.y
      BY <3>1, <3>2 DEF Pulled, Window
    <3> QED BY <3>3 DEF w
  <2>4. wins' \in [Apps -> Window] /\ wins'[r.active] = Pulled(shown[r.active])
    BY <1>3, <1>6, <2>1, <2>3
  <2>5. WindowTypes'
    BY <1>0, <1>2, <1>3, <1>5, <1>7, <1>8, <2>4 DEF WindowTypes, Point, MouseTypes
  <2>6. DragIsHeld'
    BY <1>0, <1>2, <1>5, <1>8 DEF DragIsHeld
  <2>7. DragKeepsGrip'
    <3>1. /\ wins'[active'].x - last'.x = wins[r.active].x - last.x
          /\ wins'[active'].y - last'.y = wins[r.active].y - last.y
      <4>1. wins[r.active].x \in Int /\ wins[r.active].y \in Int
        BY <1>0, <1>3 DEF WindowTypes, Window
      <4>2. /\ wins'[active'].x = wins[r.active].x + mxp - last.x /\ last'.x = mxp
            /\ wins'[active'].y = wins[r.active].y + myp - last.y /\ last'.y = myp
        BY <1>2, <1>3, <1>5, <1>6, <2>3, <2>4
      <4> QED BY <1>7, <4>1, <4>2
    <3>2. CASE dragging
      BY <1>0, <1>4, <1>5, <1>8, <3>1, <3>2 DEF DragKeepsGrip
    <3>3. CASE ~dragging
      BY <1>5, <1>8, <3>1, <3>3 DEF DragKeepsGrip
    <3> QED BY <1>0, <3>2, <3>3 DEF WindowTypes
  <2> QED BY <1>2, <2>5, <2>6, <2>7 DEF DesktopInv, CaptureEnds
<1>9. CASE ~dragging'
  <2>1. wins' = shown /\ grip' = NoGrip
    BY <1>5, <1>9
  <2>2. WindowTypes'
    BY <1>0, <1>2, <1>3, <1>5, <1>6, <1>7, <2>1 DEF WindowTypes, Point, MouseTypes
  <2>3. DragIsHeld' /\ DragKeepsGrip'
    BY <1>0, <1>2, <1>9, <2>1 DEF DragIsHeld, DragKeepsGrip
  <2> QED BY <1>2, <2>2, <2>3 DEF DesktopInv, CaptureEnds
<1> QED BY <1>8, <1>9

-----------------------------------------------------------------------------
LEMMA DesktopInvInit == Init => DesktopInv
<1> SUFFICES ASSUME Init PROVE DesktopInv
  OBVIOUS
<1>1. PICK p \in Plans : moves = p[1] /\ typing = p[2]
  BY DEF Init, MouseInit0
<1>2. moves \in Seq(Point) /\ typing \in Seq(DOMAIN Scan) /\ Ccb0 \in Int
  <2>1. p[1] \in Seq(Point) /\ p[2] \in Seq(DOMAIN Scan)
    BY DesktopAssumption DEF Point
  <2>2. Ccb0 \in Int
    <3>1. Ccb0 \in 0..255
      BY DesktopAssumption
    <3> QED BY <3>1
  <2> QED BY <1>1, <2>1, <2>2
<1>3. port \in Seq(PortByte) /\ packet \in Seq(Int)
  BY DEF Init, MouseInit0
<1>4. MouseTypes
  <2>1. mx = 0 /\ my = 0 /\ btn_left = FALSE /\ latch = 0 /\ ccb = Ccb0
    BY DEF Init, MouseInit0
  <2>2. mx \in Int /\ my \in Int /\ latch \in Int /\ ccb \in Int
    BY <1>2, <2>1
  <2>3. btn_left \in BOOLEAN
    BY <2>1
  <2> QED BY <1>2, <1>3, <2>2, <2>3 DEF MouseTypes
<1>5. WindowTypes
  <2>1. wins \in [Apps -> Window] /\ active \in Apps
    BY DesktopAssumption DEF Init, Window, W_TERM, Apps
  <2>2. frames \in Seq([last : Point, dragging : BOOLEAN])
    BY DEF Init
  <2>3. last \in Point /\ dragging \in BOOLEAN /\ mxp \in Int /\ myp \in Int
    <3>1. last = [x |-> 0, y |-> 0, left |-> FALSE] /\ dragging = FALSE /\ mxp = 0 /\ myp = 0
      BY DEF Init
    <3>2. last \in Point
      BY <3>1 DEF Point
    <3>3. dragging \in BOOLEAN
      BY <3>1
    <3>4. mxp \in Int /\ myp \in Int
      BY <3>1
    <3> QED BY <3>2, <3>3, <3>4
  <2> QED BY <2>1, <2>2, <2>3 DEF WindowTypes
<1>6. DragIsHeld /\ DragKeepsGrip /\ CaptureEnds
  BY DEF Init, DragIsHeld, DragKeepsGrip, CaptureEnds
<1> QED BY <1>4, <1>5, <1>6 DEF DesktopInv

LEMMA DesktopInvHolds == Spec => []DesktopInv
<1>1. DesktopInv /\ [Next]_vars => DesktopInv'
  <2> SUFFICES ASSUME DesktopInv, [Next]_vars PROVE DesktopInv'
    OBVIOUS
  <2>1. CASE UNCHANGED vars
    <3>1. MouseTypes'
      BY <2>1, SameMouse DEF DesktopInv, vars, mouseVars, hands
    <3> QED BY <2>1, <3>1, StillStep DEF vars, screen, locals, calls, DesktopInv, WindowTypes
  <2> QED BY <2>1, AroundStep, CallStep, KeyStep, ReadStep, ActStep DEF Next
<1> QED BY <1>1, DesktopInvInit, PTL DEF Spec

\* desktop_run: from the pass that begins a drag until it ends, the pointer of
\* the last pass stays on the same point of the same window.
THEOREM DragsHold == Spec => []DragKeepsGrip
<1>1. DesktopInv => DragKeepsGrip
  BY DEF DesktopInv
<1> QED BY <1>1, DesktopInvHolds, PTL

\* term_run and console_capture_end: however desktops are nested, the capture
\* buffer of the console is one of a command that has not returned.
THEOREM CapturesEnd == Spec => []CaptureEnds
<1>1. DesktopInv => CaptureEnds
  BY DEF DesktopInv
<1> QED BY <1>1, DesktopInvHolds, PTL

-----------------------------------------------------------------------------
(* The pointer.  What waits behind the port, decoded in order, leads from    *)
(* the driver's packet and pointer to a whole packet and the user's hand.    *)

Now == [x |-> mx, y |-> my, left |-> btn_left]
OnScreen == [x : 0..(Width - 1), y : 0..(Height - 1), left : BOOLEAN]

\* The pointer at, after the packet p has got its third byte v.
After(at, p, v) ==
    LET overflow == Bit(p[1], 64) \/ Bit(p[1], 128)
        dx == IF overflow THEN 0 ELSE Signed(p[2], Bit(p[1], 16))
        dy == IF overflow THEN 0 ELSE Signed(v, Bit(p[1], 32))
    IN  [x |-> Clamp(at.x + dx, Width), y |-> Clamp(at.y - dy, Height), left |-> Bit(p[1], 1)]

\* The byte b takes packet p and pointer a to q and e; a first byte has its sync bit,
\* and nothing of another device comes within a packet.
Fed(p, a, b, q, e) ==
    IF b.src # "aux" THEN p = <<>> /\ q = <<>> /\ e = a
    ELSE IF Len(p) < 2 THEN (p = <<>> => Bit(b.val, 8)) /\ q = Append(p, b.val) /\ e = a
    ELSE q = <<>> /\ e = After(a, p, b.val)

QuietFrom(s, i) == \A j \in i..Len(s) : s[j].src # "aux"

\* The run of the driver over the bytes s, from p and a to a whole packet and e.
\* Its last part says without induction what bytes of other devices do.
Run(s, pk, at, p, a, e) ==
    /\ pk[1] = p /\ at[1] = a
    /\ pk[Len(s) + 1] = <<>> /\ at[Len(s) + 1] = e
    /\ \A j \in 1..Len(s) : Fed(pk[j], at[j], s[j], pk[j + 1], at[j + 1])
    /\ \A i \in 1..(Len(s) + 1) : QuietFrom(s, i) => pk[i] = <<>> /\ at[i] = e

Leads(s, p, a, e) == \E pk, at : Run(s, pk, at, p, a, e)

\* The first byte is decoded.
LEMMA LeadsOn ==
    ASSUME NEW s, Len(s) \in Nat, Len(s) # 0, NEW t, Len(t) = Len(s) - 1,
           \A j \in 1..Len(t) : t[j] = s[j + 1],
           NEW p, NEW a, NEW e, Leads(s, p, a, e)
    PROVE  \E q, b : Fed(p, a, s[1], q, b) /\ Leads(t, q, b, e)
<1> DEFINE n == Len(s)
           m == Len(t)
<1>0. n \in Nat /\ m \in Nat /\ m = n - 1 /\ n >= 1
  OBVIOUS
<1>1. PICK pk, at : Run(s, pk, at, p, a, e)
  BY DEF Leads
<1>2. /\ pk[1] = p /\ at[1] = a
      /\ pk[n + 1] = <<>> /\ at[n + 1] = e
      /\ \A j \in 1..n : Fed(pk[j], at[j], s[j], pk[j + 1], at[j + 1])
      /\ \A i \in 1..(n + 1) : QuietFrom(s, i) => pk[i] = <<>> /\ at[i] = e
  BY <1>1 DEF Run
<1> DEFINE pp == [j \in 1..n |-> pk[j + 1]]
           aa == [j \in 1..n |-> at[j + 1]]
<1>3. \A j \in 1..n : pp[j] = pk[j + 1] /\ aa[j] = at[j + 1]
  OBVIOUS
<1>4. \A i \in 1..n : QuietFrom(t, i) => QuietFrom(s, i + 1)
  <2> SUFFICES ASSUME NEW i \in 1..n, QuietFrom(t, i), NEW j \in (i + 1)..n PROVE s[j].src # "aux"
    BY DEF QuietFrom
  <2>1. j - 1 \in i..m /\ j - 1 \in 1..m /\ j - 1 + 1 = j
    BY <1>0
  <2>2. t[j - 1].src # "aux"
    BY <2>1 DEF QuietFrom
  <2> QED BY <2>1, <2>2
<1> HIDE DEF n, m, pp, aa
<1>5. pp[1] = pk[2] /\ aa[1] = at[2] /\ pp[m + 1] = <<>> /\ aa[m + 1] = e
  <2>1. 1 \in 1..n /\ n \in 1..n /\ m + 1 = n /\ 1 + 1 = 2
    BY <1>0
  <2> QED BY <1>2, <1>3, <2>1
<1>6. ASSUME NEW j \in 1..m PROVE Fed(pp[j], aa[j], t[j], pp[j + 1], aa[j + 1])
  <2>1. j \in 1..n /\ j + 1 \in 1..n
    BY <1>0
  <2>2. Fed(pk[j + 1], at[j + 1], s[j + 1], pk[j + 1 + 1], at[j + 1 + 1])
    BY <1>2, <2>1
  <2>3. t[j] = s[j + 1]
    BY DEF m
  <2> QED BY <1>3, <2>1, <2>2, <2>3
<1>7. ASSUME NEW i \in 1..(m + 1), QuietFrom(t, i) PROVE pp[i] = <<>> /\ aa[i] = e
  <2>1. i \in 1..n /\ i + 1 \in 1..(n + 1)
    BY <1>0
  <2>2. QuietFrom(s, i + 1)
    BY <1>4, <1>7, <2>1
  <2> QED BY <1>2, <1>3, <2>1, <2>2
<1>8. Run(t, pp, aa, pk[2], at[2], e)
  BY <1>5, <1>6, <1>7 DEF Run, m
<1>9. Fed(p, a, s[1], pk[2], at[2])
  <2>1. 1 \in 1..n /\ 1 + 1 = 2
    BY <1>0
  <2> QED BY <1>2, <2>1
<1> QED BY <1>8, <1>9 DEF Leads

\* A byte of another device comes.
LEMMA LeadsQuiet ==
    ASSUME NEW s, Len(s) \in Nat, NEW t, Len(t) = Len(s) + 1,
           \A j \in 1..Len(s) : t[j] = s[j], t[Len(s) + 1].src # "aux",
           NEW p, NEW a, NEW e, Leads(s, p, a, e)
    PROVE  Leads(t, p, a, e)
<1> DEFINE n == Len(s)
<1>0. n \in Nat /\ Len(t) = n + 1 /\ t[n + 1].src # "aux" /\ \A j \in 1..n : t[j] = s[j]
  OBVIOUS
<1>1. PICK pk, at : Run(s, pk, at, p, a, e)
  BY DEF Leads
<1>2. /\ pk[1] = p /\ at[1] = a
      /\ pk[n + 1] = <<>> /\ at[n + 1] = e
      /\ \A j \in 1..n : Fed(pk[j], at[j], s[j], pk[j + 1], at[j + 1])
      /\ \A i \in 1..(n + 1) : QuietFrom(s, i) => pk[i] = <<>> /\ at[i] = e
  BY <1>1 DEF Run
<1> DEFINE pp == [j \in 1..(n + 2) |-> IF j = n + 2 THEN <<>> ELSE pk[j]]
           aa == [j \in 1..(n + 2) |-> IF j = n + 2 THEN e ELSE at[j]]
<1>3. /\ \A j \in 1..(n + 1) : pp[j] = pk[j] /\ aa[j] = at[j]
      /\ pp[n + 2] = <<>> /\ aa[n + 2] = e
  BY <1>0
<1>4. \A i \in 1..(n + 1) : QuietFrom(t, i) => QuietFrom(s, i)
  BY <1>0 DEF QuietFrom
<1> HIDE DEF n, pp, aa
<1>5. pp[1] = p /\ aa[1] = a
  <2>1. 1 \in 1..(n + 1)
    BY <1>0
  <2> QED BY <1>2, <1>3, <2>1
<1>6. ASSUME NEW j \in 1..(n + 1) PROVE Fed(pp[j], aa[j], t[j], pp[j + 1], aa[j + 1])
  <2>1. CASE j \in 1..n
    <3>1. j + 1 \in 1..(n + 1) /\ j \in 1..(n + 1)
      BY <1>0, <2>1
    <3> QED BY <1>0, <1>2, <1>3, <2>1, <3>1
  <2>2. CASE j = n + 1
    <3>1. pp[j] = <<>> /\ aa[j] = e /\ j + 1 = n + 2
      BY <1>0, <1>2, <1>3, <2>2
    <3>2. pp[j + 1] = <<>> /\ aa[j + 1] = e
      BY <1>3, <3>1
    <3> QED BY <1>0, <2>2, <3>1, <3>2 DEF Fed
  <2>3. j \in 1..n \/ j = n + 1
    BY <1>0
  <2> QED BY <2>1, <2>2, <2>3
<1>7. ASSUME NEW i \in 1..(n + 2), QuietFrom(t, i) PROVE pp[i] = <<>> /\ aa[i] = e
  <2>1. CASE i \in 1..(n + 1)
    BY <1>2, <1>3, <1>4, <1>7, <2>1
  <2>2. CASE i = n + 2
    BY <1>3, <2>2
  <2>3. i \in 1..(n + 1) \/ i = n + 2
    BY <1>0
  <2> QED BY <2>1, <2>2, <2>3
<1>8. Len(t) + 1 = n + 2
  BY <1>0
<1>9. Run(t, pp, aa, p, a, e)
  BY <1>0, <1>3, <1>5, <1>6, <1>7, <1>8 DEF Run
<1> QED BY <1>9 DEF Leads

LEMMA PacketGrows ==
    ASSUME NEW x \in Int, NEW y \in Int
    PROVE  /\ Len(<<>>) = 0 /\ Append(<<>>, x) = <<x>>
           /\ Len(<<x>>) = 1 /\ <<x>> # <<>> /\ Append(<<x>>, y) = <<x, y>>
           /\ Len(<<x, y>>) = 2
<1>1. <<>> \in Seq(Int) /\ <<x>> \in Seq(Int) /\ Len(<<>>) = 0
  OBVIOUS
<1>2. Append(<<>>, x) = <<x>>
  OBVIOUS
<1>3. Len(<<x>>) = 1 /\ Len(<<x, y>>) = 2
  OBVIOUS
<1>4. <<x>> # <<>>
  BY <1>1, <1>3
<1>5. Append(<<x>>, y) = <<x, y>>
  <2> DEFINE w == Append(<<x>>, y)
  <2>1. w \in Seq(Int) /\ Len(w) = 2 /\ w[1] = x /\ w[2] = y
    BY <1>1, <1>3
  <2> HIDE DEF w
  <2>2. <<x, y>> \in Seq(Int) /\ Len(<<x, y>>) = 2 /\ <<x, y>>[1] = x /\ <<x, y>>[2] = y
    OBVIOUS
  <2>3. \A i \in 1..2 : w[i] = <<x, y>>[i]
    <3>1. \A i \in 1..2 : i = 1 \/ i = 2
      OBVIOUS
    <3> QED BY <2>1, <2>2, <3>1
  <2>4. w = <<x, y>>
    <3>1. PICK v \in Seq(Int) : v = <<x, y>> /\ Len(v) = 2 /\ \A i \in 1..2 : w[i] = v[i]
      BY <2>2, <2>3
    <3>2. w = [i \in 1..2 |-> w[i]] /\ v = [i \in 1..2 |-> v[i]]
      BY <2>1, <3>1
    <3> QED BY <3>1, <3>2
  <2> QED BY <2>4 DEF w
<1> QED BY <1>1, <1>2, <1>3, <1>4, <1>5

\* A packet comes.
LEMMA LeadsReport ==
    ASSUME NEW s, Len(s) \in Nat, NEW t, Len(t) = Len(s) + 3,
           \A j \in 1..Len(s) : t[j] = s[j],
           NEW b1, NEW b2, NEW b3,
           t[Len(s) + 1] = b1, t[Len(s) + 2] = b2, t[Len(s) + 3] = b3,
           b1.src = "aux", b2.src = "aux", b3.src = "aux", Bit(b1.val, 8),
           b1.val \in Int, b2.val \in Int,
           NEW p, NEW a, NEW e, Leads(s, p, a, e)
    PROVE  Leads(t, p, a, After(e, <<b1.val, b2.val>>, b3.val))
<1> DEFINE n == Len(s)
           f == After(e, <<b1.val, b2.val>>, b3.val)
           one == <<b1.val>>
           two == <<b1.val, b2.val>>
<1>0. /\ n \in Nat /\ Len(t) = n + 3 /\ \A j \in 1..n : t[j] = s[j]
      /\ t[n + 1] = b1 /\ t[n + 2] = b2 /\ t[n + 3] = b3
  OBVIOUS
<1>1. PICK pk, at : Run(s, pk, at, p, a, e)
  BY DEF Leads
<1>2. /\ pk[1] = p /\ at[1] = a
      /\ pk[n + 1] = <<>> /\ at[n + 1] = e
      /\ \A j \in 1..n : Fed(pk[j], at[j], s[j], pk[j + 1], at[j + 1])
  BY <1>1 DEF Run
<1> DEFINE pp == [j \in 1..(n + 4) |-> IF j = n + 2 THEN one ELSE IF j = n + 3 THEN two
                                        ELSE IF j = n + 4 THEN <<>> ELSE pk[j]]
           aa == [j \in 1..(n + 4) |-> IF j = n + 2 \/ j = n + 3 THEN e
                                        ELSE IF j = n + 4 THEN f ELSE at[j]]
<1>10. Fed(<<>>, e, b1, one, e) /\ Fed(one, e, b2, two, e) /\ Fed(two, e, b3, <<>>, f)
  <2>1. /\ Len(<<>>) = 0 /\ Append(<<>>, b1.val) = one
        /\ Len(one) = 1 /\ one # <<>> /\ Append(one, b2.val) = two
        /\ Len(two) = 2
    BY PacketGrows
  <2> HIDE DEF one, f
  <2>2. Fed(<<>>, e, b1, one, e)
    BY <2>1 DEF Fed
  <2> HIDE DEF two
  <2>3. Fed(one, e, b2, two, e)
    BY <2>1 DEF Fed
  <2>4. Fed(two, e, b3, <<>>, f)
    BY <2>1 DEF Fed, f, two
  <2> QED BY <2>2, <2>3, <2>4
<1> HIDE DEF f, one, two
<1>3. /\ \A j \in 1..(n + 1) : pp[j] = pk[j] /\ aa[j] = at[j]
      /\ pp[n + 2] = one /\ aa[n + 2] = e
      /\ pp[n + 3] = two /\ aa[n + 3] = e
      /\ pp[n + 4] = <<>> /\ aa[n + 4] = f
  BY <1>0
<1>4. \A i \in 1..(n + 3) : ~QuietFrom(t, i)
  <2>1. n + 3 \in 1..(n + 3) /\ \A i \in 1..(n + 3) : n + 3 \in i..(n + 3)
    BY <1>0
  <2> QED BY <1>0, <2>1 DEF QuietFrom
<1> HIDE DEF n, pp, aa
<1>5. pp[1] = p /\ aa[1] = a
  <2>1. 1 \in 1..(n + 1)
    BY <1>0
  <2> QED BY <1>2, <1>3, <2>1
<1>6. ASSUME NEW j \in 1..(n + 3) PROVE Fed(pp[j], aa[j], t[j], pp[j + 1], aa[j + 1])
  <2>1. CASE j \in 1..n
    <3>1. j + 1 \in 1..(n + 1) /\ j \in 1..(n + 1)
      BY <1>0, <2>1
    <3> QED BY <1>0, <1>2, <1>3, <2>1, <3>1
  <2>2. CASE j = n + 1
    <3>1. n + 1 \in 1..(n + 1) /\ j + 1 = n + 2
      BY <1>0, <2>2
    <3> QED BY <1>10, <1>0, <1>2, <1>3, <2>2, <3>1
  <2>3. CASE j = n + 2
    <3>1. j + 1 = n + 3
      BY <1>0, <2>3
    <3> QED BY <1>10, <1>0, <1>3, <2>3, <3>1
  <2>4. CASE j = n + 3
    <3>1. j + 1 = n + 4
      BY <1>0, <2>4
    <3> QED BY <1>10, <1>0, <1>3, <2>4, <3>1
  <2>5. j \in 1..n \/ j = n + 1 \/ j = n + 2 \/ j = n + 3
    BY <1>0
  <2> QED BY <2>1, <2>2, <2>3, <2>4, <2>5
<1>7. ASSUME NEW i \in 1..(n + 4), QuietFrom(t, i) PROVE pp[i] = <<>> /\ aa[i] = f
  <2>1. i \in 1..(n + 3) \/ i = n + 4
    BY <1>0
  <2> QED BY <1>3, <1>4, <1>7, <2>1
<1>8. Len(t) + 1 = n + 4
  BY <1>0
<1>9. Run(t, pp, aa, p, a, f)
  BY <1>0, <1>3, <1>5, <1>6, <1>7, <1>8 DEF Run
<1> QED BY <1>9 DEF Leads, f, two

\* Nothing of the mouse waits: the driver is where the hand is.
LEMMA LeadsNowhere ==
    ASSUME NEW s, Len(s) \in Nat, QuietFrom(s, 1), NEW p, NEW a, NEW e, Leads(s, p, a, e)
    PROVE  p = <<>> /\ a = e
<1>1. PICK pk, at : Run(s, pk, at, p, a, e)
  BY DEF Leads
<1>2. 1 \in 1..(Len(s) + 1)
  OBVIOUS
<1> QED BY <1>1, <1>2 DEF Run

LEMMA LeadsStill ==
    ASSUME NEW s, Len(s) \in Nat, QuietFrom(s, 1), NEW a
    PROVE  Leads(s, <<>>, a, a)
<1> DEFINE n == Len(s)
           pp == [j \in 1..(n + 1) |-> <<>>]
           aa == [j \in 1..(n + 1) |-> a]
<1>1. \A j \in 1..(n + 1) : pp[j] = <<>> /\ aa[j] = a
  OBVIOUS
<1>2. n \in Nat /\ \A j \in 1..n : s[j].src # "aux"
  BY DEF QuietFrom
<1> HIDE DEF n, pp, aa
<1>3. pp[1] = <<>> /\ aa[1] = a /\ pp[n + 1] = <<>> /\ aa[n + 1] = a
  BY <1>1, <1>2
<1>4. ASSUME NEW j \in 1..n PROVE Fed(pp[j], aa[j], s[j], pp[j + 1], aa[j + 1])
  <2>1. j \in 1..(n + 1) /\ j + 1 \in 1..(n + 1)
    BY <1>2
  <2> QED BY <1>1, <1>2, <2>1 DEF Fed
<1>5. Run(s, pp, aa, <<>>, a, a)
  BY <1>1, <1>3, <1>4 DEF Run, n
<1> QED BY <1>5 DEF Leads

-----------------------------------------------------------------------------
(* What a report says, the driver understands.                               *)

LEMMA BitsOfSum ==
    ASSUME NEW a \in {0, 1}, NEW b \in {0, 1}, NEW c \in {0, 1}, NEW d \in {0, 1}, NEW e \in {0, 1},
           NEW v, v = 8 + a + 16 * b + 32 * c + 64 * d + 128 * e
    PROVE  /\ v \in Int /\ Bit(v, 8)
           /\ (Bit(v, 1) <=> a = 1) /\ (Bit(v, 16) <=> b = 1) /\ (Bit(v, 32) <=> c = 1)
           /\ (Bit(v, 64) <=> d = 1) /\ (Bit(v, 128) <=> e = 1)
<1>1. v \in Int
  OBVIOUS
<1>2. Bit(v, 1) <=> a = 1
  BY DEF Bit
<1>3. Bit(v, 8)
  BY DEF Bit
<1>4. Bit(v, 16) <=> b = 1
  BY DEF Bit
<1>5. Bit(v, 32) <=> c = 1
  BY DEF Bit
<1>6. Bit(v, 64) <=> d = 1
  BY DEF Bit
<1>7. Bit(v, 128) <=> e = 1
  BY DEF Bit
<1> QED BY <1>1, <1>2, <1>3, <1>4, <1>5, <1>6, <1>7

\* A movement of nine bits comes through.
LEMMA SignedRight ==
    ASSUME NEW d \in Int, ~(Abs(d) > 255)
    PROVE  Signed(d % 256, d < 0) = d
<1>1. d \in -255..255
  BY DEF Abs
<1>2. CASE d < 0
  <2>1. d % 256 = d + 256
    BY <1>1, <1>2
  <2> QED BY <1>2, <2>1 DEF Signed
<1>3. CASE ~(d < 0)
  <2>1. d % 256 = d
    BY <1>1, <1>3
  <2> QED BY <1>3, <2>1 DEF Signed
<1> QED BY <1>2, <1>3

LEMMA ClampInside ==
    ASSUME NEW n \in Nat \ {0}, NEW v \in Int
    PROVE  Clamp(v, n) \in 0..(n - 1) /\ (v \in 0..(n - 1) => Clamp(v, n) = v)
BY DEF Clamp

LEMMA ReportUnderstood ==
    ASSUME NEW dx \in Int, NEW dy \in Int, NEW l \in BOOLEAN, NEW e \in OnScreen,
           NEW first, first = 8 + Flag(l, 1) + Flag(dx < 0, 16) + Flag(dy < 0, 32)
                                + Flag(Abs(dx) > 255, 64) + Flag(Abs(dy) > 255, 128),
           NEW f, f = [x |-> IF Abs(dx) > 255 \/ Abs(dy) > 255 THEN e.x ELSE Clamp(e.x + dx, Width),
                       y |-> IF Abs(dx) > 255 \/ Abs(dy) > 255 THEN e.y ELSE Clamp(e.y - dy, Height),
                       left |-> l]
    PROVE  /\ first \in Int /\ Bit(first, 8)
           /\ dx % 256 \in Int /\ dy % 256 \in Int
           /\ f \in OnScreen
           /\ After(e, <<first, dx % 256>>, dy % 256) = f
<1> DEFINE far == Abs(dx) > 255 \/ Abs(dy) > 255
<1>1. /\ first \in Int /\ Bit(first, 8)
      /\ (Bit(first, 1) <=> l) /\ (Bit(first, 16) <=> dx < 0) /\ (Bit(first, 32) <=> dy < 0)
      /\ (Bit(first, 64) <=> Abs(dx) > 255) /\ (Bit(first, 128) <=> Abs(dy) > 255)
  <2>1. PICK a \in {0, 1} : Flag(l, 1) = a /\ (l <=> a = 1)
    BY DEF Flag
  <2>2. PICK b \in {0, 1} : Flag(dx < 0, 16) = 16 * b /\ (dx < 0 <=> b = 1)
    BY DEF Flag
  <2>3. PICK h \in {0, 1} : Flag(dy < 0, 32) = 32 * h /\ (dy < 0 <=> h = 1)
    BY DEF Flag
  <2>4. PICK m \in {0, 1} : Flag(Abs(dx) > 255, 64) = 64 * m /\ (Abs(dx) > 255 <=> m = 1)
    BY DEF Flag
  <2>5. PICK n \in {0, 1} : Flag(Abs(dy) > 255, 128) = 128 * n /\ (Abs(dy) > 255 <=> n = 1)
    BY DEF Flag
  <2>6. first = 8 + a + 16 * b + 32 * h + 64 * m + 128 * n
    BY <2>1, <2>2, <2>3, <2>4, <2>5
  <2>7. /\ first \in Int /\ Bit(first, 8)
        /\ (Bit(first, 1) <=> a = 1) /\ (Bit(first, 16) <=> b = 1) /\ (Bit(first, 32) <=> h = 1)
        /\ (Bit(first, 64) <=> m = 1) /\ (Bit(first, 128) <=> n = 1)
    BY <2>6, BitsOfSum
  <2> QED BY <2>1, <2>2, <2>3, <2>4, <2>5, <2>7
<1>2. e.x \in 0..(Width - 1) /\ e.y \in 0..(Height - 1) /\ e.x \in Int /\ e.y \in Int
  BY DesktopAssumption DEF OnScreen
<1>3. Width \in Nat \ {0} /\ Height \in Nat \ {0}
  BY DesktopAssumption
<1>4. f \in OnScreen
  <2>1. e.x + dx \in Int /\ e.y - dy \in Int
    BY <1>2
  <2>2. Clamp(e.x + dx, Width) \in 0..(Width - 1) /\ Clamp(e.y - dy, Height) \in 0..(Height - 1)
    BY <1>3, <2>1, ClampInside
  <2>3. CASE far
    BY <1>2, <2>3 DEF OnScreen
  <2>4. CASE ~far
    BY <2>2, <2>4 DEF OnScreen
  <2> QED BY <2>3, <2>4
<1>5. After(e, <<first, dx % 256>>, dy % 256) = f
  <2> DEFINE p == <<first, dx % 256>>
             overflow == Bit(p[1], 64) \/ Bit(p[1], 128)
             ex == IF overflow THEN 0 ELSE Signed(p[2], Bit(p[1], 16))
             ey == IF overflow THEN 0 ELSE Signed(dy % 256, Bit(p[1], 32))
  <2>1. p[1] = first /\ p[2] = dx % 256
    OBVIOUS
  <2>2. After(e, p, dy % 256) = [x |-> Clamp(e.x + ex, Width), y |-> Clamp(e.y - ey, Height),
                                  left |-> Bit(first, 1)]
    BY <2>1 DEF After
  <2>3. Bit(first, 1) = l
    BY <1>1 DEF Bit
  <2>4. CASE far
    <3>1. ex = 0 /\ ey = 0
      BY <1>1, <2>1, <2>4
    <3> HIDE DEF ex, ey
    <3>2. Clamp(e.x + ex, Width) = e.x /\ Clamp(e.y - ey, Height) = e.y
      <4>1. e.x + ex = e.x /\ e.y - ey = e.y
        BY <1>2, <3>1
      <4>2. Clamp(e.x, Width) = e.x /\ Clamp(e.y, Height) = e.y
        BY <1>2, <1>3, ClampInside
      <4> QED BY <4>1, <4>2
    <3> QED BY <2>2, <2>3, <2>4, <3>2
  <2>5. CASE ~far
    <3>1. ~Bit(first, 64) /\ ~Bit(first, 128) /\ ~(Abs(dx) > 255) /\ ~(Abs(dy) > 255)
      BY <1>1, <2>5
    <3>2. Signed(dx % 256, Bit(first, 16)) = dx
      <4>1. Signed(dx % 256, Bit(first, 16)) = Signed(dx % 256, dx < 0)
        BY <1>1 DEF Signed
      <4> QED BY <3>1, <4>1, SignedRight
    <3>3. Signed(dy % 256, Bit(first, 32)) = dy
      <4>1. Signed(dy % 256, Bit(first, 32)) = Signed(dy % 256, dy < 0)
        BY <1>1 DEF Signed
      <4> QED BY <3>1, <4>1, SignedRight
    <3>4. ex = dx /\ ey = dy
      BY <2>1, <3>1, <3>2, <3>3
    <3> HIDE DEF ex, ey
    <3> QED BY <2>2, <2>3, <2>5, <3>4
  <2> QED BY <2>4, <2>5
<1> QED BY <1>1, <1>4, <1>5

-----------------------------------------------------------------------------
(* The invariant of the pointer and its steps.                               *)

\* At most one answer to the request for the command byte waits, a true one.
AnswerDue ==
    /\ \A j \in 1..Len(port) : port[j].src = "ctl" => pc = "status" /\ port[j].val = ccb
    /\ \A i, j \in 1..Len(port) : port[i].src = "ctl" /\ port[j].src = "ctl" => i = j

PointerInv ==
    /\ there \in OnScreen
    /\ ~crossed => Bit(ccb, 1) /\ AnswerDue /\ Leads(port, packet, Now, there)

LEMMA PointerInit == Init => PointerInv
<1> SUFFICES ASSUME Init PROVE PointerInv
  OBVIOUS
<1>1. /\ mx = 0 /\ my = 0 /\ btn_left = FALSE /\ packet = <<>> /\ port = <<>> /\ ccb = Ccb0
      /\ there = [x |-> 0, y |-> 0, left |-> FALSE]
  BY DEF Init, MouseInit0
<1>2. there \in OnScreen
  BY <1>1, DesktopAssumption DEF OnScreen
<1>3. Len(port) = 0 /\ 1..Len(port) = {}
  BY <1>1
<1>5. there = Now
  BY <1>1 DEF Now
<1>4. Leads(port, <<>>, Now, Now)
  BY <1>3, LeadsStill DEF QuietFrom
<1> QED BY <1>1, <1>2, <1>3, <1>4, <1>5, DesktopAssumption DEF PointerInv, AnswerDue

LEMMA PointerKept ==
    ASSUME PointerInv, UNCHANGED <<mouse, port, ccb, there, crossed>>, pc # "status" \/ pc' = pc
    PROVE  PointerInv'
<1>1. UNCHANGED <<packet, port, ccb, there, crossed, mx, my, btn_left>>
  BY DEF mouse
<1>2. Now' = Now
  BY <1>1 DEF Now
<1>3. AnswerDue => AnswerDue'
  BY <1>1 DEF AnswerDue
<1> QED BY <1>1, <1>2, <1>3 DEF PointerInv

\* The head of the port and what is left of it.
LEMMA PortTail ==
    ASSUME MouseTypes, port # <<>>
    PROVE  /\ Len(port) \in Nat /\ Len(port) # 0 /\ Head(port) = port[1]
           /\ Tail(port) \in Seq(PortByte) /\ Len(Tail(port)) = Len(port) - 1
           /\ \A j \in 1..Len(Tail(port)) : Tail(port)[j] = port[j + 1]
BY DEF MouseTypes

\* What is due after a byte was taken, and after a byte of another kind has come.
LEMMA DueTaken ==
    ASSUME MouseTypes, port # <<>>, AnswerDue
    PROVE  /\ \A j \in 1..Len(Tail(port)) :
                  Tail(port)[j].src = "ctl" => pc = "status" /\ Tail(port)[j].val = ccb
           /\ \A i, j \in 1..Len(Tail(port)) :
                  Tail(port)[i].src = "ctl" /\ Tail(port)[j].src = "ctl" => i = j
           /\ Head(port).src = "ctl" => \A j \in 1..Len(Tail(port)) : Tail(port)[j].src # "ctl"
<1> DEFINE t == Tail(port)
           n == Len(port)
           m == Len(t)
<1>1. n \in Nat /\ m = n - 1 /\ n >= 1 /\ Head(port) = port[1] /\ \A j \in 1..m : t[j] = port[j + 1]
  BY PortTail
<1>2. /\ \A j \in 1..n : port[j].src = "ctl" => pc = "status" /\ port[j].val = ccb
      /\ \A i, j \in 1..n : port[i].src = "ctl" /\ port[j].src = "ctl" => i = j
  BY DEF AnswerDue
<1> HIDE DEF t, n, m
<1>3. \A j \in 1..m : j + 1 \in 1..n /\ j + 1 # 1
  BY <1>1
<1>4. 1 \in 1..n
  BY <1>1
<1>5. \A j \in 1..m : t[j].src = "ctl" => pc = "status" /\ t[j].val = ccb
  BY <1>1, <1>2, <1>3
<1>6. ASSUME NEW i \in 1..m, NEW j \in 1..m, t[i].src = "ctl", t[j].src = "ctl" PROVE i = j
  <2>1. i + 1 = j + 1
    BY <1>1, <1>2, <1>3, <1>6
  <2> QED BY <2>1
<1>7. ASSUME Head(port).src = "ctl", NEW j \in 1..m PROVE t[j].src # "ctl"
  BY <1>1, <1>2, <1>3, <1>4, <1>7
<1> QED BY <1>5, <1>6, <1>7 DEF t, m

\* A byte that its own reader decodes, or that is of no concern to the mouse.
LEMMA PointerTaken ==
    ASSUME MouseTypes, PointerInv, port # <<>>, port' = Tail(port),
           ccb' = ccb, there' = there, pc' = pc,
           ~crossed' => ~crossed /\ \A q, b : Fed(packet, Now, Head(port), q, b) => packet' = q /\ Now' = b
    PROVE  PointerInv'
<1> SUFFICES ASSUME ~crossed' PROVE Bit(ccb, 1) /\ AnswerDue' /\ Leads(port', packet', Now', there)
  BY DEF PointerInv
<1>1. Bit(ccb, 1) /\ AnswerDue /\ Leads(port, packet, Now, there)
  BY DEF PointerInv
<1>2. PICK q, b : Fed(packet, Now, Head(port), q, b) /\ Leads(port', q, b, there)
  BY <1>1, PortTail, LeadsOn
<1>3. packet' = q /\ Now' = b
  BY <1>2
<1>4. AnswerDue'
  BY <1>1, DueTaken DEF AnswerDue
<1> QED BY <1>1, <1>2, <1>3, <1>4

LEMMA PointerOutside ==
    ASSUME MouseTypes, PointerInv, Outside
    PROVE  PointerInv'
<1>0. pc' = pc
  BY DEF Outside
<1>1. CASE Report
  <2> DEFINE s == Head(moves)
             dx == s.x - mx
             dy == my - s.y
             first == 8 + Flag(s.left, 1) + Flag(dx < 0, 16) + Flag(dy < 0, 32)
                        + Flag(Abs(dx) > 255, 64) + Flag(Abs(dy) > 255, 128)
             f == [x |-> IF Abs(dx) > 255 \/ Abs(dy) > 255 THEN there.x ELSE Clamp(there.x + dx, Width),
                   y |-> IF Abs(dx) > 255 \/ Abs(dy) > 255 THEN there.y ELSE Clamp(there.y - dy, Height),
                   left |-> s.left]
             b1 == Byte("aux", first)
             b2 == Byte("aux", dx % 256)
             b3 == Byte("aux", dy % 256)
  <2>1. /\ port' = port \o <<b1, b2, b3>> /\ there' = f
        /\ UNCHANGED mouse /\ ccb' = ccb /\ crossed' = crossed
    BY <1>1 DEF Report
  <2>2. s \in Point
    BY <1>1 DEF Report, MouseTypes
  <2>3. dx \in Int /\ dy \in Int /\ s.left \in BOOLEAN
    <3>1. s.x \in Int /\ s.y \in Int /\ s.left \in BOOLEAN
      BY <2>2 DEF Point
    <3> HIDE DEF s
    <3> QED BY <3>1 DEF MouseTypes
  <2>4. there \in OnScreen
    BY DEF PointerInv
  <2> HIDE DEF s, dx, dy
  <2>5. /\ first \in Int /\ Bit(first, 8) /\ dx % 256 \in Int /\ dy % 256 \in Int
        /\ f \in OnScreen /\ After(there, <<first, dx % 256>>, dy % 256) = f
    <3>1. PICK l \in BOOLEAN, ex \in Int, ey \in Int : l = s.left /\ ex = dx /\ ey = dy
      BY <2>3
    <3>2. first = 8 + Flag(l, 1) + Flag(ex < 0, 16) + Flag(ey < 0, 32)
                    + Flag(Abs(ex) > 255, 64) + Flag(Abs(ey) > 255, 128)
      BY <3>1
    <3>3. f = [x |-> IF Abs(ex) > 255 \/ Abs(ey) > 255 THEN there.x ELSE Clamp(there.x + ex, Width),
               y |-> IF Abs(ex) > 255 \/ Abs(ey) > 255 THEN there.y ELSE Clamp(there.y - ey, Height),
               left |-> l]
      BY <3>1
    <3> HIDE DEF first, f
    <3>4. /\ first \in Int /\ Bit(first, 8) /\ ex % 256 \in Int /\ ey % 256 \in Int
          /\ f \in OnScreen /\ After(there, <<first, ex % 256>>, ey % 256) = f
      BY <2>4, <3>2, <3>3, ReportUnderstood
    <3> QED BY <3>1, <3>4
  <2> HIDE DEF first, f
  <2>6. /\ b1.src = "aux" /\ b2.src = "aux" /\ b3.src = "aux"
        /\ b1.val = first /\ b2.val = dx % 256 /\ b3.val = dy % 256
        /\ b1 \in PortByte /\ b2 \in PortByte /\ b3 \in PortByte
    BY <2>5 DEF Byte, PortByte
  <2> HIDE DEF b1, b2, b3
  <2>7. /\ Len(port) \in Nat /\ Len(port') = Len(port) + 3
        /\ \A j \in 1..Len(port) : port'[j] = port[j]
        /\ port'[Len(port) + 1] = b1 /\ port'[Len(port) + 2] = b2 /\ port'[Len(port) + 3] = b3
    BY <2>1, <2>6 DEF MouseTypes
  <2>8. packet' = packet /\ Now' = Now
    BY <2>1 DEF mouse, Now
  <2>9. ASSUME ~crossed PROVE AnswerDue' /\ Leads(port', packet, Now, f)
    <3>1. AnswerDue /\ Leads(port, packet, Now, there)
      BY <2>9 DEF PointerInv
    <3>2. Leads(port', packet, Now, After(there, <<b1.val, b2.val>>, b3.val))
      <4>1. Bit(b1.val, 8) /\ b1.val \in Int /\ b2.val \in Int
        BY <2>5, <2>6
      <4> QED BY <2>6, <2>7, <3>1, <4>1, LeadsReport
    <3>3. \A j \in 1..Len(port') : j \in 1..Len(port) \/ port'[j].src = "aux"
      <4>1. \A j \in 1..Len(port') : j \in 1..Len(port) \/ j = Len(port) + 1 \/ j = Len(port) + 2
                                       \/ j = Len(port) + 3
        BY <2>7
      <4> QED BY <2>6, <2>7, <4>1
    <3>4. AnswerDue'
      <4>1. \A j \in 1..Len(port') : port'[j].src = "ctl" => j \in 1..Len(port) /\ port'[j] = port[j]
        BY <2>7, <3>3
      <4>2. ccb' = ccb
        BY <2>1
      <4> QED BY <1>0, <3>1, <4>1, <4>2 DEF AnswerDue
    <3> QED BY <2>5, <2>6, <3>2, <3>4
  <2> QED BY <2>1, <2>5, <2>8, <2>9 DEF PointerInv
<1>2. CASE PressKey
  <2>1. /\ port' = Append(port, [src |-> "key", val |-> Scan[Head(typing)], key |-> Head(typing)])
        /\ UNCHANGED mouse /\ UNCHANGED <<ccb, there, crossed>>
    BY <1>2 DEF PressKey
  <2>2. PICK b : port' = Append(port, b) /\ b.src = "key"
    BY <2>1
  <2>3. /\ Len(port) \in Nat /\ Len(port') = Len(port) + 1
        /\ \A j \in 1..Len(port) : port'[j] = port[j]
        /\ port'[Len(port) + 1] = b
    BY <2>2 DEF MouseTypes
  <2>4. packet' = packet /\ Now' = Now
    BY <2>1 DEF mouse, Now
  <2>5. ASSUME ~crossed PROVE AnswerDue' /\ Leads(port', packet, Now, there)
    <3>1. AnswerDue /\ Leads(port, packet, Now, there)
      BY <2>5 DEF PointerInv
    <3>2. Leads(port', packet, Now, there)
      BY <2>2, <2>3, <3>1, LeadsQuiet
    <3>3. \A j \in 1..Len(port') : j \in 1..Len(port) \/ port'[j].src = "key"
      <4>1. \A j \in 1..Len(port') : j \in 1..Len(port) \/ j = Len(port) + 1
        BY <2>3
      <4> QED BY <2>2, <2>3, <4>1
    <3>4. AnswerDue'
      BY <1>0, <2>1, <2>3, <3>1, <3>3 DEF AnswerDue
    <3> QED BY <3>2, <3>4
  <2> QED BY <2>1, <2>4, <2>5 DEF PointerInv
<1>3. CASE MouseIrq
  <2>1. /\ port # <<>> /\ port' = Tail(port) /\ ccb' = ccb /\ there' = there
        /\ crossed' = (crossed \/ Head(port).src = "ack") /\ Head(port).src \in {"aux", "ack"}
        /\ Callback(Head(port).val)
    BY <1>3 DEF MouseIrq, FromMouse, Taken, hands
  <2>2. ASSUME ~crossed', NEW q, NEW b, Fed(packet, Now, Head(port), q, b)
        PROVE  packet' = q /\ Now' = b
    <3>1. Head(port).src = "aux"
      BY <2>1, <2>2
    <3>2. CASE Len(packet) < 2
      <4>1. q = Append(packet, Head(port).val) /\ b = Now
            /\ (packet = <<>> => Bit(Head(port).val, 8))
        BY <2>2, <3>1, <3>2 DEF Fed
      <4>2. packet' = Append(packet, Head(port).val) /\ UNCHANGED <<mx, my, btn_left>>
        BY <2>1, <3>2, <4>1 DEF Callback
      <4> QED BY <4>1, <4>2 DEF Now
    <3>3. CASE ~(Len(packet) < 2)
      <4>1. q = <<>> /\ b = After(Now, packet, Head(port).val)
        BY <2>2, <3>1, <3>3 DEF Fed
      <4>2. packet' = <<>> /\ Moved(Head(port).val)
        BY <2>1, <3>3 DEF Callback
      <4>3. Now' = After(Now, packet, Head(port).val)
        BY <4>2 DEF Now, After, Moved
      <4> QED BY <4>1, <4>2, <4>3
    <3> QED BY <3>2, <3>3
  <2>3. ~crossed' => ~crossed
    BY <2>1
  <2> QED BY <1>0, <2>1, <2>2, <2>3, PointerTaken
<1>4. CASE KeyboardIrq
  <2>1. /\ port # <<>> /\ port' = Tail(port) /\ ccb' = ccb /\ there' = there
        /\ crossed' = crossed /\ Head(port).src \notin {"aux", "ack"} /\ UNCHANGED mouse
    BY <1>4 DEF KeyboardIrq, FromMouse, Taken, hands
  <2>2. packet' = packet /\ Now' = Now
    BY <2>1 DEF mouse, Now
  <2>3. ASSUME NEW q, NEW b, Fed(packet, Now, Head(port), q, b)
        PROVE  packet' = q /\ Now' = b
    BY <2>1, <2>2, <2>3 DEF Fed
  <2> QED BY <1>0, <2>1, <2>3, PointerTaken
<1> QED BY <1>1, <1>2, <1>3, <1>4 DEF Outside

\* The keyboard's bit of the command byte survives what mouse_init does to it.
LEMMA KeyboardStays ==
    ASSUME NEW v \in Int, Bit(v, 1)
    PROVE  Bit(With(v, 2), 1) /\ Bit(Without(v, 32), 1)
<1>1. With(v, 2) \in {v, v + 2} /\ Without(v, 32) \in {v, v - 32}
  BY DEF With, Without, Flag
<1>2. (v \div 1) % 2 = 1
  BY DEF Bit
<1>3. ((v + 2) \div 1) % 2 = 1 /\ ((v - 32) \div 1) % 2 = 1
  BY <1>2
<1> QED BY <1>1, <1>2, <1>3 DEF Bit

LEMMA PointerReset ==
    ASSUME MouseTypes, PointerInv, MouseInit \/ ResetY \/ ResetCycle \/ ResetLeft,
           pc # "status"
    PROVE  PointerInv'
<1>1. /\ crossed' = (crossed \/ packet # <<>> \/ \E i \in DOMAIN port : port[i].src = "aux")
      /\ port' = port /\ ccb' = ccb /\ packet' \in {packet, <<>>}
  BY DEF MouseInit, ResetY, ResetCycle, ResetLeft, Reset, device
<1>2. there' \in OnScreen
  <2>1. Width \div 2 \in 0..(Width - 1) /\ Height \div 2 \in 0..(Height - 1)
    BY DesktopAssumption
  <2> QED BY <2>1 DEF MouseInit, ResetY, ResetCycle, ResetLeft, PointerInv, OnScreen
<1>3. ASSUME ~crossed' PROVE Bit(ccb, 1)' /\ AnswerDue' /\ Leads(port', packet', Now', there')
  <2>1. ~crossed /\ packet = <<>> /\ \A i \in DOMAIN port : port[i].src # "aux"
    BY <1>1, <1>3
  <2>2. Bit(ccb, 1) /\ AnswerDue /\ Leads(port, packet, Now, there)
    BY <2>1 DEF PointerInv
  <2>3. Len(port) \in Nat /\ DOMAIN port = 1..Len(port)
    BY DEF MouseTypes
  <2>4. QuietFrom(port, 1)
    BY <2>1, <2>3 DEF QuietFrom
  <2>5. there = Now
    BY <2>2, <2>3, <2>4, LeadsNowhere
  <2>6. there' = Now'
    BY <2>5 DEF MouseInit, ResetY, ResetCycle, ResetLeft, Now
  <2>7. Leads(port', packet', Now', there')
    BY <1>1, <2>1, <2>3, <2>4, <2>6, LeadsStill
  <2>8. AnswerDue'
    BY <1>1, <2>2 DEF AnswerDue
  <2>9. Bit(ccb, 1)'
    BY <1>1, <2>2 DEF Bit
  <2> QED BY <2>7, <2>8, <2>9
<1> QED BY <1>2, <1>3 DEF PointerInv

LEMMA PointerAsked ==
    ASSUME MouseTypes, PointerInv, AskStatus
    PROVE  PointerInv'
<1> DEFINE n == Len(port)
           b == Byte("ctl", ccb')
<1>1. /\ UNCHANGED <<packet, mx, my, btn_left, there, crossed>>
      /\ ccb' = Without(ccb, 32) /\ port' = Append(port, b)
      /\ pc = "reset" /\ pc' = "status"
  BY DEF AskStatus, mouse, hands
<1>2. Now' = Now
  BY <1>1 DEF Now
<1>3. b.src = "ctl" /\ b.val = ccb'
  BY DEF Byte
<1> HIDE DEF b
<1>4. /\ n \in Nat /\ Len(port') = n + 1
      /\ \A j \in 1..n : port'[j] = port[j]
      /\ port'[n + 1] = b
  BY <1>1 DEF MouseTypes
<1>5. \A j \in 1..(n + 1) : j \in 1..n \/ j = n + 1
  BY <1>4
<1>6. ASSUME ~crossed' PROVE Bit(ccb, 1)' /\ AnswerDue' /\ Leads(port', packet', Now', there')
  <2>1. Bit(ccb, 1) /\ AnswerDue /\ Leads(port, packet, Now, there)
    BY <1>1, <1>6 DEF PointerInv
  <2>2. Bit(ccb, 1)'
    <3>1. ccb \in Int
      BY DEF MouseTypes
    <3>2. Bit(ccb', 1)
      BY <1>1, <2>1, <3>1, KeyboardStays
    <3> QED BY <3>2 DEF Bit
  <2>3. \A j \in 1..n : port[j].src # "ctl"
    BY <1>1, <2>1 DEF AnswerDue
  <2>4. \A j \in 1..Len(port') : port'[j].src = "ctl" => j = n + 1
    BY <1>4, <1>5, <2>3
  <2>5. AnswerDue'
    BY <1>1, <1>3, <1>4, <2>4 DEF AnswerDue
  <2>6. Leads(port', packet, Now, there)
    BY <1>3, <1>4, <2>1, LeadsQuiet
  <2> QED BY <1>1, <1>2, <2>2, <2>5, <2>6
<1>7. there' \in OnScreen
  BY <1>1 DEF PointerInv
<1> QED BY <1>6, <1>7 DEF PointerInv

\* A poll that meets the answer it asked for leaves the packets alone.
LEMMA AnswerRead ==
    ASSUME MouseTypes, PointerInv, ~crossed, NEW s \in {"ctl", "ack"}, NEW v, Meant(s, v)
    PROVE  /\ Rest \in Seq(PortByte) /\ Leads(Rest, packet, Now, there)
           /\ \A j \in 1..Len(Rest) : Rest[j].src = "ctl" => s # "ctl" /\ pc = "status" /\ Rest[j].val = ccb
           /\ \A i, j \in 1..Len(Rest) : Rest[i].src = "ctl" /\ Rest[j].src = "ctl" => i = j
           /\ s = "ctl" /\ v = ccb => Answer = ccb
<1>1. Leads(port, packet, Now, there) /\ AnswerDue
  BY DEF PointerInv
<1>2. CASE port = <<>>
  <2>1. Rest = <<>> /\ port = Rest /\ Answer = latch /\ latch = v
    BY <1>2 DEF Rest, Answer, Meant
  <2>2. Rest \in Seq(PortByte) /\ 1..Len(Rest) = {}
    BY <2>1
  <2> QED BY <1>1, <2>1, <2>2
<1>3. CASE port # <<>>
  <2>1. Rest = Tail(port) /\ Answer = Head(port).val /\ Head(port).src = s
    BY <1>3 DEF Rest, Answer, Meant
  <2>2. Leads(Rest, packet, Now, there)
    <3>1. PICK q, b : Fed(packet, Now, Head(port), q, b) /\ Leads(Rest, q, b, there)
      BY <1>1, <1>3, <2>1, PortTail, LeadsOn
    <3>2. Head(port).src # "aux"
      BY <2>1
    <3>3. q = packet /\ b = Now
      BY <3>1, <3>2 DEF Fed
    <3> QED BY <3>1, <3>3
  <2>3. Rest \in Seq(PortByte)
    BY <1>3, <2>1, PortTail
  <2>4. /\ \A j \in 1..Len(Rest) : Rest[j].src = "ctl" => pc = "status" /\ Rest[j].val = ccb
        /\ \A i, j \in 1..Len(Rest) : Rest[i].src = "ctl" /\ Rest[j].src = "ctl" => i = j
        /\ s = "ctl" => \A j \in 1..Len(Rest) : Rest[j].src # "ctl"
    BY <1>1, <1>3, <2>1, DueTaken
  <2>5. s = "ctl" => Answer = ccb
    <3>1. 1 \in 1..Len(port) /\ Head(port) = port[1]
      BY <1>3, PortTail
    <3> QED BY <1>1, <2>1, <3>1 DEF AnswerDue
  <2> QED BY <2>2, <2>3, <2>4, <2>5
<1> QED BY <1>2, <1>3

\* An acknowledgement comes behind what the poll left.
LEMMA AckComes ==
    ASSUME NEW t \in Seq(PortByte), NEW p, NEW a, NEW e, Leads(t, p, a, e),
           NEW u, u = Append(t, Byte("ack", ACK)), \A j \in 1..Len(t) : t[j].src # "ctl"
    PROVE  Leads(u, p, a, e) /\ \A j \in 1..Len(u) : u[j].src # "ctl"
<1>1. Byte("ack", ACK).src = "ack" /\ Byte("ack", ACK) \in PortByte
  BY DEF Byte, PortByte, ACK
<1>2. PICK b \in PortByte : b.src = "ack" /\ u = Append(t, b)
  BY <1>1
<1>3. /\ Len(t) \in Nat /\ Len(u) = Len(t) + 1
      /\ \A j \in 1..Len(t) : u[j] = t[j]
      /\ u[Len(t) + 1] = b
  BY <1>2
<1>4. Leads(u, p, a, e)
  BY <1>2, <1>3, LeadsQuiet
<1>5. \A j \in 1..Len(u) : j \in 1..Len(t) \/ j = Len(t) + 1
  BY <1>3
<1> QED BY <1>2, <1>3, <1>4, <1>5

LEMMA PointerPolled ==
    ASSUME MouseTypes, PointerInv, SetDefaults \/ Enable \/ OpenIrq
    PROVE  PointerInv'
<1>1. /\ UNCHANGED <<packet, mx, my, btn_left, there>>
      /\ ~crossed' => ~crossed
  BY DEF SetDefaults, Enable, OpenIrq, mouse, hands
<1>2. Now' = Now
  BY <1>1 DEF Now
<1>3. there' \in OnScreen
  BY <1>1 DEF PointerInv
<1> SUFFICES ASSUME ~crossed' PROVE Bit(ccb', 1) /\ AnswerDue' /\ Leads(port', packet, Now, there)
  BY <1>1, <1>2, <1>3 DEF PointerInv, Bit
<1>4. ~crossed /\ Bit(ccb, 1)
  BY <1>1 DEF PointerInv
<1>5. CASE SetDefaults
  <2>1. /\ Meant("ctl", ccb) /\ ccb' = Without(With(Answer, 2), 32)
        /\ port' = Append(Rest, Byte("ack", ACK))
    BY <1>5 DEF SetDefaults
  <2>2. /\ Rest \in Seq(PortByte) /\ Leads(Rest, packet, Now, there)
        /\ \A j \in 1..Len(Rest) : Rest[j].src # "ctl"
        /\ Answer = ccb
    BY <1>4, <2>1, AnswerRead
  <2>3. /\ Leads(port', packet, Now, there)
        /\ \A j \in 1..Len(port') : port'[j].src # "ctl"
    BY <2>1, <2>2, AckComes
  <2>4. Bit(ccb', 1)
    <3>1. ccb \in Int
      BY DEF MouseTypes
    <3>2. Bit(With(ccb, 2), 1) /\ With(ccb, 2) \in Int
      BY <1>4, <3>1, KeyboardStays, BitsType
    <3> QED BY <2>1, <2>2, <3>2, KeyboardStays
  <2> QED BY <2>3, <2>4 DEF AnswerDue
<1>6. CASE Enable
  <2>1. /\ Meant("ack", ACK) /\ ccb' = ccb /\ pc = "ackF6"
        /\ port' = Append(Rest, Byte("ack", ACK))
    BY <1>6 DEF Enable
  <2>2. /\ Rest \in Seq(PortByte) /\ Leads(Rest, packet, Now, there)
        /\ \A j \in 1..Len(Rest) : Rest[j].src # "ctl"
    BY <1>4, <2>1, AnswerRead
  <2>3. /\ Leads(port', packet, Now, there)
        /\ \A j \in 1..Len(port') : port'[j].src # "ctl"
    BY <2>1, <2>2, AckComes
  <2> QED BY <1>4, <2>1, <2>3 DEF AnswerDue
<1>7. CASE OpenIrq
  <2>1. Meant("ack", ACK) /\ ccb' = ccb /\ pc = "ackF4" /\ port' = Rest
    BY <1>7 DEF OpenIrq
  <2>2. /\ Leads(Rest, packet, Now, there)
        /\ \A j \in 1..Len(Rest) : Rest[j].src # "ctl"
    BY <1>4, <2>1, AnswerRead
  <2> QED BY <1>4, <2>1, <2>2 DEF AnswerDue
<1> QED BY <1>5, <1>6, <1>7

LEMMA PointerStep == DesktopInv /\ PointerInv /\ [Next]_vars => PointerInv'
<1> SUFFICES ASSUME DesktopInv, PointerInv, [Next]_vars PROVE PointerInv'
  OBVIOUS
<1>0. MouseTypes
  BY DEF DesktopInv
<1>1. CASE Outside
  BY <1>0, <1>1, PointerOutside
<1>2. CASE Gui
  BY <1>0, <1>2, PointerReset DEF Gui
<1>3. CASE Poll
  BY <1>0, <1>3, PointerReset, PointerAsked, PointerPolled
     DEF Poll, ResetY, ResetCycle, ResetLeft
<1>4. CASE Nest
  BY <1>0, <1>4, PointerReset DEF Nest
<1>5. ASSUME NEW k, NEW next, Got(k, next) PROVE PointerInv'
  BY <1>5, PointerKept DEF Got, device, hands
<1>6. CASE NoKey \/ Leave \/ Switch \/ OwnWord \/ Execute
  BY <1>5, <1>6, PointerKept DEF NoKey, Leave, Switch, OwnWord, Execute, mouseVars, device, hands
<1>7. ASSUME NEW k \in DOMAIN Scan, Write(k) \/ MoveByKey(k) PROVE PointerInv'
  BY <1>5, <1>7 DEF Write, MoveByKey
<1>8. CASE ShellKey
  BY <1>8, PointerKept DEF ShellKey, device, hands
<1>9. CASE Setup \/ Return \/ ReadX \/ ReadY
  BY <1>9, PointerKept DEF Setup, Return, ReadX, ReadY, mouseVars, device, hands
<1>10. CASE Act
  <2>1. UNCHANGED mouseVars /\ pc = "act"
    BY <1>10 DEF Act
  <2> QED BY <2>1, PointerKept DEF mouseVars, device, hands
<1>11. CASE UNCHANGED vars
  BY <1>11, PointerKept DEF vars, mouseVars, device, hands
<1> QED BY <1>1, <1>2, <1>3, <1>4, <1>6, <1>7, <1>8, <1>9, <1>10, <1>11 DEF Next, Keyed

\* mouse.c: as long as no byte of an initialisation was taken by another reader
\* and no report torn by its resets, no byte of a packet is lost, doubled or
\* taken for another and the keyboard stays enabled, however long the user and
\* the desktop go on.
THEOREM PointerFollows == Spec => []PointerFollowsHand
<1>1. DesktopInv /\ PointerInv => PointerFollowsHand
  <2> SUFFICES ASSUME DesktopInv, PointerInv, ~crossed
               PROVE  /\ Bit(ccb, 1)
                      /\ (packet = <<>> /\ \A i \in DOMAIN port : port[i].src # "aux")
                           => there = [x |-> mx, y |-> my, left |-> btn_left]
    BY DEF PointerFollowsHand
  <2>1. Bit(ccb, 1) /\ Leads(port, packet, Now, there)
    BY DEF PointerInv
  <2>2. Len(port) \in Nat /\ DOMAIN port = 1..Len(port)
    BY DEF DesktopInv, MouseTypes
  <2>3. ASSUME \A i \in DOMAIN port : port[i].src # "aux" PROVE there = Now
    <3>1. QuietFrom(port, 1)
      BY <2>2, <2>3 DEF QuietFrom
    <3> QED BY <2>1, <2>2, <3>1, LeadsNowhere
  <2> QED BY <2>1, <2>3 DEF Now
<1> QED BY <1>1, PointerInit, PointerStep, DesktopInvInit, DesktopInvHolds, PTL DEF Spec

-----------------------------------------------------------------------------
(* Bounds.  The texts stay in their arrays and the bytes and keys under way  *)
(* in their buffers.                                                         *)

LEMMA MaxMinOfTwo ==
    ASSUME NEW a \in Int, NEW b \in Int
    PROVE  /\ Max({a, b}) \in {a, b} /\ a <= Max({a, b}) /\ b <= Max({a, b})
           /\ Min({a, b}) \in {a, b} /\ Min({a, b}) <= a /\ Min({a, b}) <= b
<1>1. \E x \in {a, b} : \A y \in {a, b} : x >= y
  OBVIOUS
<1>2. \E x \in {a, b} : \A y \in {a, b} : x <= y
  OBVIOUS
<1>3. Max({a, b}) \in {a, b} /\ \A y \in {a, b} : Max({a, b}) >= y
  BY <1>1 DEF Max
<1>4. Min({a, b}) \in {a, b} /\ \A y \in {a, b} : Min({a, b}) <= y
  BY <1>2 DEF Min
<1> QED BY <1>3, <1>4

\* The command byte stays a byte.
LEMMA ByteKept ==
    ASSUME NEW v \in 0..255
    PROVE  With(v, 2) \in 0..255 /\ Without(v, 32) \in 0..255
<1>1. ~Bit(v, 2) => v + 2 <= 255
  BY DEF Bit
<1>2. Bit(v, 32) => v - 32 >= 0
  BY DEF Bit
<1> HIDE DEF Bit
<1> QED BY <1>1, <1>2 DEF With, Without, Flag

\* The keys among the bytes s.
KeysIn(s) == Cardinality({i \in DOMAIN s : s[i].src = "key"})

LEMMA KeysCounted ==
    ASSUME NEW s \in Seq(PortByte)
    PROVE  /\ IsFiniteSet({i \in DOMAIN s : s[i].src = "key"})
           /\ KeysIn(s) \in Nat
<1> DEFINE K == {i \in DOMAIN s : s[i].src = "key"}
<1>1. IsFiniteSet(1..Len(s)) /\ K \in SUBSET (1..Len(s))
  BY FS_Interval
<1>2. IsFiniteSet(K)
  BY <1>1, FS_Subset
<1> QED BY <1>2, FS_CardinalityType DEF KeysIn

LEMMA KeysAppended ==
    ASSUME NEW s \in Seq(PortByte), NEW e \in PortByte
    PROVE  /\ Append(s, e) \in Seq(PortByte)
           /\ KeysIn(Append(s, e)) = KeysIn(s) + (IF e.src = "key" THEN 1 ELSE 0)
<1> DEFINE t == Append(s, e)
           n == Len(s) + 1
           K == {i \in DOMAIN s : s[i].src = "key"}
           L == {i \in DOMAIN t : t[i].src = "key"}
<1>1. /\ DOMAIN s = 1..Len(s) /\ Len(s) \in Nat /\ DOMAIN t = 1..n /\ t \in Seq(PortByte)
      /\ t[n] = e /\ \A i \in 1..Len(s) : t[i] = s[i]
  OBVIOUS
<1>2. IsFiniteSet(K) /\ n \notin K
  BY <1>1, KeysCounted
<1> HIDE DEF t
<1>3. L = IF e.src = "key" THEN K \cup {n} ELSE K
  <2>1. \A i \in 1..n : i = n \/ i \in 1..Len(s)
    BY <1>1
  <2>2. \A i : i \in L <=> (i \in K \/ (i = n /\ e.src = "key"))
    BY <1>1, <2>1
  <2> QED BY <2>2
<1>4. Cardinality(L) = Cardinality(K) + (IF e.src = "key" THEN 1 ELSE 0)
  <2> HIDE DEF K, L, n
  <2>1. Cardinality(K \cup {n}) = Cardinality(K) + 1 /\ Cardinality(K) \in Nat
    BY <1>2, FS_AddElement, FS_CardinalityType
  <2> QED BY <1>3, <2>1
<1> QED BY <1>1, <1>4 DEF KeysIn, t

LEMMA KeysRest ==
    ASSUME NEW s \in Seq(PortByte), s # <<>>
    PROVE  /\ Tail(s) \in Seq(PortByte) /\ Head(s) \in PortByte /\ Len(Tail(s)) = Len(s) - 1
           /\ Len(s) \in Nat \ {0} /\ Head(s) = s[1]
           /\ \A i \in 1..(Len(s) - 1) : Tail(s)[i] = s[i + 1]
           /\ KeysIn(Tail(s)) = KeysIn(s) - (IF Head(s).src = "key" THEN 1 ELSE 0)
<1> DEFINE t == Tail(s)
           n == Len(s)
           K == {i \in DOMAIN s : s[i].src = "key"}
           L == {i \in DOMAIN t : t[i].src = "key"}
           f == [i \in L |-> i + 1]
<1>1. /\ DOMAIN s = 1..n /\ n \in Nat \ {0} /\ DOMAIN t = 1..(n - 1) /\ t \in Seq(PortByte)
      /\ Len(t) = n - 1 /\ Head(s) = s[1] /\ s[1] \in PortByte
      /\ \A i \in 1..(n - 1) : t[i] = s[i + 1]
  OBVIOUS
<1>2. IsFiniteSet(K) /\ IsFiniteSet(L)
  BY <1>1, KeysCounted
<1> HIDE DEF t, n
<1>3. f \in Bijection(L, K \ {1})
  <2>1. f \in [L -> K \ {1}]
    BY <1>1
  <2>2. \A a, b \in L : f[a] = f[b] => a = b
    BY <1>1
  <2>3. ASSUME NEW k \in K \ {1} PROVE \E a \in L : f[a] = k
    <3>1. k - 1 \in L
      BY <1>1, <2>3
    <3>2. f[k - 1] = k
      BY <1>1, <3>1
    <3> QED BY <3>1, <3>2
  <2> HIDE DEF f, K, L
  <2> QED BY <2>1, <2>2, <2>3, Fun_IsBij
<1>4. Cardinality(L) = Cardinality(K \ {1})
  <2> HIDE DEF f, K, L
  <2> QED BY <1>2, <1>3, FS_Bijection DEF ExistsBijection
<1>5. Cardinality(L) = Cardinality(K) - (IF s[1].src = "key" THEN 1 ELSE 0)
  <2>1. 1 \in K <=> s[1].src = "key"
    BY <1>1
  <2> HIDE DEF K, L
  <2>2. Cardinality(K \ {1}) = IF 1 \in K THEN Cardinality(K) - 1 ELSE Cardinality(K)
    BY <1>2, FS_RemoveElement
  <2>3. Cardinality(K) \in Nat
    BY <1>2, FS_CardinalityType
  <2> QED BY <1>4, <2>1, <2>2, <2>3
<1> QED BY <1>1, <1>5 DEF KeysIn, t, n
Polling == pc \in {"status", "ackF6", "ackF4"}

\* What is in the controller are bytes, and no more than fit; an answer may come
\* on top of a full port while mouse_init waits for it.
PortBounds ==
    /\ \A i \in DOMAIN port : port[i].val \in 0..255
    /\ latch \in 0..255 /\ ccb \in 0..255
    /\ irq12 \in BOOLEAN /\ streaming \in BOOLEAN
    /\ Len(packet) <= 2
    /\ Len(port) <= PortSize + 1 /\ (~Polling => Len(port) <= PortSize)
    /\ keys \in Seq(DOMAIN Scan) /\ Len(keys) + KeysIn(port) <= KeySize

OnWidth(v) == v \in 0..(Width - 1)
OnHeight(v) == v \in 0..(Height - 1)
Places == OnWidth(mx) /\ OnHeight(my) /\ OnWidth(mxp) /\ OnHeight(myp)

\* A byte that comes, and one that goes.
LEMMA PortGrows ==
    ASSUME NEW s \in Seq(PortByte), \A i \in DOMAIN s : s[i].val \in 0..255,
           NEW e \in PortByte, e.val \in 0..255
    PROVE  /\ \A i \in DOMAIN Append(s, e) : Append(s, e)[i].val \in 0..255
           /\ Len(Append(s, e)) = Len(s) + 1 /\ Append(s, e) \in Seq(PortByte)
<1> DEFINE t == Append(s, e)
<1>1. /\ DOMAIN t = 1..(Len(s) + 1) /\ t[Len(s) + 1] = e /\ Len(s) \in Nat
      /\ \A i \in 1..Len(s) : t[i] = s[i]
      /\ DOMAIN s = 1..Len(s) /\ Len(t) = Len(s) + 1 /\ t \in Seq(PortByte)
  OBVIOUS
<1> HIDE DEF t
<1>2. ASSUME NEW i \in 1..(Len(s) + 1) PROVE t[i].val \in 0..255
  <2>1. CASE i = Len(s) + 1
    BY <1>1, <2>1
  <2>2. CASE i # Len(s) + 1
    <3>1. i \in 1..Len(s)
      BY <1>1, <2>2
    <3> QED BY <1>1, <3>1
  <2> QED BY <2>1, <2>2
<1> QED BY <1>1, <1>2 DEF t

LEMMA PortShrinks ==
    ASSUME NEW s \in Seq(PortByte), \A i \in DOMAIN s : s[i].val \in 0..255, s # <<>>
    PROVE  /\ \A i \in DOMAIN Tail(s) : Tail(s)[i].val \in 0..255
           /\ Len(Tail(s)) = Len(s) - 1 /\ Tail(s) \in Seq(PortByte)
           /\ Head(s).val \in 0..255
<1> DEFINE t == Tail(s)
<1>1. /\ t \in Seq(PortByte) /\ Head(s) = s[1] /\ Len(t) = Len(s) - 1 /\ Len(s) \in Nat \ {0}
      /\ \A i \in 1..(Len(s) - 1) : t[i] = s[i + 1]
  BY KeysRest
<1>2. DOMAIN t = 1..(Len(s) - 1) /\ DOMAIN s = 1..Len(s)
  BY <1>1
<1> HIDE DEF t
<1>3. ASSUME NEW i \in 1..(Len(s) - 1) PROVE t[i].val \in 0..255
  <2>1. t[i] = s[i + 1] /\ i + 1 \in 1..Len(s)
    BY <1>1
  <2> QED BY <1>2, <2>1
<1>4. s[1].val \in 0..255
  <2>1. 1 \in DOMAIN s
    BY <1>1, <1>2
  <2> QED BY <2>1
<1> QED BY <1>1, <1>2, <1>3, <1>4 DEF t

Bytes(s) == s \in Seq(PortByte) /\ \A i \in DOMAIN s : s[i].val \in 0..255
Quiet(e) == e \in PortByte /\ e.val \in 0..255 /\ e.src # "key"

\* A byte that is no key, appended.
LEMMA PortAnswers ==
    ASSUME NEW s, Bytes(s), NEW e, Quiet(e), NEW t, t = Append(s, e)
    PROVE  Bytes(t) /\ Len(t) = Len(s) + 1 /\ KeysIn(t) = KeysIn(s) /\ KeysIn(s) \in Nat
<1>1. s \in Seq(PortByte) /\ e \in PortByte /\ e.src # "key" /\ e.val \in 0..255
      /\ \A i \in DOMAIN s : s[i].val \in 0..255
  BY DEF Bytes, Quiet
<1>2. KeysIn(s) \in Nat
  BY <1>1, KeysCounted
<1>3. KeysIn(t) = KeysIn(s) + (IF e.src = "key" THEN 1 ELSE 0)
  BY <1>1, KeysAppended
<1>4. KeysIn(t) = KeysIn(s)
  BY <1>1, <1>2, <1>3
<1>5. Bytes(t) /\ Len(t) = Len(s) + 1
  BY <1>1, PortGrows DEF Bytes
<1> QED BY <1>2, <1>4, <1>5

\* The three bytes of a report, appended.
LEMMA PortReported ==
    ASSUME MouseTypes, PortBounds, Report, UNCHANGED pc
    PROVE  PortBounds'
<1> DEFINE s == Head(moves)
           dx == s.x - mx
           dy == my - s.y
           first == 8 + Flag(s.left, 1) + Flag(dx < 0, 16) + Flag(dy < 0, 32)
                      + Flag(Abs(dx) > 255, 64) + Flag(Abs(dy) > 255, 128)
           a == Byte("aux", first)
           b == Byte("aux", dx % 256)
           c == Byte("aux", dy % 256)
           p1 == Append(port, a)
           p2 == Append(p1, b)
<1>1. s \in Point /\ mx \in Int /\ my \in Int
  BY DEF Report, MouseTypes
<1>2. dx \in Int /\ dy \in Int
  <2>1. s.x \in Int /\ s.y \in Int
    BY <1>1 DEF Point
  <2> HIDE DEF s
  <2> QED BY <1>1, <2>1
<1>3. port' = port \o <<a, b, c>> /\ Len(port) + 3 <= PortSize
  BY DEF Report
<1>4. first \in 0..255 /\ dx % 256 \in 0..255 /\ dy % 256 \in 0..255
  <2> HIDE DEF s, dx, dy
  <2>1. first \in 0..255
    <3> DEFINE left == Flag(s.left, 1)
               west == Flag(dx < 0, 16)
               north == Flag(dy < 0, 32)
               far == Flag(Abs(dx) > 255, 64)
               tall == Flag(Abs(dy) > 255, 128)
    <3>1. /\ left \in {0, 1} /\ west \in {0, 16} /\ north \in {0, 32}
          /\ far \in {0, 64} /\ tall \in {0, 128}
      BY DEF Flag
    <3>2. first = 8 + left + west + north + far + tall
      BY Zenon
    <3> HIDE DEF first, left, west, north, far, tall
    <3>3. QED BY <3>1, <3>2
  <2>2. dx % 256 \in 0..255 /\ dy % 256 \in 0..255
    BY <1>2
  <2> QED BY <2>1, <2>2
<1> HIDE DEF dx, dy, first, s
<1>5. Quiet(a) /\ Quiet(b) /\ Quiet(c)
  BY <1>4 DEF Byte, PortByte, Quiet
<1> HIDE DEF a, b, c
<1>6. port \in Seq(PortByte) /\ Bytes(port)
  BY DEF MouseTypes, PortBounds, Bytes
<1>7. Bytes(p1) /\ Len(p1) = Len(port) + 1 /\ KeysIn(p1) = KeysIn(port)
  BY <1>5, <1>6, PortAnswers
<1>8. Bytes(p2) /\ Len(p2) = Len(p1) + 1 /\ KeysIn(p2) = KeysIn(p1)
  <2> HIDE DEF p1
  <2> QED BY <1>5, <1>7, PortAnswers
<1>9. port' = Append(p2, c)
  BY <1>3, <1>5, <1>6 DEF p1, Quiet
<1>10. /\ \A i \in DOMAIN port' : port'[i].val \in 0..255
       /\ Len(port') = Len(port) + 3 /\ KeysIn(port') = KeysIn(port)
  <2> HIDE DEF p1, p2
  <2>1. Bytes(port') /\ Len(port') = Len(p2) + 1 /\ KeysIn(port') = KeysIn(p2)
    BY <1>5, <1>8, <1>9, PortAnswers
  <2>2. Len(port) \in Nat
    BY <1>6
  <2> QED BY <1>7, <1>8, <2>1, <2>2 DEF Bytes
<1>11. UNCHANGED <<packet, latch, ccb, irq12, streaming, keys, pc>>
  BY DEF Report, mouse
<1>12. PortSize \in Nat /\ Len(port) \in Nat
  BY <1>6, SizesAssumption
<1>13. Len(port') <= PortSize /\ Len(port') <= PortSize + 1
  BY <1>3, <1>10, <1>12
<1> QED BY <1>10, <1>11, <1>13 DEF PortBounds
LEMMA PortTyped ==
    ASSUME MouseTypes, PortBounds, PressKey, UNCHANGED pc
    PROVE  PortBounds'
<1> DEFINE e == [src |-> "key", val |-> Scan[Head(typing)], key |-> Head(typing)]
<1>1. Head(typing) \in DOMAIN Scan
  BY DEF PressKey, MouseTypes
<1>2. Scan[Head(typing)] \in 0..255
  BY <1>1, DesktopAssumption
<1>3. e \in PortByte /\ e.val \in 0..255 /\ e.src = "key"
  BY <1>1, <1>2 DEF PortByte
<1>4. /\ port' = Append(port, e) /\ Len(port) < PortSize
      /\ Len(keys) + KeysIn(port) < KeySize
      /\ UNCHANGED <<packet, latch, ccb, irq12, streaming, keys, pc>>
  BY DEF PressKey, mouse, KeysIn
<1> HIDE DEF e
<1>5. port \in Seq(PortByte) /\ \A i \in DOMAIN port : port[i].val \in 0..255
  BY DEF MouseTypes, PortBounds
<1>6. /\ \A i \in DOMAIN port' : port'[i].val \in 0..255
      /\ Len(port') = Len(port) + 1 /\ KeysIn(port') = KeysIn(port) + 1
      /\ KeysIn(port) \in Nat
  BY <1>3, <1>4, <1>5, PortGrows, KeysAppended, KeysCounted
<1>7. /\ PortSize \in Nat /\ Len(port) \in Nat /\ KeySize \in Nat
      /\ keys \in Seq(DOMAIN Scan) /\ Len(keys) \in Nat
  BY <1>5, SizesAssumption DEF PortBounds
<1> QED BY <1>4, <1>6, <1>7 DEF PortBounds, Polling

\* The interrupts.
LEMMA PortTaken ==
    ASSUME MouseTypes, PortBounds, MouseIrq \/ KeyboardIrq, UNCHANGED pc
    PROVE  PortBounds'
<1>1. port \in Seq(PortByte) /\ port # <<>> /\ \A i \in DOMAIN port : port[i].val \in 0..255
  BY DEF MouseTypes, PortBounds, MouseIrq, KeyboardIrq, FromMouse
<1>2. /\ \A i \in DOMAIN Tail(port) : Tail(port)[i].val \in 0..255
      /\ Len(Tail(port)) = Len(port) - 1 /\ Head(port).val \in 0..255
      /\ Len(port) \in Nat /\ KeysIn(port) \in Nat /\ Head(port) \in PortByte
      /\ KeysIn(Tail(port)) = KeysIn(port) - (IF Head(port).src = "key" THEN 1 ELSE 0)
  BY <1>1, PortShrinks, KeysRest, KeysCounted
<1>3. port' = Tail(port) /\ latch' \in {Head(port).val, latch}
  BY DEF MouseIrq, KeyboardIrq, Taken
<1>4. /\ \A i \in DOMAIN port' : port'[i].val \in 0..255
      /\ latch' \in 0..255 /\ ccb \in 0..255
      /\ Len(port') <= PortSize + 1 /\ (~Polling' => Len(port') <= PortSize)
  <2>1. latch' \in 0..255 /\ ccb \in 0..255
    BY <1>2, <1>3 DEF PortBounds
  <2>2. Len(port') <= PortSize + 1 /\ (~Polling' => Len(port') <= PortSize)
    BY <1>2, <1>3, SizesAssumption DEF PortBounds, Polling
  <2> QED BY <1>2, <1>3, <2>1, <2>2
<1>5. CASE MouseIrq
  <2>1. UNCHANGED <<ccb, irq12, streaming, keys>> /\ Head(port).src # "key"
    BY <1>5 DEF MouseIrq, FromMouse
  <2>2. Len(packet') <= 2
    <3>1. packet \in Seq(Int) /\ Len(packet) <= 2 /\ Len(packet) \in Nat
      BY DEF MouseTypes, PortBounds
    <3>2. Len(Append(packet, Head(port).val)) = Len(packet) + 1
      BY <3>1
    <3>3. packet' \in {<<>>, packet} \/ (Len(packet) < 2 /\ packet' = Append(packet, Head(port).val))
      BY <1>5 DEF MouseIrq, Callback
    <3> QED BY <3>1, <3>2, <3>3
  <2>3. KeysIn(port') = KeysIn(port)
    BY <1>2, <1>3, <2>1
  <2> QED BY <1>4, <2>1, <2>2, <2>3 DEF PortBounds
<1>6. CASE KeyboardIrq
  <2>1. UNCHANGED <<ccb, irq12, streaming, packet>>
    BY <1>6 DEF KeyboardIrq, mouse
  <2>2. keys' \in Seq(DOMAIN Scan) /\ Len(keys') + KeysIn(port') <= KeySize
    <3>1. keys \in Seq(DOMAIN Scan) /\ Len(keys) \in Nat /\ Len(keys) + KeysIn(port) <= KeySize
      BY DEF PortBounds
    <3>2. CASE Head(port).src = "key"
      <4>1. Head(port).key \in DOMAIN Scan
        BY <1>2, <3>2 DEF PortByte
      <4>2. keys' = Append(keys, Head(port).key)
        BY <1>6, <3>2 DEF KeyboardIrq
      <4>3. keys' \in Seq(DOMAIN Scan) /\ Len(keys') = Len(keys) + 1
        BY <3>1, <4>1, <4>2
      <4>4. KeysIn(port') = KeysIn(port) - 1
        BY <1>2, <1>3, <3>2
      <4> QED BY <1>2, <3>1, <4>3, <4>4, SizesAssumption
    <3>3. CASE Head(port).src # "key"
      <4>1. keys' = keys /\ KeysIn(port') = KeysIn(port)
        BY <1>2, <1>3, <1>6, <3>3 DEF KeyboardIrq
      <4> QED BY <3>1, <4>1
    <3> QED BY <3>2, <3>3
  <2> QED BY <1>4, <2>1, <2>2 DEF PortBounds
<1> QED BY <1>5, <1>6

\* mouse_init asks for the command byte ..
LEMMA PortAsked ==
    ASSUME MouseTypes, PortBounds, AskStatus
    PROVE  PortBounds'
<1> DEFINE e == Byte("ctl", ccb')
<1>0. keys \in Seq(DOMAIN Scan) /\ ~Polling
  BY DEF PortBounds, AskStatus, Polling
<1>1. ccb' \in 0..255
  BY ByteKept DEF AskStatus, PortBounds
<1>2. Quiet(e)
  <2>1. ccb' \in Int
    BY <1>1
  <2> QED BY <1>1, <2>1 DEF Byte, PortByte, Quiet
<1>3. /\ port' = Append(port, e) /\ pc' = "status"
      /\ UNCHANGED <<packet, latch, irq12, streaming, keys>>
  BY DEF AskStatus, mouse
<1> HIDE DEF e
<1>4. port \in Seq(PortByte) /\ Bytes(port)
  BY DEF MouseTypes, PortBounds, Bytes
<1>5. /\ \A i \in DOMAIN port' : port'[i].val \in 0..255
      /\ Len(port') = Len(port) + 1 /\ KeysIn(port') = KeysIn(port)
      /\ KeysIn(port) \in Nat
  <2>1. Bytes(port') /\ Len(port') = Len(port) + 1 /\ KeysIn(port') = KeysIn(port)
        /\ KeysIn(port) \in Nat
    BY <1>2, <1>3, <1>4, PortAnswers
  <2> QED BY <2>1 DEF Bytes
<1>6. Len(port') <= PortSize + 1 /\ Polling' /\ Len(packet') <= 2
  BY <1>0, <1>3, <1>4, <1>5, SizesAssumption DEF PortBounds, Polling
<1>7. Len(keys') + KeysIn(port') <= KeySize
  BY <1>3, <1>5 DEF PortBounds
<1> QED BY <1>0, <1>1, <1>3, <1>5, <1>6, <1>7 DEF PortBounds

\* .. and its polls take what waits, whatever it is, and bring an answer.
LEMMA PortPolled ==
    ASSUME MouseTypes, PortBounds, SetDefaults \/ Enable \/ OpenIrq
    PROVE  PortBounds'
<1> DEFINE e == Byte("ack", ACK)
           t == Append(Rest, e)
<1>1. port \in Seq(PortByte) /\ (\A i \in DOMAIN port : port[i].val \in 0..255) /\ Len(port) \in Nat
  BY DEF MouseTypes, PortBounds
<1>2. /\ Rest \in Seq(PortByte) /\ \A i \in DOMAIN Rest : Rest[i].val \in 0..255
      /\ Answer \in 0..255
      /\ Len(Rest) <= PortSize
      /\ KeysIn(Rest) <= KeysIn(port) /\ KeysIn(Rest) \in Nat /\ KeysIn(port) \in Nat
  <2>1. CASE port = <<>>
    <3>1. Rest = port /\ Answer = latch
      BY <2>1 DEF Rest, Answer
    <3>2. Len(port) = 0
      BY <2>1
    <3>3. latch \in 0..255 /\ KeysIn(port) \in Nat /\ PortSize \in Nat
      BY <1>1, KeysCounted, SizesAssumption DEF PortBounds
    <3>4. KeysIn(port) <= KeysIn(port) /\ Len(port) <= PortSize
      BY <3>2, <3>3
    <3> QED BY <1>1, <3>1, <3>3, <3>4
  <2>2. CASE port # <<>>
    <3>1. Rest = Tail(port) /\ Answer = Head(port).val
      BY <2>2 DEF Rest, Answer
    <3>2. /\ Tail(port) \in Seq(PortByte) /\ \A i \in DOMAIN Tail(port) : Tail(port)[i].val \in 0..255
          /\ Len(Tail(port)) = Len(port) - 1 /\ Head(port).val \in 0..255
          /\ KeysIn(Tail(port)) = KeysIn(port) - (IF Head(port).src = "key" THEN 1 ELSE 0)
      BY <1>1, <2>2, PortShrinks, KeysRest
    <3>3. KeysIn(Tail(port)) \in Nat /\ KeysIn(port) \in Nat
      BY <1>1, <3>2, KeysCounted
    <3>4. Len(Tail(port)) <= PortSize
      BY <1>1, <3>2, SizesAssumption DEF PortBounds
    <3> QED BY <3>1, <3>2, <3>3, <3>4
  <2> QED BY <2>1, <2>2
<1>3. Quiet(e)
  BY DEF Byte, PortByte, ACK, Quiet
<1> HIDE DEF e
<1>4. /\ \A i \in DOMAIN t : t[i].val \in 0..255
      /\ Len(t) = Len(Rest) + 1 /\ KeysIn(t) = KeysIn(Rest)
  <2>1. Bytes(Rest)
    BY <1>2 DEF Bytes
  <2>2. Bytes(t) /\ Len(t) = Len(Rest) + 1 /\ KeysIn(t) = KeysIn(Rest)
    BY <1>3, <2>1, PortAnswers
  <2> QED BY <2>2 DEF Bytes
<1> HIDE DEF t
<1>5. With(Answer, 2) \in 0..255
  BY <1>2, ByteKept
<1>6. Without(With(Answer, 2), 32) \in 0..255
  BY <1>5, ByteKept
<1>7. /\ packet' = packet /\ keys' = keys /\ irq12' \in {irq12, TRUE} /\ streaming' \in BOOLEAN
      /\ latch' \in {Answer, 0}
      /\ ccb' \in {ccb, Without(With(Answer, 2), 32)}
      /\ (port' = t /\ Polling') \/ port' = Rest
  BY DEF SetDefaults, Enable, OpenIrq, mouse, Polling, t, e, PortBounds
<1>8. /\ \A i \in DOMAIN port' : port'[i].val \in 0..255
      /\ Len(port') <= PortSize + 1 /\ (~Polling' => Len(port') <= PortSize)
      /\ KeysIn(port') = KeysIn(Rest)
  <2>1. Len(Rest) \in Nat /\ PortSize \in Nat
    BY <1>2, SizesAssumption
  <2>2. CASE port' = t /\ Polling'
    BY <1>2, <1>4, <2>1, <2>2
  <2>3. CASE port' = Rest
    BY <1>2, <2>1, <2>3
  <2> QED BY <1>7, <2>2, <2>3
<1>9. latch' \in 0..255 /\ ccb' \in 0..255 /\ irq12' \in BOOLEAN
  <2>1. 0 \in 0..255 /\ ccb \in 0..255 /\ irq12 \in BOOLEAN
    BY DEF PortBounds
  <2> HIDE DEF e, t
  <2> QED BY <1>2, <1>6, <1>7, <2>1
<1>10. keys' \in Seq(DOMAIN Scan) /\ Len(keys') + KeysIn(port') <= KeySize
  <2>1. keys \in Seq(DOMAIN Scan) /\ Len(keys) + KeysIn(port) <= KeySize /\ Len(keys) \in Nat
    BY DEF PortBounds
  <2> QED BY <1>2, <1>7, <1>8, <2>1, SizesAssumption
<1>11. Len(packet') <= 2
  BY <1>7 DEF PortBounds
<1> QED BY <1>7, <1>8, <1>9, <1>10, <1>11 DEF PortBounds
LEMMA PortKept ==
    ASSUME MouseTypes, PortBounds, UNCHANGED device, packet' \in {packet, <<>>},
           ~Polling \/ pc' = pc,
           keys' \in Seq(DOMAIN Scan), Len(keys') <= Len(keys)
    PROVE  PortBounds'
<1>1. UNCHANGED <<port, latch, ccb, irq12, streaming>> /\ Len(packet') <= 2
  BY DEF device, PortBounds
<1>2. Len(port') <= PortSize + 1 /\ (~Polling' => Len(port') <= PortSize)
  BY <1>1 DEF PortBounds, Polling
<1>3. KeysIn(port') = KeysIn(port)
  BY <1>1
<1>4. Len(keys') + KeysIn(port') <= KeySize
  <2>1. Len(keys) + KeysIn(port) <= KeySize /\ Len(keys) \in Nat /\ Len(keys') \in Nat
    BY DEF PortBounds
  <2>2. KeysIn(port) \in Nat
    BY KeysCounted DEF MouseTypes
  <2> QED BY <1>3, <2>1, <2>2, SizesAssumption
<1> QED BY <1>1, <1>2, <1>4 DEF PortBounds

LEMMA KeyGone ==
    ASSUME PortBounds, keys # <<>>, keys' = Tail(keys)
    PROVE  keys' \in Seq(DOMAIN Scan) /\ Len(keys') <= Len(keys) /\ Head(keys) \in DOMAIN Scan
BY DEF PortBounds

LEMMA PortStep ==
    ASSUME MouseTypes, PortBounds, [Next]_vars
    PROVE  PortBounds'
<1>0. keys \in Seq(DOMAIN Scan) /\ Len(keys) <= Len(keys)
  BY DEF PortBounds
<1>1. CASE Outside
  BY <1>1, PortReported, PortTyped, PortTaken DEF Outside
<1>2. CASE Gui
  <2>1. ~Polling /\ keys' = keys /\ UNCHANGED <<packet, device>>
    BY <1>2 DEF Gui, MouseInit, Reset, Polling
  <2> QED BY <1>0, <2>1, PortKept
<1>3. CASE Nest
  <2>1. ~Polling /\ keys # <<>> /\ keys' = Tail(keys) /\ UNCHANGED <<packet, device>>
    BY <1>3 DEF Nest, MouseInit, Reset, Polling
  <2> QED BY <2>1, PortKept, KeyGone
<1>4. CASE Poll
  <2>1. CASE ResetY \/ ResetCycle \/ ResetLeft
    <3>1. ~Polling /\ keys' = keys /\ packet' \in {packet, <<>>} /\ UNCHANGED device
      BY <2>1 DEF ResetY, ResetCycle, ResetLeft, Reset, Polling
    <3> QED BY <1>0, <3>1, PortKept
  <2> QED BY <1>4, <2>1, PortAsked, PortPolled DEF Poll
<1>5. ASSUME NEW k, NEW next, Got(k, next) PROVE PortBounds'
  <2>1. ~Polling /\ keys # <<>> /\ keys' = Tail(keys) /\ UNCHANGED <<packet, device>>
    BY <1>5 DEF Got, Polling, mouse
  <2> QED BY <2>1, PortKept, KeyGone
<1>6. CASE Leave \/ Switch \/ OwnWord \/ Execute
  BY <1>5, <1>6 DEF Leave, Switch, OwnWord, Execute
<1>7. ASSUME NEW k \in DOMAIN Scan, Write(k) \/ MoveByKey(k) PROVE PortBounds'
  BY <1>5, <1>7 DEF Write, MoveByKey
<1>8. CASE ShellKey
  <2>1. ~Polling /\ keys # <<>> /\ keys' = Tail(keys) /\ UNCHANGED <<packet, device>>
    BY <1>8 DEF ShellKey, Polling, mouse
  <2> QED BY <2>1, PortKept, KeyGone
<1>9. CASE NoKey \/ Setup \/ Return \/ ReadX \/ ReadY \/ Act
  <2>1. ~Polling /\ UNCHANGED mouseVars
    BY <1>9 DEF NoKey, Setup, Return, ReadX, ReadY, Act, Polling
  <2>2. keys' = keys /\ UNCHANGED <<packet, device>>
    BY <2>1 DEF mouseVars, mouse
  <2> QED BY <1>0, <2>1, <2>2, PortKept
<1>10. CASE UNCHANGED vars
  <2>1. pc' = pc /\ keys' = keys /\ UNCHANGED <<packet, device>>
    BY <1>10 DEF vars, mouseVars, mouse
  <2> QED BY <1>0, <2>1, PortKept
<1> QED BY <1>1, <1>2, <1>3, <1>4, <1>6, <1>7, <1>8, <1>9, <1>10 DEF Next, Keyed

\* The pointer, and what a pass has read of it.
LEMMA PlacesStep ==
    ASSUME MouseTypes, Places, [Next]_vars
    PROVE  Places'
<1>0. Width \in Nat \ {0} /\ Height \in Nat \ {0}
  BY DesktopAssumption
<1>1. OnWidth(0) /\ OnHeight(0) /\ OnWidth(Width \div 2) /\ OnHeight(Height \div 2)
  BY <1>0 DEF OnWidth, OnHeight
<1>2. ASSUME MouseIrq PROVE OnWidth(mx') /\ OnHeight(my')
  <2>1. CASE Len(packet) < 2
    <3>1. mx' = mx /\ my' = my
      BY <1>2, <2>1 DEF MouseIrq, Callback
    <3> QED BY <3>1 DEF Places
  <2>2. CASE ~(Len(packet) < 2)
    <3>1. Moved(Head(port).val)
      BY <1>2, <2>2 DEF MouseIrq, Callback
    <3> DEFINE overflow == Bit(packet[1], 64) \/ Bit(packet[1], 128)
               dx == IF overflow THEN 0 ELSE Signed(packet[2], Bit(packet[1], 16))
               dy == IF overflow THEN 0 ELSE Signed(Head(port).val, Bit(packet[1], 32))
    <3>2. mx' = Clamp(mx + dx, Width) /\ my' = Clamp(my - dy, Height)
      BY <3>1 DEF Moved
    <3>3. dx \in Int /\ dy \in Int
      <4>1. packet[1] \in Int /\ packet[2] \in Int
        BY <2>2 DEF MouseTypes
      <4>2. Head(port) \in PortByte
        BY <1>2 DEF MouseIrq, FromMouse, MouseTypes
      <4>3. Head(port).val \in Int
        BY <4>2 DEF PortByte
      <4> QED BY <4>1, <4>3 DEF Signed
    <3> HIDE DEF dx, dy
    <3>4. mx + dx \in Int /\ my - dy \in Int
      BY <3>3 DEF MouseTypes
    <3> QED BY <1>0, <3>2, <3>4, ClampInside DEF OnWidth, OnHeight
  <2> QED BY <2>1, <2>2
<1>3. CASE Outside
  <2>1. mxp' = mxp /\ myp' = myp
    BY <1>3 DEF Outside, locals
  <2>2. CASE MouseIrq
    BY <1>2, <2>1, <2>2 DEF Places
  <2>3. CASE Report \/ PressKey \/ KeyboardIrq
    <3>1. mx' = mx /\ my' = my
      BY <2>3 DEF Report, PressKey, KeyboardIrq, mouse
    <3> QED BY <2>1, <3>1 DEF Places
  <2> QED BY <1>3, <2>2, <2>3 DEF Outside
<1>4. ASSUME mx' \in {mx, Width \div 2}, my' \in {my, Height \div 2},
             mxp' = mxp, myp' = myp
      PROVE  Places'
  BY <1>1, <1>4 DEF Places
<1>5. CASE Gui
  BY <1>4, <1>5 DEF Gui, MouseInit, locals
<1>6. CASE Nest
  BY <1>4, <1>6 DEF Nest, MouseInit
<1>7. ASSUME UNCHANGED mouse, mxp' \in {mxp, mx, 0}, myp' \in {myp, my, 0} PROVE Places'
  <2>1. mx' = mx /\ my' = my
    BY <1>7 DEF mouse
  <2> QED BY <1>1, <1>7, <2>1 DEF Places
<1>8. CASE ShellKey \/ Poll
  <2>1. /\ mx' \in {mx, Width \div 2} /\ my' \in {my, Height \div 2}
        /\ mxp' = mxp /\ myp' = myp
    BY <1>8 DEF ShellKey, Poll, ResetY, ResetCycle, ResetLeft, AskStatus,
                SetDefaults, Enable, OpenIrq, mouse, locals
  <2> QED BY <1>4, <2>1
<1>9. ASSUME NEW k, NEW next, Got(k, next) PROVE Places'
  <2>1. UNCHANGED mouse /\ mxp' = mxp /\ myp' = myp
    BY <1>9 DEF Got
  <2> QED BY <1>7, <2>1
<1>10. CASE Leave \/ Switch \/ OwnWord \/ Execute
  BY <1>9, <1>10 DEF Leave, Switch, OwnWord, Execute
<1>11. ASSUME NEW k \in DOMAIN Scan, Write(k) \/ MoveByKey(k) PROVE Places'
  BY <1>9, <1>11 DEF Write, MoveByKey
<1>12. CASE NoKey \/ Setup \/ Return \/ ReadX \/ ReadY \/ Act
  <2>1. UNCHANGED mouse /\ mxp' \in {mxp, mx, 0} /\ myp' \in {myp, my, 0}
    BY <1>12 DEF NoKey, Setup, Return, ReadX, ReadY, Act, mouseVars, locals
  <2> QED BY <1>7, <2>1
<1>13. CASE UNCHANGED vars
  <2>1. UNCHANGED mouse /\ mxp' = mxp /\ myp' = myp
    BY <1>13 DEF vars, mouseVars, locals
  <2> QED BY <1>7, <2>1
<1> QED BY <1>3, <1>5, <1>6, <1>8, <1>10, <1>11, <1>12, <1>13 DEF Next, Keyed
\* The text in the editor, and what a load or a save makes of it.
EditHolds(e, n) == e \in 0..(EditMax - 1) /\ n \in -1..(EditMax - 1)

LEMMA LoadedFits ==
    ASSUME EditHolds(editlen, notes)
    PROVE  EditHolds(Loaded, notes)
<1>1. notes \in Int /\ EditMax - 1 \in Int /\ notes <= EditMax - 1
  BY SizesAssumption DEF EditHolds
<1>2. Min({notes, EditMax - 1}) \in {notes, EditMax - 1}
  BY <1>1, MaxMinOfTwo
<1>3. notes # -1 => notes \in 0..(EditMax - 1) /\ EditMax - 1 \in 0..(EditMax - 1)
  BY SizesAssumption DEF EditHolds
<1> QED BY <1>2, <1>3, SizesAssumption DEF Loaded, EditHolds

LEMMA ClickKeepsText ==
    ASSUME EditHolds(editlen, notes), startmenu \in BOOLEAN, NEW p, NEW saved
    PROVE  LET r == Clicked(p, saved) IN EditHolds(r.edit, r.notes) /\ r.menu \in BOOLEAN
<1> DEFINE Fine(r) == EditHolds(r.edit, r.notes) /\ r.menu \in BOOLEAN
<1>0. EditHolds(editlen, editlen)
  BY SizesAssumption DEF EditHolds
<1>1. Fine(MenuClick(p))
  <2>1. MenuClick(p).menu = FALSE /\ MenuClick(p).notes = notes
        /\ MenuClick(p).edit \in {editlen, Loaded}
    BY DEF MenuClick, Unclicked
  <2> QED BY <2>1, LoadedFits
<1>2. ASSUME NEW a PROVE Fine(WindowClick(p, a, saved))
  <2>1. WindowClick(p, a, saved).menu = startmenu /\ WindowClick(p, a, saved).edit = editlen
        /\ WindowClick(p, a, saved).notes \in {notes, editlen}
    BY DEF WindowClick, Unclicked
  <2> QED BY <1>0, <2>1
<1>3. Fine([Unclicked EXCEPT !.menu = TRUE])
  BY DEF Unclicked
<1>4. Fine(WindowClick(p, Target(p), saved))
  BY <1>2
<1> HIDE DEF Fine
<1>5. Fine(Clicked(p, saved))
  BY <1>1, <1>3, <1>4 DEF Clicked
<1> QED BY <1>5 DEF Fine

\* The text of the terminal: l shown, of which f are refusals, and w typed.
ShownHolds(l, f) == l \in Nat /\ f \in Nat /\ l - f < OutMax
TypedHolds(w) == w \in Seq(DOMAIN Scan) /\ Len(w) <= TermMax - 2

LEMMA NothingTyped == TypedHolds(<<>>)
BY SizesAssumption DEF TypedHolds

LEMMA PromptFits ==
    ASSUME ShownHolds(termout, refused), TypedHolds(termin)
    PROVE  /\ Prompt \in Nat /\ Shown + Prompt \in Nat
           /\ ShownHolds(Shown + Prompt, IF Shown = 0 THEN 0 ELSE refused)
           /\ \A n \in 0..(CapMax - 1) :
                ShownHolds(Shown + Prompt + (IF Shown + Prompt + n < OutMax THEN n ELSE 0),
                           IF Shown = 0 THEN 0 ELSE refused)
<1>1. Prompt \in Nat /\ Prompt <= TermMax - 1
  BY SizesAssumption DEF Prompt, TypedHolds
<1>2. Shown \in Nat /\ (Shown = 0 \/ Shown + Margin < OutMax)
  BY SizesAssumption DEF Shown, ShownHolds
<1> HIDE DEF Prompt, Shown
<1>3. Shown + Prompt < OutMax
  BY <1>1, <1>2, SizesAssumption
<1>4. refused \in Nat
  BY DEF ShownHolds
<1>5. ShownHolds(Shown + Prompt, IF Shown = 0 THEN 0 ELSE refused)
  BY <1>1, <1>2, <1>3, <1>4, SizesAssumption DEF ShownHolds
<1>6. ASSUME NEW n \in 0..(CapMax - 1)
      PROVE  ShownHolds(Shown + Prompt + (IF Shown + Prompt + n < OutMax THEN n ELSE 0),
                        IF Shown = 0 THEN 0 ELSE refused)
  <2>1. CASE Shown + Prompt + n < OutMax
    BY <1>1, <1>2, <1>4, <2>1, SizesAssumption DEF ShownHolds
  <2>2. CASE ~(Shown + Prompt + n < OutMax)
    <3>1. Shown + Prompt + 0 = Shown + Prompt
      BY <1>1, <1>2
    <3> QED BY <1>5, <2>2, <3>1
  <2> QED BY <2>1, <2>2
<1> QED BY <1>1, <1>2, <1>5, <1>6

\* The texts, and what else the desktop counts.
TextInv ==
    /\ EditHolds(editlen, notes) /\ TypedHolds(termin) /\ ShownHolds(termout, refused)
    /\ bar \in Bars /\ startmenu \in BOOLEAN /\ runs \in 0..MaxRuns

LEMMA TextWrite ==
    ASSUME TextInv, NEW k \in DOMAIN Scan, Write(k)
    PROVE  TextInv'
<1>1. UNCHANGED <<notes, termout, refused, bar, startmenu, runs>>
  BY DEF Write, Got, screen
<1>2. CASE active = W_EDIT
  <2>1. termin' = termin
    BY <1>2 DEF Write
  <2>2. editlen' = IF k = "back" THEN Max({editlen - 1, 0})
                   ELSE IF k \in DOMAIN Arrow THEN editlen
                   ELSE Min({editlen + 1, EditMax - 1})
    BY <1>2 DEF Write
  <2>3. editlen \in 0..(EditMax - 1) /\ EditMax \in Nat /\ notes \in -1..(EditMax - 1)
    BY SizesAssumption DEF TextInv, EditHolds
  <2>4. /\ Max({editlen - 1, 0}) \in {editlen - 1, 0} /\ 0 <= Max({editlen - 1, 0})
        /\ Min({editlen + 1, EditMax - 1}) \in {editlen + 1, EditMax - 1}
        /\ Min({editlen + 1, EditMax - 1}) <= EditMax - 1
    <3>1. editlen - 1 \in Int /\ 0 \in Int /\ editlen + 1 \in Int /\ EditMax - 1 \in Int
      BY <2>3
    <3> QED BY <3>1, MaxMinOfTwo
  <2>5. editlen' \in 0..(EditMax - 1)
    <3>1. Max({editlen - 1, 0}) \in 0..(EditMax - 1) /\ Min({editlen + 1, EditMax - 1}) \in 0..(EditMax - 1)
      BY <2>3, <2>4
    <3> QED BY <2>2, <2>3, <3>1
  <2> QED BY <1>1, <2>1, <2>3, <2>5 DEF TextInv, EditHolds
<1>3. CASE active # W_EDIT
  <2>1. editlen' = editlen
    BY <1>3 DEF Write
  <2>2. termin' = IF k = "back" THEN SubSeq(termin, 1, Len(termin) - 1)
                  ELSE IF k \in DOMAIN Arrow \/ Len(termin) >= TermMax - 2 THEN termin
                  ELSE Append(termin, k)
    BY <1>3 DEF Write
  <2>3. termin \in Seq(DOMAIN Scan) /\ Len(termin) \in Nat /\ Len(termin) <= TermMax - 2 /\ TermMax \in Nat
    BY SizesAssumption DEF TextInv, TypedHolds
  <2>4. TypedHolds(SubSeq(termin, 1, Len(termin) - 1))
    <3>1. CASE Len(termin) = 0
      <4>1. SubSeq(termin, 1, Len(termin) - 1) = <<>>
        BY <2>3, <3>1
      <4> QED BY <4>1, NothingTyped
    <3>2. CASE Len(termin) # 0
      <4> DEFINE w == [i \in 1..(Len(termin) - 1) |-> termin[i]]
      <4>1. SubSeq(termin, 1, Len(termin) - 1) = w
        BY <2>3, <3>2
      <4>2. Len(termin) - 1 \in Nat /\ \A i \in 1..(Len(termin) - 1) : termin[i] \in DOMAIN Scan
        BY <2>3, <3>2
      <4>3. w \in Seq(DOMAIN Scan) /\ Len(w) = Len(termin) - 1
        BY <4>2
      <4> HIDE DEF w
      <4> QED BY <2>3, <4>1, <4>3 DEF TypedHolds
    <3> QED BY <3>1, <3>2
  <2>5. Len(termin) < TermMax - 2 => TypedHolds(Append(termin, k))
    BY <2>3 DEF TypedHolds
  <2>6. TypedHolds(termin')
    <3>1. ~(Len(termin) >= TermMax - 2) => Len(termin) < TermMax - 2
      BY <2>3
    <3>2. TypedHolds(termin)
      BY DEF TextInv
    <3> QED BY <2>2, <2>4, <2>5, <3>1, <3>2
  <2> QED BY <1>1, <2>1, <2>6 DEF TextInv
<1> QED BY <1>2, <1>3

LEMMA TextRun ==
    ASSUME TextInv, OwnWord \/ Execute \/ Nest
    PROVE  TextInv'
<1>0. /\ ShownHolds(termout, refused) /\ TypedHolds(termin) /\ EditHolds(editlen, notes)
      /\ bar \in Bars /\ startmenu \in BOOLEAN /\ runs \in 0..MaxRuns
  BY DEF TextInv
<1>1. CASE OwnWord
  <2>1. /\ UNCHANGED <<editlen, notes, bar, startmenu, runs>> /\ termin' = <<>>
    BY <1>1 DEF OwnWord, Got, screen
  <2>2. ShownHolds(termout', refused')
    <3>1. Prompt \in Nat /\ Refusal \in Nat /\ OutMax \in Nat /\ 0 < OutMax
      BY <1>0, PromptFits, SizesAssumption
    <3>2. \/ termout' = 0 /\ refused' = 0
          \/ termout' = termout + Prompt + Refusal /\ refused' = refused + Prompt + Refusal
      BY <1>1 DEF OwnWord
    <3>3. ASSUME termout' = 0, refused' = 0 PROVE ShownHolds(termout', refused')
      BY <3>1, <3>3 DEF ShownHolds
    <3>4. ASSUME termout' = termout + Prompt + Refusal, refused' = refused + Prompt + Refusal
          PROVE  ShownHolds(termout', refused')
      BY <1>0, <3>1, <3>4 DEF ShownHolds
    <3> QED BY <3>2, <3>3, <3>4
  <2> QED BY <1>0, <2>1, <2>2, NothingTyped DEF TextInv
<1>2. CASE Execute
  <2>1. /\ UNCHANGED <<editlen, startmenu, runs>> /\ termin' = <<>> /\ bar' \in Bars
        /\ EditHolds(editlen, notes')
    BY <1>0, <1>2, SizesAssumption DEF Execute, Got, EditHolds
  <2>2. ShownHolds(termout', refused')
    <3>1. PICK n \in 0..(CapMax - 1) :
             termout' = Shown + Prompt + (IF Shown + Prompt + n < OutMax THEN n ELSE 0)
      BY <1>2 DEF Execute
    <3>2. refused' = IF Shown = 0 THEN 0 ELSE refused
      BY <1>2 DEF Execute
    <3> QED BY <1>0, <3>1, <3>2, PromptFits
  <2> QED BY <1>0, <2>1, <2>2, NothingTyped DEF TextInv
<1>3. CASE Nest
  <2>1. /\ UNCHANGED <<editlen, notes, startmenu, bar, termin>>
        /\ runs < MaxRuns /\ runs' = runs + 1
        /\ termout' = Shown + Prompt /\ refused' = IF Shown = 0 THEN 0 ELSE refused
    BY <1>3 DEF Nest, screen
  <2>2. ShownHolds(termout', refused')
    BY <1>0, <2>1, PromptFits
  <2>3. runs' \in 0..MaxRuns
    BY <1>0, <2>1, SizesAssumption
  <2> QED BY <1>0, <2>1, <2>2, <2>3 DEF TextInv
<1> QED BY <1>1, <1>2, <1>3

LEMMA TextStep ==
    ASSUME TextInv, [Next]_vars
    PROVE  TextInv'
<1>0. /\ ShownHolds(termout, refused) /\ TypedHolds(termin) /\ EditHolds(editlen, notes)
      /\ bar \in Bars /\ startmenu \in BOOLEAN /\ runs \in 0..MaxRuns
  BY DEF TextInv
<1>1. ASSUME UNCHANGED <<editlen, notes, termin, termout, refused, bar, startmenu, runs>>
      PROVE  TextInv'
  BY <1>1 DEF TextInv
<1>2. CASE Outside \/ ShellKey \/ Poll \/ ReadX \/ ReadY \/ NoKey
  BY <1>1, <1>2 DEF Outside, ShellKey, Poll, ReadX, ReadY, NoKey, texts, screen, calls
<1>3. CASE Gui
  <2>1. UNCHANGED <<editlen, termin, termout, refused, startmenu>>
        /\ bar' \in Bars /\ EditHolds(editlen, notes')
        /\ runs < MaxRuns /\ runs' = runs + 1
    BY <1>0, <1>3, SizesAssumption DEF Gui, EditHolds
  <2>2. runs' \in 0..MaxRuns
    BY <1>0, <2>1, SizesAssumption
  <2> QED BY <1>0, <2>1, <2>2 DEF TextInv
<1>4. CASE Setup
  <2>1. /\ startmenu' = FALSE /\ termin' = <<>> /\ termout' = Banner /\ refused' = 0
        /\ editlen' = Loaded /\ UNCHANGED <<bar, notes, runs>>
    BY <1>4 DEF Setup, calls
  <2>2. ShownHolds(Banner, 0)
    BY SizesAssumption DEF ShownHolds
  <2>3. EditHolds(Loaded, notes)
    BY <1>0, LoadedFits
  <2> QED BY <1>0, <2>1, <2>2, <2>3, NothingTyped DEF TextInv
<1>5. CASE Return
  <2>1. UNCHANGED <<bar, startmenu, editlen, notes, termout, refused, runs>> /\ termin' \in {termin, <<>>}
    BY <1>5 DEF Return, screen
  <2> QED BY <1>0, <2>1, NothingTyped DEF TextInv
<1>6. CASE Leave \/ Switch
  <2>1. UNCHANGED <<editlen, notes, termin, termout, refused, bar, runs>> /\ startmenu' \in BOOLEAN
    BY <1>0, <1>6 DEF Leave, Switch, Got, screen, texts
  <2> QED BY <1>0, <2>1 DEF TextInv
<1>7. ASSUME NEW k \in DOMAIN Scan, MoveByKey(k) PROVE TextInv'
  <2>1. UNCHANGED <<editlen, notes, termin, termout, refused, bar, startmenu, runs>>
    BY <1>7 DEF MoveByKey, Got, texts
  <2> QED BY <1>1, <2>1
<1>8. CASE Act
  <2>1. /\ UNCHANGED <<bar, termin, termout, refused, runs>>
        /\ EditHolds(editlen', notes') /\ startmenu' \in BOOLEAN
    <3> DEFINE p == [x |-> mxp, y |-> myp]
    <3>1. PICK saved \in BOOLEAN :
            LET r == IF btn_left /\ ~last.left THEN Clicked(p, saved) ELSE Unclicked
            IN  startmenu' = r.menu /\ editlen' = r.edit /\ notes' = r.notes
      BY <1>8 DEF Act
    <3>2. EditHolds(Unclicked.edit, Unclicked.notes) /\ Unclicked.menu \in BOOLEAN
      BY <1>0 DEF Unclicked
    <3>3. LET r == Clicked(p, saved) IN EditHolds(r.edit, r.notes) /\ r.menu \in BOOLEAN
      <4> HIDE DEF p
      <4> QED BY <1>0, ClickKeepsText
    <3>4. EditHolds(editlen', notes') /\ startmenu' \in BOOLEAN
      BY <3>1, <3>2, <3>3
    <3>5. UNCHANGED <<bar, termin, termout, refused, runs>>
      BY <1>8 DEF Act, calls
    <3> QED BY <3>4, <3>5
  <2> QED BY <1>0, <2>1 DEF TextInv
<1>9. CASE UNCHANGED vars
  BY <1>1, <1>9 DEF vars, texts, screen, calls
<1> QED BY <1>2, <1>3, <1>4, <1>5, <1>6, <1>7, <1>8, <1>9, TextWrite, TextRun DEF Next, Keyed
Stages == {"shell", "resety", "resetcycle", "resetleft", "reset", "status", "ackF6", "ackF4",
           "opened", "poll", "readx", "ready", "act", "exit"}

Bounds == PortBounds /\ Places /\ TextInv /\ pc \in Stages

LEMMA StageStep ==
    ASSUME pc \in Stages, [Next]_vars
    PROVE  pc' \in Stages
<1>1. CASE Outside \/ UNCHANGED vars
  BY <1>1 DEF Outside, vars
<1>2. CASE Gui \/ ShellKey \/ Poll
  BY <1>2 DEF Gui, ShellKey, Poll, MouseInit, Reset, ResetY, ResetCycle, ResetLeft, AskStatus,
              SetDefaults, Enable, OpenIrq, Stages
<1>3. CASE Setup \/ Return \/ ReadX \/ ReadY \/ NoKey
  BY <1>3 DEF Setup, Return, ReadX, ReadY, NoKey, Stages
<1>4. CASE Act
  <2>1. pc' = "exit" \/ pc' = "poll"
    BY <1>4 DEF Act
  <2> QED BY <2>1 DEF Stages
<1>5. CASE Leave \/ Switch \/ OwnWord \/ Execute \/ Nest
  BY <1>5 DEF Leave, Switch, OwnWord, Execute, Nest, Got, MouseInit, Reset, Stages
<1>6. ASSUME NEW k \in DOMAIN Scan, Write(k) \/ MoveByKey(k) PROVE pc' \in Stages
  BY <1>6 DEF Write, MoveByKey, Got, Stages
<1> QED BY <1>1, <1>2, <1>3, <1>4, <1>5, <1>6 DEF Next, Keyed

LEMMA BoundsInit == Init => Bounds
<1> SUFFICES ASSUME Init PROVE Bounds
  OBVIOUS
<1>1. PortBounds
  <2>1. /\ port = <<>> /\ latch = 0 /\ ccb = Ccb0 /\ packet = <<>> /\ keys = <<>>
        /\ irq12 = FALSE /\ streaming = FALSE
    BY DEF Init, MouseInit0
  <2>2. KeysIn(port) = 0
    <3>1. {i \in DOMAIN port : port[i].src = "key"} = {}
      BY <2>1
    <3> QED BY <3>1, FS_EmptySet DEF KeysIn
  <2>3. /\ \A i \in DOMAIN port : port[i].val \in 0..255
        /\ Len(packet) = 0 /\ Len(port) = 0 /\ Len(keys) = 0 /\ keys \in Seq(DOMAIN Scan)
    BY <2>1
  <2>4. latch \in 0..255 /\ ccb \in 0..255 /\ irq12 \in BOOLEAN /\ streaming \in BOOLEAN
    <3>1. Ccb0 \in 0..255 /\ 0 \in 0..255
      BY DesktopAssumption
    <3> QED BY <2>1, <3>1
  <2> QED BY <2>2, <2>3, <2>4, SizesAssumption DEF PortBounds
<1>2. Places
  <2>1. mx = 0 /\ my = 0 /\ mxp = 0 /\ myp = 0
    BY DEF Init, MouseInit0
  <2> QED BY <2>1, DesktopAssumption DEF Places, OnWidth, OnHeight
<1>3. TextInv
  <2>1. /\ editlen = 0 /\ notes = -1 /\ termin = <<>> /\ termout = 0 /\ refused = 0
        /\ bar \in Bars /\ startmenu = FALSE /\ runs = 0
    BY DEF Init
  <2>2. EditHolds(0, -1) /\ ShownHolds(0, 0) /\ 0 \in 0..MaxRuns
    BY SizesAssumption DEF EditHolds, ShownHolds
  <2> QED BY <2>1, <2>2, NothingTyped DEF TextInv
<1>4. pc \in Stages
  BY DEF Init, Stages
<1> QED BY <1>1, <1>2, <1>3, <1>4 DEF Bounds

\* The editor's and the terminal's text stay in their arrays but for the refusals
\* that term_run appends unchecked, the pointer on the screen, bytes in the 8042
\* and keys under way within their bounds (editor_key, terminal_key, term_run,
\* mouse_callback, mouse_init), however long the session and nested the desktops.
THEOREM DesktopTyped == Spec => []TypeOK
<1>1. DesktopInv /\ Bounds /\ [Next]_vars => Bounds'
  BY PortStep, PlacesStep, TextStep, StageStep DEF Bounds, DesktopInv
<1>2. DesktopInv /\ PointerInv /\ Bounds => TypeOK
  <2> SUFFICES ASSUME DesktopInv, PointerInv, Bounds PROVE TypeOK
    OBVIOUS
  <2>1. MouseTypeOK
    <3>1. mx \in 0..(Width - 1) /\ my \in 0..(Height - 1) /\ btn_left \in BOOLEAN /\ there \in OnScreen
      BY DEF Bounds, Places, OnWidth, OnHeight, DesktopInv, MouseTypes, PointerInv
    <3>2. Len(port) <= PortSize + 2 /\ Len(keys) <= KeySize
      <4>0. port \in Seq(PortByte)
        BY DEF DesktopInv, MouseTypes
      <4>1. Len(port) \in Nat /\ KeysIn(port) \in Nat
        <5>1. KeysIn(port) \in Nat
          BY <4>0, KeysCounted
        <5> QED BY <4>0, <5>1
      <4>2. Len(port) <= PortSize + 1 /\ Len(keys) + KeysIn(port) <= KeySize /\ Len(keys) \in Nat
        BY DEF Bounds, PortBounds
      <4> QED BY <4>1, <4>2, SizesAssumption
    <3> QED BY <3>1, <3>2 DEF MouseTypeOK, OnScreen, Bounds, PortBounds
  <2>2. BuffersHold /\ notes \in -1..(EditMax - 1) /\ runs \in 0..MaxRuns
        /\ bar \in Bars /\ startmenu \in BOOLEAN
    BY DEF BuffersHold, Bounds, TextInv, EditHolds, TypedHolds, ShownHolds
  <2>3. /\ \A i \in Apps : wins[i].x \in Int /\ wins[i].y \in Int /\ wins[i].open \in BOOLEAN
        /\ active \in Apps /\ dragging \in BOOLEAN
    BY DEF DesktopInv, WindowTypes, Window
  <2>4. mxp \in 0..(Width - 1) /\ myp \in 0..(Height - 1) /\ pc \in Stages
    BY DEF Bounds, Places, OnWidth, OnHeight
  <2> QED BY <2>1, <2>2, <2>3, <2>4 DEF TypeOK, Stages
<1> QED BY <1>1, <1>2, BoundsInit, PointerInit, PointerStep, DesktopInvInit, DesktopInvHolds, PTL DEF Spec
=============================================================================
