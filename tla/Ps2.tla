-------------------------------- MODULE Ps2 ---------------------------------
(***************************************************************************)
(* Mouse::Init's dialogue with the PS/2 controller and the two interrupts  *)
(* that serve it afterwards (src/src/drivers/mouse.cpp, interrupts.cpp).   *)
(* Keyboard, mouse and controller answer through one port; Init runs with  *)
(* interrupts off, cannot tell their bytes apart, and waits for each       *)
(* answer a bounded number of polls.                                       *)
(*                                                                         *)
(* A byte is the set of its bits that are set, of those that mean          *)
(* something to the controller's configuration or to the packet decoder.   *)
(* The controller takes what is written to it within WaitWrite's patience. *)
(*                                                                         *)
(* RemapPIC leaves the interrupt controllers edge triggered: a request     *)
(* that rose while Init had interrupts off stays latched, also when Init   *)
(* has read its byte by then, and is delivered after Activate.             *)
(***************************************************************************)
EXTENDS Interrupts, Sequences

CONSTANTS
  Firmware,     \* configuration bytes the firmware may leave
  Scancodes,    \* what keys send
  MaxPolls,     \* WaitRead's patience, 100000
  MaxKeys,      \* bound on the bytes the keyboard sends
  MaxMoves      \* bound on the bytes the mouse sends

IrqKeyboard == 0   \* bit 0: interrupt 1 for keyboard bytes
IrqMouse == 1      \* bit 1: interrupt 12 for mouse bytes
KeyboardOff == 4   \* bit 4: the keyboard's clock is stopped
MouseOff == 5      \* bit 5: the mouse's clock is stopped

Sync == 3          \* bit 3 of a packet's first byte

ConfigBits == {IrqKeyboard, IrqMouse, KeyboardOff, MouseOff}

ASSUME Ps2Assumption ==
  /\ Firmware \subseteq SUBSET ConfigBits
  /\ \A f \in Firmware : IrqKeyboard \in f /\ KeyboardOff \notin f
  /\ Scancodes \subseteq SUBSET ConfigBits
  /\ {MaxPolls, MaxKeys, MaxMoves} \subseteq Nat

VARIABLES
  pc,          \* where Init is; "run" after interrupts.Activate()
  polls,       \* polls left in WaitRead
  status,      \* Init's local
  config,      \* the controller's configuration byte
  port,        \* bytes to be read at 0x60, oldest first
  mouse,       \* "absent"; or "idle", "defaults" and "stream" (it owes an
               \* acknowledgement), "streaming"
  packet,      \* HandleInterrupt's packet[0..cycle-1], as positions
  irr,         \* interrupt requests that wait to be delivered
  in_service,  \* interrupt requests that wait for their acknowledgement
  sent,        \* bytes the two devices have sent: [keys, moves]
  \* history
  before,      \* the configuration Init found
  early,       \* a key came before the controller's answer
  quiet        \* no key came during Init, every wait was answered, and the
               \* mouse was not moved before a leftover keyboard request

ghosts == <<before, early, quiet>>

vars == <<pc, polls, status, config, port, mouse, packet, irr, in_service,
          sent, before, early, quiet>>

Byte(src, bits, pos) == [src |-> src, bits |-> bits, pos |-> pos]

Init ==
  /\ pc = "enable" /\ polls = 0 /\ status = {}
  /\ config \in Firmware /\ before = config
  /\ port = <<>>
  /\ mouse \in {"absent", "idle"}
  /\ packet = <<>>
  /\ irr = {} /\ in_service = {}
  /\ sent = [keys |-> 0, moves |-> 0]
  /\ early = FALSE /\ quiet = TRUE

\* The request line that the oldest byte of the port q raises.
Raised(q, cfg) ==
  CASE q = <<>>               -> {}
    [] Head(q).src = "mouse"  -> IF IrqMouse \in cfg THEN {12} ELSE {}
    [] OTHER                  -> IF IrqKeyboard \in cfg THEN {1} ELSE {}

\* The controller's output changes; what was requested stays requested.
Request == irr' = irr \cup Raised(port', config')

\* Status bit 0x20: the byte at 0x60 is the mouse's.
MouseData == port # <<>> /\ Head(port).src = "mouse"

\* A keyboard request without a byte of its own: Init has read that one.
Leftover == 1 \in irr /\ (port = <<>> \/ MouseData)

-----------------------------------------------------------------------------
(* The devices.                                                            *)

\* A key goes down or up.
Key ==
  /\ sent.keys < MaxKeys /\ KeyboardOff \notin config
  /\ sent' = [keys |-> sent.keys + 1, moves |-> sent.moves]
  /\ \E bits \in Scancodes : port' = Append(port, Byte("keyboard", bits, 0))
  /\ early' = (early \/ pc \in {"enable", "get"})
  /\ quiet' = (quiet /\ pc = "run")
  /\ UNCHANGED <<pc, polls, status, config, mouse, packet, in_service, before>>
  /\ Request

\* The mouse acknowledges a command, in its own time (0xFA).
Acknowledge ==
  /\ mouse \in {"defaults", "stream"}
  /\ mouse' = IF mouse = "stream" THEN "streaming" ELSE "idle"
  /\ port' = Append(port, Byte("mouse", {1, 3, 4, 5}, 0))
  /\ UNCHANGED <<pc, polls, status, config, packet, in_service, sent, ghosts>>
  /\ Request

\* The mouse moves: packets of three bytes, the first with the sync bit, the
\* others with or without it.
Move ==
  /\ mouse = "streaming" /\ sent.moves < MaxMoves /\ MouseOff \notin config
  /\ sent' = [keys |-> sent.keys, moves |-> sent.moves + 1]
  /\ \E bits \in IF sent.moves % 3 = 0 THEN {{Sync}} ELSE {{}, {Sync}} :
       port' = Append(port, Byte("mouse", bits, (sent.moves % 3) + 1))
  /\ quiet' = (quiet /\ ~Leftover)
  /\ UNCHANGED <<pc, polls, status, config, mouse, packet, in_service, before,
                 early>>
  /\ Request

-----------------------------------------------------------------------------
(* Mouse::Init.                                                            *)

\* 0xA8 starts the mouse's clock.
Enable ==
  /\ pc = "enable" /\ pc' = "get"
  /\ config' = config \ {MouseOff}
  /\ UNCHANGED <<polls, status, port, mouse, packet, in_service, sent, ghosts>>
  /\ Request

\* 0x20: the controller's answer goes behind what is already there.
GetStatus ==
  /\ pc = "get" /\ pc' = "status"
  /\ port' = Append(port, Byte("controller", config, 0))
  /\ UNCHANGED <<polls, status, config, mouse, packet, in_service, sent,
                 ghosts>>
  /\ Request

\* status |= 2; status &= ~0x20
ReadStatus ==
  /\ pc = "status" /\ pc' = "set"
  /\ port # <<>>
  /\ status' = (Head(port).bits \cup {IrqMouse}) \ {MouseOff}
  /\ port' = Tail(port)
  /\ UNCHANGED <<polls, config, mouse, packet, in_service, sent, ghosts>>
  /\ Request

\* Mutant of SetStatus: writes a byte of its own instead of the one it read.
SetStatusFresh ==
  /\ pc = "set" /\ pc' = "defaults"
  /\ config' = {IrqMouse}
  /\ UNCHANGED <<polls, status, port, mouse, packet, in_service, sent, ghosts>>
  /\ Request

\* 0x60, status
SetStatus ==
  /\ pc = "set" /\ pc' = "defaults"
  /\ config' = status
  /\ UNCHANGED <<polls, status, port, mouse, packet, in_service, sent, ghosts>>
  /\ Request

\* What the mouse makes of a command; one that still owes an acknowledgement
\* may drop it for the new command.
Hears ==
  CASE mouse = "absent" -> {"absent"}
    [] mouse = "idle"   -> {pc}
    [] OTHER            -> {mouse, pc}

\* Mutant of Write: the second acknowledgement is not read.
WriteOneAck ==
  /\ pc \in {"defaults", "stream"}
  /\ pc' = IF pc = "defaults" THEN "ack1" ELSE "activate"
  /\ polls' = MaxPolls
  /\ mouse' \in Hears
  /\ UNCHANGED <<status, config, port, packet, irr, in_service, sent, ghosts>>

\* Write(0xF6), and Write(0xF4).
Write ==
  /\ pc \in {"defaults", "stream"}
  /\ pc' = IF pc = "defaults" THEN "ack1" ELSE "ack2"
  /\ polls' = MaxPolls
  /\ mouse' \in Hears
  /\ UNCHANGED <<status, config, port, packet, irr, in_service, sent, ghosts>>

\* Read(); // Ack: whatever byte is there.
ReadAck ==
  /\ pc \in {"ack1", "ack2"} /\ port # <<>>
  /\ port' = Tail(port)
  /\ pc' = IF pc = "ack1" THEN "stream" ELSE "activate"
  /\ UNCHANGED <<polls, status, config, mouse, packet, in_service, sent,
                 ghosts>>
  /\ Request

\* Mutant of Poll: timeout is not counted down.
PollForever ==
  /\ pc \in {"ack1", "ack2"} /\ port = <<>> /\ polls > 0
  /\ UNCHANGED vars

\* WaitRead: while (timeout--)
Poll ==
  /\ pc \in {"ack1", "ack2"} /\ port = <<>> /\ polls > 0
  /\ polls' = polls - 1
  /\ UNCHANGED <<pc, status, config, port, mouse, packet, irr, in_service,
                 sent, ghosts>>

\* WaitRead gives up; the port is read all the same.
Expire ==
  /\ pc \in {"ack1", "ack2"} /\ port = <<>> /\ polls = 0
  /\ pc' = IF pc = "ack1" THEN "stream" ELSE "activate"
  /\ quiet' = FALSE
  /\ UNCHANGED <<polls, status, config, port, mouse, packet, irr, in_service,
                 sent, before, early>>

\* interrupts.Activate(), at the end of kernel_main.
Activate ==
  /\ pc = "activate" /\ pc' = "run"
  /\ UNCHANGED <<polls, status, config, port, mouse, packet, irr, in_service,
                 sent, ghosts>>

MouseInit ==
  \/ Enable \/ GetStatus \/ ReadStatus \/ SetStatus \/ Write
  \/ ReadAck \/ Poll \/ Expire \/ Activate

-----------------------------------------------------------------------------
(* Interrupts.                                                             *)

\* A request on line irq reaches HandleInterrupt and is acknowledged there;
\* the gates keep interrupts off in between.
Interrupt(irq) ==
  /\ pc = "run" /\ Passes(irq, in_service)
  /\ Vector(irq) \in Gates
  /\ in_service' = Eoi(Vector(irq), InService(irq, in_service))
  /\ UNCHANGED <<pc, polls, status, config, mouse, sent, ghosts>>

\* Interrupt 0x20, the timer: only the acknowledgement.
TimerIRQ == Interrupt(0) /\ UNCHANGED <<port, packet, irr>>

\* Interrupt 0x21: ReadPort(0x60) takes whatever byte is there, if any.
KeyboardIRQ ==
  /\ 1 \in irr
  /\ Interrupt(1)
  /\ port' = IF port = <<>> THEN <<>> ELSE Tail(port)
  /\ irr' = (irr \ {1}) \cup Raised(port', config)
  /\ UNCHANGED packet

\* if ((data & 0x08) == 0) return, at the start of a packet.
OutOfStep(b) == packet = <<>> /\ Sync \notin b.bits

\* Mouse::HandleInterrupt's two early returns and its packet[]: a third byte
\* completes the packet.
HandleInterrupt ==
  \/ /\ ~MouseData
     /\ UNCHANGED <<port, packet>>
  \/ /\ MouseData
     /\ port' = Tail(port)
     /\ packet' = IF OutOfStep(Head(port)) THEN <<>>
                  ELSE IF Len(packet) = 2 THEN <<>>
                       ELSE Append(packet, Head(port).pos)

\* Interrupt 0x2C; a keyboard request goes first.
MouseIRQ ==
  /\ 12 \in irr /\ 1 \notin irr
  /\ Interrupt(12)
  /\ HandleInterrupt
  /\ irr' = (irr \ {12}) \cup Raised(port', config)

Next ==
  \/ Key \/ Acknowledge \/ Move \/ MouseInit \/ TimerIRQ \/ KeyboardIRQ
  \/ MouseIRQ

\* The processor goes on, and takes interrupts once they are on.  Nothing is
\* assumed of the mouse, which may never answer.
Fairness == WF_vars(MouseInit) /\ WF_vars(KeyboardIRQ) /\ WF_vars(MouseIRQ)

Spec == Init /\ [][Next]_vars /\ Fairness

-----------------------------------------------------------------------------

\* The boot goes on whether or not there is a mouse, and whatever it answers
\* (WaitRead's timeout, mouse.cpp:17-22).
InitEnds == <>(pc = "run")

\* Unless a key came first, Init changes the bits it means to change and no
\* other: the read-modify-write of mouse.cpp:42-50 sees the controller's answer.
ConfigKept ==
  ~early /\ pc \notin {"enable", "get", "status", "set"} =>
    config = (before \cup {IrqMouse}) \ {MouseOff}

\* After an Init that nothing disturbed the decoder is in step with the mouse
\* from the first byte: both acknowledgements were consumed (mouse.cpp:55, 59),
\* no later keyboard interrupt reads one of its bytes (interrupts.cpp:192), and
\* a mouse interrupt without a byte of its own takes none (mouse.cpp:71).  The
\* mouse must rest until the keyboard request is taken that the controller's
\* answer left behind at mouse.cpp:45: that one reads a byte of the mouse's.
PacketsInStep ==
  quiet /\ mouse # "absent" => \A k \in DOMAIN packet : packet[k] = k

\* Unless a key came first, every byte is taken from the port in the end, also
\* a late acknowledgement of the mouse's: none blocks the port for the others,
\* and no interrupt in service those that follow (interrupts.cpp:212-216).
PortServed == (pc = "run" /\ ~early) ~> (port = <<>>)

=============================================================================
