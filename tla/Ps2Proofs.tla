------------------------------ MODULE Ps2Proofs -----------------------------
(***************************************************************************)
(* Proofs about Mouse::Init and the interrupts that follow it, for any     *)
(* firmware, scancodes and bounds: what Init leaves in the controller, and *)
(* that an undisturbed Init leaves the decoder in step with the mouse.     *)
(***************************************************************************)
EXTENDS Ps2, SequenceTheorems, TLAPS

PortByte == [src : {"keyboard", "mouse", "controller"}, bits : SUBSET Int,
             pos : 0..3]

FromMouse(q, k) == k \in DOMAIN q /\ q[k].src = "mouse"

\* The mouse's bytes in the queue q, after n bytes of a packet and with m sent
\* in all: neighbours follow one another, the first follows what was read and
\* the last is the last one sent.  Bytes of the keyboard may lie in between.
InOrder(q, n, m) ==
  /\ \A k \in DOMAIN q : FromMouse(q, k) =>
       q[k].pos \in 1..3 /\ (q[k].pos = 1 => Sync \in q[k].bits)
  /\ \A i, k \in DOMAIN q :
       /\ i < k /\ FromMouse(q, i) /\ FromMouse(q, k)
       /\ \A j \in DOMAIN q : i < j /\ j < k => ~FromMouse(q, j)
       => q[k].pos = (q[i].pos % 3) + 1
  /\ \A k \in DOMAIN q :
       FromMouse(q, k) /\ (\A j \in DOMAIN q : j < k => ~FromMouse(q, j))
       => q[k].pos = n + 1
  /\ \A k \in DOMAIN q :
       FromMouse(q, k) /\ (\A j \in DOMAIN q : j > k => ~FromMouse(q, j))
       => q[k].pos % 3 = m % 3
  /\ (\A k \in DOMAIN q : ~FromMouse(q, k)) => m % 3 = n

\* What holds at each step of Init, as long as no key came before the
\* controller's answer.
ConfigInv ==
  /\ pc = "enable" => config = before
  /\ pc \in {"get", "status", "set"} => config = before \ {MouseOff}
  /\ pc \in {"enable", "get", "status", "set", "defaults"} =>
       mouse \in {"absent", "idle"}
  /\ pc \in {"ack1", "stream"} => mouse \in {"absent", "idle", "defaults"}
  /\ ~early =>
       /\ pc \in {"enable", "get"} => port = <<>>
       /\ pc = "status" => port # <<>> /\ Head(port).bits = before \ {MouseOff}
       /\ pc = "set" => status = (before \cup {IrqMouse}) \ {MouseOff}
       /\ pc \notin {"enable", "get", "status", "set"} =>
            config = (before \cup {IrqMouse}) \ {MouseOff}

\* What holds at each step of Init, as long as nothing disturbs it: no answer
\* is left over, and after the second one the mouse's bytes are in order.
StepInv ==
  /\ pc # "run" => packet = <<>>
  /\ mouse # "streaming" => sent.moves = 0
  /\ quiet =>
       /\ pc \in {"enable", "get", "set", "defaults", "stream"} => port = <<>>
       /\ pc = "status" => Len(port) = 1
       /\ pc = "ack1" => \/ mouse \in {"absent", "defaults"} /\ port = <<>>
                         \/ mouse = "idle" /\ Len(port) = 1
       /\ pc = "stream" => mouse = "idle"
       /\ pc = "ack2" => \/ mouse = "stream" /\ port = <<>>
                         \/ /\ mouse = "streaming" /\ MouseData
                            /\ InOrder(Tail(port), 0, sent.moves)
       /\ pc \in {"activate", "run"} =>
            /\ mouse = "streaming" /\ InOrder(port, Len(packet), sent.moves)
            /\ Len(packet) <= 2 /\ \A k \in DOMAIN packet : packet[k] = k

\* No byte of a packet is there while a keyboard interrupt may take it.
LeftoverInv ==
  quiet /\ Leftover =>
    /\ pc = "ack2" => port = <<>> \/ Tail(port) = <<>>
    /\ pc \in {"activate", "run"} => port = <<>>

\* No interrupt request waits for its acknowledgement.
NoneInService == in_service = {}

Ps2Type ==
  /\ pc \in {"enable", "get", "status", "set", "defaults", "ack1", "stream",
             "ack2", "activate", "run"}
  /\ port \in Seq(PortByte) /\ packet \in Seq(0..3)
  /\ config \in SUBSET Int /\ status \in SUBSET Int
  /\ sent \in [keys : Nat, moves : Nat]
  /\ early \in BOOLEAN /\ quiet \in BOOLEAN

-----------------------------------------------------------------------------
(* Queues.                                                                 *)

\* What the devices put at the end of the port and the driver takes from it.
LEMMA QueueFacts ==
  ASSUME NEW q \in Seq(PortByte)
  PROVE  /\ Len(q) \in Nat /\ DOMAIN q = 1..Len(q)
         /\ \A k \in DOMAIN q : q[k] \in PortByte
         /\ \A b \in PortByte :
              /\ Append(q, b) \in Seq(PortByte) /\ Len(Append(q, b)) = Len(q) + 1
              /\ Append(q, b)[Len(q) + 1] = b
              /\ \A k \in DOMAIN q : Append(q, b)[k] = q[k]
         /\ q # <<>> =>
              /\ Head(q) = q[1] /\ Head(q) \in PortByte /\ Len(q) > 0
              /\ Tail(q) \in Seq(PortByte) /\ Len(Tail(q)) = Len(q) - 1
              /\ \A k \in DOMAIN Tail(q) : Tail(q)[k] = q[k + 1]
  OBVIOUS

\* A byte at the port and its parts.
LEMMA ByteType ==
  /\ \A bits \in SUBSET Int, pos \in 0..3,
        src \in {"keyboard", "mouse", "controller"} :
       /\ Byte(src, bits, pos) \in PortByte
       /\ Byte(src, bits, pos).src = src
       /\ Byte(src, bits, pos).bits = bits
       /\ Byte(src, bits, pos).pos = pos
  /\ \A b \in PortByte : /\ b.bits \in SUBSET Int /\ b.pos \in 0..3
                         /\ b.src \in {"keyboard", "mouse", "controller"}
  BY DEF Byte, PortByte

\* The positions of a packet.
LEMMA SmallFacts ==
  ASSUME NEW n
  PROVE  /\ n \in Nat /\ n <= 2 => n \in 0..2
         /\ n \in 0..2 => n + 1 \in 0..3
         /\ n \in 0..2 /\ n # 2 => n + 1 <= 2
  OBVIOUS

\* Counting bytes by threes.
LEMMA ModFacts ==
  ASSUME NEW m \in Nat
  PROVE  /\ m % 3 \in 0..2 /\ (m % 3) + 1 \in 1..3
         /\ ((m % 3) + 1) % 3 = (m + 1) % 3
  OBVIOUS

\* Appending to a port that is empty and one that is not.
LEMMA PortFacts ==
  ASSUME NEW q \in Seq(PortByte), NEW b \in PortByte
  PROVE  /\ Append(q, b) # <<>>
         /\ q = <<>> => Len(Append(q, b)) = 1 /\ Tail(Append(q, b)) = <<>>
         /\ q # <<>> => Tail(Append(q, b)) = Append(Tail(q), b)
         /\ q # <<>> => Tail(q) \in Seq(PortByte)
         /\ Len(q) = 1 => q # <<>> /\ Tail(q) = <<>>
<1>1. q # <<>> => Tail(q) \in Seq(PortByte)
  OBVIOUS
<1>2. q = <<>> => Len(Append(q, b)) = 1 /\ Tail(Append(q, b)) = <<>>
  OBVIOUS
<1>3. q # <<>> => Tail(Append(q, b)) = Append(Tail(q), b)
  OBVIOUS
<1>4. Len(Append(q, b)) = Len(q) + 1 /\ Len(q) \in Nat
  OBVIOUS
<1>5. Append(q, b) # <<>>
  BY <1>4
<1>6. Len(q) = 1 => q # <<>>
  <2>1. ASSUME q = <<>> PROVE Len(q) = 0
    BY <2>1
  <2>2. Len(q) = 1 => Len(q) # 0
    OBVIOUS
  <2> QED BY <2>1, <2>2, Zenon
<1>7. Len(q) = 1 => Tail(q) = <<>>
  <2> SUFFICES ASSUME Len(q) = 1 PROVE Tail(q) = <<>>
    OBVIOUS
  <2>1. Tail(q) \in Seq(PortByte) /\ Len(Tail(q)) = 0
    BY <1>6, QueueFacts
  <2> QED BY <2>1, EmptySeq
<1> QED BY <1>1, <1>2, <1>3, <1>5, <1>6, <1>7

\* The mouse's next byte goes behind its others.
LEMMA OrderAppendMouse ==
  ASSUME NEW q \in Seq(PortByte), NEW n \in 0..2, NEW m \in Nat,
         InOrder(q, n, m), NEW b \in PortByte, b.src = "mouse",
         b.pos = (m % 3) + 1, m % 3 = 0 => Sync \in b.bits
  PROVE  InOrder(Append(q, b), n, m + 1)
<1> DEFINE r == Append(q, b)
           z == Len(q) + 1
<1>1. /\ r \in Seq(PortByte) /\ DOMAIN r = 1..z /\ r[z] = b
      /\ z \in Nat /\ DOMAIN q = 1..(z - 1) /\ z \notin DOMAIN q
      /\ \A k \in DOMAIN q : r[k] = q[k] /\ k \in DOMAIN r /\ k < z /\ k \in Nat
      /\ \A k \in DOMAIN r : k = z \/ k \in DOMAIN q
      /\ z \in DOMAIN r
  BY QueueFacts
<1> HIDE DEF r, z
<1>2. FromMouse(r, z) /\ \A k \in DOMAIN q : FromMouse(r, k) <=> FromMouse(q, k)
  BY <1>1 DEF FromMouse
<1>3. /\ m % 3 \in 0..2 /\ b.pos \in 1..3 /\ b.pos % 3 = (m + 1) % 3
      /\ b.pos = 1 => m % 3 = 0
  BY ModFacts
<1>4. \A k \in DOMAIN r : FromMouse(r, k) =>
        r[k].pos \in 1..3 /\ (r[k].pos = 1 => Sync \in r[k].bits)
  BY <1>1, <1>2, <1>3 DEF InOrder
<1>5. ASSUME NEW i \in DOMAIN r, NEW k \in DOMAIN r,
             i < k, FromMouse(r, i), FromMouse(r, k),
             \A j \in DOMAIN r : i < j /\ j < k => ~FromMouse(r, j)
      PROVE  r[k].pos = (r[i].pos % 3) + 1
  <2>1. i \in DOMAIN q /\ FromMouse(q, i)
    BY <1>1, <1>2, <1>5
  <2>2. CASE k = z
    <3>1. \A j \in DOMAIN q : j > i => ~FromMouse(q, j)
      BY <1>1, <1>2, <1>5, <2>1, <2>2
    <3>2. q[i].pos % 3 = m % 3
      BY <2>1, <3>1 DEF InOrder
    <3> QED BY <1>1, <2>1, <2>2, <3>2
  <2>3. CASE k \in DOMAIN q
    <3>1. /\ FromMouse(q, k)
          /\ \A j \in DOMAIN q : i < j /\ j < k => ~FromMouse(q, j)
      BY <1>1, <1>2, <1>5, <2>3
    <3>2. q[k].pos = (q[i].pos % 3) + 1
      BY <1>5, <2>1, <2>3, <3>1 DEF InOrder
    <3> QED BY <1>1, <2>1, <2>3, <3>2
  <2> QED BY <1>1, <2>2, <2>3
<1>6. ASSUME NEW k \in DOMAIN r, FromMouse(r, k),
             \A j \in DOMAIN r : j < k => ~FromMouse(r, j)
      PROVE  r[k].pos = n + 1
  <2>1. CASE k = z
    <3>1. \A j \in DOMAIN q : ~FromMouse(q, j)
      BY <1>1, <1>2, <1>6, <2>1
    <3>2. m % 3 = n
      BY <3>1 DEF InOrder
    <3> QED BY <1>1, <2>1, <3>2
  <2>2. CASE k \in DOMAIN q
    <3>1. FromMouse(q, k) /\ \A j \in DOMAIN q : j < k => ~FromMouse(q, j)
      BY <1>1, <1>2, <1>6, <2>2
    <3> QED BY <1>1, <2>2, <3>1 DEF InOrder
  <2> QED BY <1>1, <2>1, <2>2
<1>7. ASSUME NEW k \in DOMAIN r, FromMouse(r, k),
             \A j \in DOMAIN r : j > k => ~FromMouse(r, j)
      PROVE  r[k].pos % 3 = (m + 1) % 3
  <2>1. k = z
    BY <1>1, <1>2, <1>7
  <2> QED BY <1>1, <1>3, <2>1
<1> QED BY <1>1, <1>2, <1>4, <1>5, <1>6, <1>7 DEF InOrder, r

\* A byte of the keyboard's changes nothing.
LEMMA OrderAppendOther ==
  ASSUME NEW q \in Seq(PortByte), NEW n \in 0..2, NEW m \in Nat,
         InOrder(q, n, m), NEW b \in PortByte, b.src # "mouse"
  PROVE  InOrder(Append(q, b), n, m)
<1> DEFINE r == Append(q, b)
           z == Len(q) + 1
<1>1. /\ r \in Seq(PortByte) /\ DOMAIN r = 1..z /\ r[z] = b
      /\ \A k \in DOMAIN q : r[k] = q[k] /\ k \in DOMAIN r
      /\ \A k \in DOMAIN r : k = z \/ k \in DOMAIN q
  BY QueueFacts
<1> HIDE DEF r, z
<1>2. \A k : FromMouse(r, k) <=> FromMouse(q, k)
  BY <1>1 DEF FromMouse
<1>3. \A k : FromMouse(q, k) => k \in DOMAIN q /\ r[k] = q[k]
  BY <1>1 DEF FromMouse
<1> HIDE DEF FromMouse
<1>4. \A k \in DOMAIN r : FromMouse(r, k) =>
        r[k].pos \in 1..3 /\ (r[k].pos = 1 => Sync \in r[k].bits)
  BY <1>2, <1>3 DEF InOrder
<1>5. ASSUME NEW i \in DOMAIN r, NEW k \in DOMAIN r,
             i < k, FromMouse(r, i), FromMouse(r, k),
             \A j \in DOMAIN r : i < j /\ j < k => ~FromMouse(r, j)
      PROVE  r[k].pos = (r[i].pos % 3) + 1
  <2>1. /\ FromMouse(q, i) /\ FromMouse(q, k) /\ i \in DOMAIN q /\ k \in DOMAIN q
        /\ \A j \in DOMAIN q : i < j /\ j < k => ~FromMouse(q, j)
    BY <1>1, <1>2, <1>3, <1>5
  <2>2. q[k].pos = (q[i].pos % 3) + 1
    BY <1>5, <2>1 DEF InOrder
  <2> QED BY <1>3, <2>1, <2>2
<1>6. ASSUME NEW k \in DOMAIN r, FromMouse(r, k),
             \A j \in DOMAIN r : j < k => ~FromMouse(r, j)
      PROVE  r[k].pos = n + 1
  <2>1. /\ FromMouse(q, k) /\ k \in DOMAIN q
        /\ \A j \in DOMAIN q : j < k => ~FromMouse(q, j)
    BY <1>1, <1>2, <1>3, <1>6
  <2> QED BY <1>3, <2>1 DEF InOrder
<1>7. ASSUME NEW k \in DOMAIN r, FromMouse(r, k),
             \A j \in DOMAIN r : j > k => ~FromMouse(r, j)
      PROVE  r[k].pos % 3 = m % 3
  <2>1. /\ FromMouse(q, k) /\ k \in DOMAIN q
        /\ \A j \in DOMAIN q : j > k => ~FromMouse(q, j)
    BY <1>1, <1>2, <1>3, <1>7
  <2>2. q[k].pos % 3 = m % 3
    BY <2>1 DEF InOrder
  <2> QED BY <1>3, <2>1, <2>2
<1>8. ASSUME \A k \in DOMAIN r : ~FromMouse(r, k) PROVE m % 3 = n
  <2>1. \A k \in DOMAIN q : ~FromMouse(q, k)
    BY <1>1, <1>2, <1>8
  <2> QED BY <2>1 DEF InOrder
<1> QED BY <1>4, <1>5, <1>6, <1>7, <1>8 DEF InOrder, r

\* Of a byte of the mouse's taken from the port, after n of its packet.
LEMMA OrderTailMouse ==
  ASSUME NEW q \in Seq(PortByte), q # <<>>, NEW n \in 0..2, NEW m \in Nat,
         InOrder(q, n, m), Head(q).src = "mouse"
  PROVE  /\ Head(q).pos = n + 1 /\ (n = 0 => Sync \in Head(q).bits)
         /\ InOrder(Tail(q), IF n = 2 THEN 0 ELSE n + 1, m)
<1> DEFINE r == Tail(q)
           p == IF n = 2 THEN 0 ELSE n + 1
<1>1. /\ r \in Seq(PortByte) /\ Len(q) \in Nat /\ Len(r) = Len(q) - 1
      /\ DOMAIN q = 1..Len(q) /\ DOMAIN r = 1..Len(r) /\ Len(q) > 0
      /\ \A k \in DOMAIN r : r[k] = q[k + 1]
      /\ Head(q) = q[1]
  BY QueueFacts
<1> HIDE DEF r
<1>2. /\ 1 \in DOMAIN q /\ \A k \in DOMAIN r : k \in Nat /\ k + 1 \in DOMAIN q
      /\ \A k \in DOMAIN q : k \in Nat /\ (k = 1 \/ (k > 1 /\ k - 1 \in DOMAIN r))
  BY <1>1
<1>3. /\ FromMouse(q, 1)
      /\ \A k \in DOMAIN r : FromMouse(r, k) <=> FromMouse(q, k + 1)
  BY <1>1, <1>2 DEF FromMouse
<1>4. q[1].pos = n + 1 /\ (n = 0 => Sync \in q[1].bits)
  <2>1. \A j \in DOMAIN q : ~(j < 1)
    BY <1>1
  <2>2. q[1].pos = n + 1
    BY <1>2, <1>3, <2>1 DEF InOrder
  <2>3. q[1].pos = 1 => Sync \in q[1].bits
    BY <1>2, <1>3 DEF InOrder
  <2> QED BY <2>2, <2>3
<1>5. p \in 0..2 /\ (n + 1) % 3 = p
  OBVIOUS
<1> HIDE DEF p
<1>6. \A k \in DOMAIN r : FromMouse(r, k) =>
        r[k].pos \in 1..3 /\ (r[k].pos = 1 => Sync \in r[k].bits)
  BY <1>1, <1>2, <1>3 DEF InOrder
<1>7. ASSUME NEW i \in DOMAIN r, NEW k \in DOMAIN r,
             i < k, FromMouse(r, i), FromMouse(r, k),
             \A j \in DOMAIN r : i < j /\ j < k => ~FromMouse(r, j)
      PROVE  r[k].pos = (r[i].pos % 3) + 1
  <2>1. /\ FromMouse(q, i + 1) /\ FromMouse(q, k + 1)
        /\ i + 1 \in DOMAIN q /\ k + 1 \in DOMAIN q /\ i + 1 < k + 1
    BY <1>2, <1>3, <1>7
  <2>2. \A j \in DOMAIN q : i + 1 < j /\ j < k + 1 => ~FromMouse(q, j)
    <3> SUFFICES ASSUME NEW j \in DOMAIN q, i + 1 < j, j < k + 1
                 PROVE  ~FromMouse(q, j)
      OBVIOUS
    <3>1. j - 1 \in DOMAIN r /\ i < j - 1 /\ j - 1 < k /\ (j - 1) + 1 = j
      BY <1>2
    <3> QED BY <1>3, <1>7, <3>1
  <2>3. q[k + 1].pos = (q[i + 1].pos % 3) + 1
    BY <2>1, <2>2 DEF InOrder
  <2> QED BY <1>1, <2>3
<1>8. ASSUME NEW k \in DOMAIN r, FromMouse(r, k),
             \A j \in DOMAIN r : j < k => ~FromMouse(r, j)
      PROVE  r[k].pos = p + 1
  <2>1. FromMouse(q, k + 1) /\ k + 1 \in DOMAIN q /\ 1 < k + 1
    BY <1>1, <1>2, <1>3, <1>8
  <2>2. \A j \in DOMAIN q : 1 < j /\ j < k + 1 => ~FromMouse(q, j)
    <3> SUFFICES ASSUME NEW j \in DOMAIN q, 1 < j, j < k + 1
                 PROVE  ~FromMouse(q, j)
      OBVIOUS
    <3>1. j - 1 \in DOMAIN r /\ j - 1 < k /\ (j - 1) + 1 = j
      BY <1>2
    <3> QED BY <1>3, <1>8, <3>1
  <2>3. q[k + 1].pos = (q[1].pos % 3) + 1
    BY <1>2, <1>3, <2>1, <2>2 DEF InOrder
  <2> QED BY <1>1, <1>4, <1>5, <2>3
<1>9. ASSUME NEW k \in DOMAIN r, FromMouse(r, k),
             \A j \in DOMAIN r : j > k => ~FromMouse(r, j)
      PROVE  r[k].pos % 3 = m % 3
  <2>1. FromMouse(q, k + 1) /\ k + 1 \in DOMAIN q
    BY <1>2, <1>3, <1>9
  <2>2. \A j \in DOMAIN q : j > k + 1 => ~FromMouse(q, j)
    <3> SUFFICES ASSUME NEW j \in DOMAIN q, j > k + 1
                 PROVE  ~FromMouse(q, j)
      OBVIOUS
    <3>1. j - 1 \in DOMAIN r /\ j - 1 > k /\ (j - 1) + 1 = j
      BY <1>1, <1>2
    <3> QED BY <1>3, <1>9, <3>1
  <2>3. q[k + 1].pos % 3 = m % 3
    BY <2>1, <2>2 DEF InOrder
  <2> QED BY <1>1, <2>3
<1>10. ASSUME \A k \in DOMAIN r : ~FromMouse(r, k) PROVE m % 3 = p
  <2>1. \A j \in DOMAIN q : j > 1 => ~FromMouse(q, j)
    <3> SUFFICES ASSUME NEW j \in DOMAIN q, j > 1 PROVE ~FromMouse(q, j)
      OBVIOUS
    <3>1. j - 1 \in DOMAIN r /\ (j - 1) + 1 = j
      BY <1>2
    <3> QED BY <1>3, <1>10, <3>1
  <2>2. q[1].pos % 3 = m % 3
    BY <1>2, <1>3, <2>1 DEF InOrder
  <2> QED BY <1>4, <1>5, <2>2
<1>11. InOrder(r, p, m)
  BY <1>6, <1>7, <1>8, <1>9, <1>10 DEF InOrder
<1> QED BY <1>1, <1>4, <1>11 DEF r, p

\* Of a byte of the keyboard's taken from the port.
LEMMA OrderTailOther ==
  ASSUME NEW q \in Seq(PortByte), q # <<>>, NEW n \in 0..2, NEW m \in Nat,
         InOrder(q, n, m), Head(q).src # "mouse"
  PROVE  InOrder(Tail(q), n, m)
<1> DEFINE r == Tail(q)
<1>1. /\ r \in Seq(PortByte) /\ Len(q) \in Nat /\ Len(r) = Len(q) - 1
      /\ DOMAIN q = 1..Len(q) /\ DOMAIN r = 1..Len(r) /\ Len(q) > 0
      /\ \A k \in DOMAIN r : r[k] = q[k + 1]
      /\ Head(q) = q[1]
  BY QueueFacts
<1> HIDE DEF r
<1>2. /\ \A k \in DOMAIN r : k \in Nat /\ k + 1 \in DOMAIN q
      /\ \A k \in DOMAIN q : k \in Nat /\ (k = 1 \/ (k > 1 /\ k - 1 \in DOMAIN r))
  BY <1>1
<1>3. /\ ~FromMouse(q, 1)
      /\ \A k \in DOMAIN r : FromMouse(r, k) <=> FromMouse(q, k + 1)
  BY <1>1, <1>2 DEF FromMouse
<1>4. \A k \in DOMAIN q : FromMouse(q, k) =>
        k - 1 \in DOMAIN r /\ FromMouse(r, k - 1) /\ (k - 1) + 1 = k
  BY <1>2, <1>3
<1>5. \A k \in DOMAIN r : FromMouse(r, k) =>
        r[k].pos \in 1..3 /\ (r[k].pos = 1 => Sync \in r[k].bits)
  BY <1>1, <1>2, <1>3 DEF InOrder
<1>6. ASSUME NEW i \in DOMAIN r, NEW k \in DOMAIN r,
             i < k, FromMouse(r, i), FromMouse(r, k),
             \A j \in DOMAIN r : i < j /\ j < k => ~FromMouse(r, j)
      PROVE  r[k].pos = (r[i].pos % 3) + 1
  <2>1. /\ FromMouse(q, i + 1) /\ FromMouse(q, k + 1)
        /\ i + 1 \in DOMAIN q /\ k + 1 \in DOMAIN q /\ i + 1 < k + 1
    BY <1>2, <1>3, <1>6
  <2>2. \A j \in DOMAIN q : i + 1 < j /\ j < k + 1 => ~FromMouse(q, j)
    <3> SUFFICES ASSUME NEW j \in DOMAIN q, i + 1 < j, j < k + 1,
                        FromMouse(q, j)
                 PROVE  FALSE
      OBVIOUS
    <3>1. j - 1 \in DOMAIN r /\ FromMouse(r, j - 1)
      BY <1>4
    <3>2. i < j - 1 /\ j - 1 < k
      BY <1>2
    <3> QED BY <1>6, <3>1, <3>2
  <2>3. q[k + 1].pos = (q[i + 1].pos % 3) + 1
    BY <2>1, <2>2 DEF InOrder
  <2> QED BY <1>1, <2>3
<1>7. ASSUME NEW k \in DOMAIN r, FromMouse(r, k),
             \A j \in DOMAIN r : j < k => ~FromMouse(r, j)
      PROVE  r[k].pos = n + 1
  <2>1. FromMouse(q, k + 1) /\ k + 1 \in DOMAIN q
    BY <1>2, <1>3, <1>7
  <2>2. \A j \in DOMAIN q : j < k + 1 => ~FromMouse(q, j)
    BY <1>2, <1>4, <1>7
  <2>3. q[k + 1].pos = n + 1
    BY <2>1, <2>2 DEF InOrder
  <2> QED BY <1>1, <2>3
<1>8. ASSUME NEW k \in DOMAIN r, FromMouse(r, k),
             \A j \in DOMAIN r : j > k => ~FromMouse(r, j)
      PROVE  r[k].pos % 3 = m % 3
  <2>1. FromMouse(q, k + 1) /\ k + 1 \in DOMAIN q
    BY <1>2, <1>3, <1>8
  <2>2. \A j \in DOMAIN q : j > k + 1 => ~FromMouse(q, j)
    BY <1>2, <1>4, <1>8
  <2>3. q[k + 1].pos % 3 = m % 3
    BY <2>1, <2>2 DEF InOrder
  <2> QED BY <1>1, <2>3
<1>9. ASSUME \A k \in DOMAIN r : ~FromMouse(r, k) PROVE m % 3 = n
  <2>1. \A j \in DOMAIN q : ~FromMouse(q, j)
    BY <1>4, <1>9
  <2> QED BY <2>1 DEF InOrder
<1>10. InOrder(r, n, m)
  BY <1>5, <1>6, <1>7, <1>8, <1>9 DEF InOrder
<1> QED BY <1>10 DEF r

\* An empty port is in order before the first byte of the mouse's.
LEMMA OrderEmpty == InOrder(<<>>, 0, 0)
<1>1. DOMAIN <<>> = {} /\ 0 % 3 = 0
  OBVIOUS
<1> QED BY <1>1 DEF InOrder, FromMouse

-----------------------------------------------------------------------------
(* The invariants.                                                         *)

\* What the port, the packet and the history may hold at any step.
THEOREM TypeHolds == Spec => []Ps2Type
<1>1. Init => Ps2Type
  <2> SUFFICES ASSUME Init PROVE Ps2Type
    OBVIOUS
  <2>1. config \in SUBSET Int
    BY Ps2Assumption DEF Init, ConfigBits, IrqKeyboard, IrqMouse,
       KeyboardOff, MouseOff
  <2>2. sent \in [keys : Nat, moves : Nat]
    BY DEF Init
  <2>3. port \in Seq(PortByte) /\ packet \in Seq(0..3)
    BY DEF Init
  <2> QED BY <2>1, <2>2, <2>3 DEF Init, Ps2Type
<1>2. Ps2Type /\ [Next]_vars => Ps2Type'
  <2> SUFFICES ASSUME Ps2Type, [Next]_vars PROVE Ps2Type'
    OBVIOUS
  <2>0. /\ port \in Seq(PortByte) /\ packet \in Seq(0..3)
        /\ sent.keys \in Nat /\ sent.moves \in Nat
        /\ \A b \in PortByte : Append(port, b) \in Seq(PortByte)
        /\ port # <<>> => Tail(port) \in Seq(PortByte) /\ Head(port) \in PortByte
    BY QueueFacts DEF Ps2Type
  <2>1. CASE Key
    <3>1. PICK bits \in Scancodes : port' = Append(port, Byte("keyboard", bits, 0))
      BY <2>1 DEF Key
    <3>2. bits \in SUBSET Int
      BY Ps2Assumption DEF ConfigBits, IrqKeyboard, IrqMouse, KeyboardOff, MouseOff
    <3>3. port' \in Seq(PortByte)
      BY <2>0, <3>1, <3>2, ByteType
    <3>4. sent' \in [keys : Nat, moves : Nat]
      BY <2>0, <2>1 DEF Key
    <3>5. early' \in BOOLEAN /\ quiet' \in BOOLEAN
      BY <2>1 DEF Key
    <3> QED BY <2>1, <3>3, <3>4, <3>5 DEF Key, Ps2Type
  <2>2. CASE Acknowledge
    <3>1. {1, 3, 4, 5} \in SUBSET Int
      OBVIOUS
    <3>2. port' \in Seq(PortByte)
      BY <2>0, <2>2, <3>1, ByteType DEF Acknowledge
    <3> QED BY <2>2, <3>2 DEF Acknowledge, Ps2Type, ghosts
  <2>3. CASE Move
    <3>1. PICK bits \in IF sent.moves % 3 = 0 THEN {{Sync}} ELSE {{}, {Sync}} :
            port' = Append(port, Byte("mouse", bits, (sent.moves % 3) + 1))
      BY <2>3 DEF Move
    <3>2. bits \in SUBSET Int /\ (sent.moves % 3) + 1 \in 0..3
      BY <2>0 DEF Sync
    <3>3. port' \in Seq(PortByte)
      BY <2>0, <3>1, <3>2, ByteType
    <3>4. sent' \in [keys : Nat, moves : Nat]
      BY <2>0, <2>3 DEF Move
    <3> QED BY <2>3, <3>3, <3>4 DEF Move, Ps2Type, ghosts
  <2>4. CASE Enable
    BY <2>4 DEF Enable, Ps2Type, ghosts
  <2>5. CASE GetStatus
    <3>0. Byte("controller", config, 0) \in PortByte
      BY ByteType DEF Ps2Type
    <3>1. port' \in Seq(PortByte)
      BY <2>0, <2>5, <3>0 DEF GetStatus
    <3> QED BY <2>5, <3>1 DEF GetStatus, Ps2Type, ghosts
  <2>6. CASE ReadStatus
    <3>1. status' \in SUBSET Int /\ port' \in Seq(PortByte)
      BY <2>0, <2>6, ByteType DEF ReadStatus, IrqMouse
    <3> QED BY <2>6, <3>1 DEF ReadStatus, Ps2Type, ghosts
  <2>7. CASE SetStatus
    BY <2>7 DEF SetStatus, Ps2Type, ghosts
  <2>8. CASE Write
    BY <2>8 DEF Write, Ps2Type, ghosts
  <2>9. CASE ReadAck
    BY <2>0, <2>9 DEF ReadAck, Ps2Type, ghosts
  <2>10. CASE Poll
    BY <2>10 DEF Poll, Ps2Type, ghosts
  <2>11. CASE Expire
    BY <2>11 DEF Expire, Ps2Type
  <2>12. CASE Activate
    BY <2>12 DEF Activate, Ps2Type, ghosts
  <2>13. CASE TimerIRQ
    BY <2>13 DEF TimerIRQ, Interrupt, Ps2Type, ghosts
  <2>14. CASE KeyboardIRQ
    BY <2>0, <2>14 DEF KeyboardIRQ, Interrupt, Ps2Type, ghosts
  <2>15. CASE MouseIRQ
    <3>1. MouseData => Head(port).pos \in 0..3
      BY <2>0, ByteType DEF MouseData
    <3>2. packet' \in Seq(0..3) /\ port' \in Seq(PortByte)
      <4>1. CASE ~MouseData
        BY <2>0, <2>15, <4>1 DEF MouseIRQ, HandleInterrupt
      <4>2. CASE MouseData
        <5>1. Append(packet, Head(port).pos) \in Seq(0..3)
          BY <2>0, <3>1, <4>2
        <5>2. <<>> \in Seq(0..3) /\ Tail(port) \in Seq(PortByte)
          BY <2>0, <4>2 DEF MouseData
        <5> QED BY <2>15, <4>2, <5>1, <5>2 DEF MouseIRQ, HandleInterrupt
      <4> QED BY <4>1, <4>2
    <3> QED BY <2>15, <3>2 DEF MouseIRQ, Interrupt, Ps2Type, ghosts
  <2>16. CASE UNCHANGED vars
    BY <2>16 DEF vars, Ps2Type
  <2> QED BY <2>1, <2>2, <2>3, <2>4, <2>5, <2>6, <2>7, <2>8, <2>9, <2>10,
             <2>11, <2>12, <2>13, <2>14, <2>15, <2>16 DEF Next, MouseInit
<1> QED BY <1>1, <1>2, PTL DEF Spec

\* Of the controller's configuration: the byte Init reads at 0x60 is the
\* controller's answer, whatever the devices do, unless a key came first.
THEOREM ConfigInvHolds == Spec => []ConfigInv
<1>1. Init => ConfigInv
  BY DEF Init, ConfigInv
<1>2. Ps2Type /\ ConfigInv /\ [Next]_vars => ConfigInv'
  <2> SUFFICES ASSUME Ps2Type, ConfigInv, [Next]_vars PROVE ConfigInv'
    OBVIOUS
  <2>0. /\ port \in Seq(PortByte)
        /\ pc \in {"enable", "get", "status", "set", "defaults", "ack1",
                   "stream", "ack2", "activate", "run"}
    BY DEF Ps2Type
  <2>a. \A b \in PortByte : /\ Append(port, b) # <<>>
                            /\ port # <<>> => Head(Append(port, b)) = Head(port)
                            /\ port = <<>> => Head(Append(port, b)) = b
    BY <2>0
  <2>1. CASE Key
    <3>1. PICK bits \in Scancodes : port' = Append(port, Byte("keyboard", bits, 0))
      BY <2>1 DEF Key
    <3>2. Byte("keyboard", bits, 0) \in PortByte
      BY Ps2Assumption, ByteType
         DEF ConfigBits, IrqKeyboard, IrqMouse, KeyboardOff, MouseOff
    <3>3. port # <<>> => port' # <<>> /\ Head(port') = Head(port)
      BY <2>a, <3>1, <3>2
    <3>4. early' = (early \/ pc \in {"enable", "get"})
      BY <2>1 DEF Key
    <3>5. ~early' => ~early /\ pc \notin {"enable", "get"}
      BY <3>4
    <3> QED BY <2>1, <3>3, <3>5 DEF Key, ConfigInv
  <2>2. CASE Acknowledge
    <3>1. pc \notin {"enable", "get", "status", "set", "defaults"}
      BY <2>2 DEF Acknowledge, ConfigInv
    <3> QED BY <2>2, <3>1 DEF Acknowledge, ConfigInv, ghosts
  <2>3. CASE Move
    <3>1. pc \notin {"enable", "get", "status", "set", "defaults"}
      BY <2>3 DEF Move, ConfigInv
    <3> QED BY <2>3, <3>1 DEF Move, ConfigInv, ghosts
  <2>4. CASE Enable
    BY <2>4 DEF Enable, ConfigInv, ghosts
  <2>5. CASE GetStatus
    <3>1. Byte("controller", config, 0) \in PortByte
          /\ Byte("controller", config, 0).bits = config
      BY ByteType DEF Ps2Type
    <3>2. port' # <<>> /\ (~early => Head(port').bits = config)
      BY <2>5, <2>a, <3>1 DEF GetStatus, ConfigInv
    <3> QED BY <2>5, <3>2 DEF GetStatus, ConfigInv, ghosts
  <2>6. CASE ReadStatus
    <3>1. ~early => status' = (before \cup {IrqMouse}) \ {MouseOff}
      BY <2>6 DEF ReadStatus, ConfigInv, IrqMouse, MouseOff
    <3> QED BY <2>6, <3>1 DEF ReadStatus, ConfigInv, ghosts
  <2>7. CASE SetStatus
    BY <2>7 DEF SetStatus, ConfigInv, ghosts
  <2>8. CASE Write
    <3>1. pc = "defaults" => mouse' \in {"absent", "defaults"}
      BY <2>8 DEF Write, Hears, ConfigInv
    <3> QED BY <2>8, <3>1 DEF Write, ConfigInv, ghosts
  <2>9. CASE ReadAck
    BY <2>9 DEF ReadAck, ConfigInv, ghosts
  <2>10. CASE Poll
    BY <2>10 DEF Poll, ConfigInv, ghosts
  <2>11. CASE Expire
    BY <2>11 DEF Expire, ConfigInv
  <2>12. CASE Activate
    BY <2>12 DEF Activate, ConfigInv, ghosts
  <2>13. CASE TimerIRQ
    BY <2>13 DEF TimerIRQ, Interrupt, ConfigInv, ghosts
  <2>14. CASE KeyboardIRQ
    BY <2>14 DEF KeyboardIRQ, Interrupt, ConfigInv, ghosts
  <2>15. CASE MouseIRQ
    BY <2>15 DEF MouseIRQ, Interrupt, ConfigInv, ghosts
  <2>16. CASE UNCHANGED vars
    BY <2>16 DEF vars, ConfigInv
  <2> QED BY <2>1, <2>2, <2>3, <2>4, <2>5, <2>6, <2>7, <2>8, <2>9, <2>10,
             <2>11, <2>12, <2>13, <2>14, <2>15, <2>16 DEF Next, MouseInit
<1> QED BY <1>1, <1>2, TypeHolds, PTL DEF Spec

\* Unless a key came first, Init changes the two bits it means to change and
\* no other (mouse.cpp:42-50).
THEOREM ConfigKeptHolds == Spec => []ConfigKept
<1>1. ConfigInv => ConfigKept
  BY DEF ConfigInv, ConfigKept
<1> QED BY <1>1, ConfigInvHolds, PTL

\* HandleInterrupt acknowledges every request in full, at both controllers
\* (interrupts.cpp:212-216): between interrupts none is in service, so none
\* holds back those of lower priority.
THEOREM AcknowledgedInFull == Spec => []NoneInService
<1>1. Init => NoneInService
  BY DEF Init, NoneInService
<1>2. NoneInService /\ [Next]_vars => NoneInService'
  <2> USE DEF NoneInService
  <2> SUFFICES ASSUME in_service = {}, [Next]_vars PROVE in_service' = {}
    OBVIOUS
  <2>1. \A irq \in {0, 1, 12} : Eoi(Vector(irq), InService(irq, {})) = {}
    BY DEF Eoi, Vector, InService, Acked
  <2>2. CASE TimerIRQ \/ KeyboardIRQ \/ MouseIRQ
    BY <2>1, <2>2 DEF TimerIRQ, KeyboardIRQ, MouseIRQ, Interrupt
  <2>3. CASE ~(TimerIRQ \/ KeyboardIRQ \/ MouseIRQ)
    BY <2>3 DEF Next, MouseInit, Key, Acknowledge, Move, Enable, GetStatus,
       ReadStatus, SetStatus, Write, ReadAck, Poll, Expire, Activate, vars
  <2> QED BY <2>2, <2>3
<1> QED BY <1>1, <1>2, PTL DEF Spec

\* A keyboard request that is left over when Init has read its byte waits for
\* no byte of the mouse's, as long as the mouse rests until it is taken.
LEMMA LeftoverStep ==
  Ps2Type /\ ConfigInv /\ StepInv /\ LeftoverInv /\ [Next]_vars => LeftoverInv'
<1> SUFFICES ASSUME Ps2Type, ConfigInv, StepInv, LeftoverInv, [Next]_vars,
                    quiet', Leftover'
             PROVE  /\ pc' = "ack2" => port' = <<>> \/ Tail(port') = <<>>
                    /\ pc' \in {"activate", "run"} => port' = <<>>
  BY DEF LeftoverInv
<1>0. /\ port \in Seq(PortByte)
      /\ \A b \in PortByte :
           /\ port = <<>> => Head(Append(port, b)) = b
           /\ port = <<>> => Tail(Append(port, b)) = <<>>
           /\ port # <<>> => Head(Append(port, b)) = Head(port)
           /\ Append(port, b) # <<>>
  <2>1. port \in Seq(PortByte)
    BY DEF Ps2Type
  <2> QED BY <2>1
<1>1. 1 \in irr' /\ 1 \notin Raised(port', config')
  BY DEF Leftover, MouseData, Raised
<1>2. ~KeyboardIRQ /\ ~MouseIRQ
  <2>1. ASSUME KeyboardIRQ \/ MouseIRQ PROVE config' = config
    BY <2>1 DEF KeyboardIRQ, MouseIRQ, Interrupt
  <2> QED BY <1>1, <2>1 DEF KeyboardIRQ, MouseIRQ
<1>3. 1 \in irr
  BY <1>1, <1>2 DEF Next, MouseInit, Key, Acknowledge, Move, Enable, GetStatus,
     ReadStatus, SetStatus, Write, ReadAck, Poll, Expire, Activate, TimerIRQ,
     vars, Request
<1>4. Leftover \/ (port # <<>> /\ Head(port).src # "mouse")
  BY <1>3 DEF Leftover, MouseData
<1>5. ASSUME NEW b \in PortByte, port' = Append(port, b)
      PROVE  Leftover /\ (b.src = "mouse" \/ port # <<>>)
  BY <1>0, <1>4, <1>5 DEF Leftover, MouseData
<1>6. CASE Key
  <2>1. PICK bits \in Scancodes : port' = Append(port, Byte("keyboard", bits, 0))
    BY <1>6 DEF Key
  <2>2. /\ Byte("keyboard", bits, 0) \in PortByte
        /\ Byte("keyboard", bits, 0).src # "mouse"
    BY Ps2Assumption, ByteType
       DEF ConfigBits, IrqKeyboard, IrqMouse, KeyboardOff, MouseOff
  <2>3. Leftover /\ port # <<>>
    BY <1>5, <2>1, <2>2
  <2>4. quiet /\ pc = "run"
    BY <1>6 DEF Key
  <2> QED BY <2>3, <2>4 DEF LeftoverInv
<1>7. CASE Acknowledge
  <2>1. {1, 3, 4, 5} \in SUBSET Int
    OBVIOUS
  <2> DEFINE b == Byte("mouse", {1, 3, 4, 5}, 0)
  <2>2. b \in PortByte
    BY <2>1, ByteType
  <2> HIDE DEF b
  <2>3. /\ port' = Append(port, b) /\ pc' = pc /\ quiet
        /\ mouse \in {"defaults", "stream"}
    BY <1>7 DEF Acknowledge, ghosts, b
  <2>4. pc \notin {"activate", "run"} /\ (pc = "ack2" => port = <<>>)
    BY <2>3 DEF StepInv
  <2> QED BY <1>0, <2>2, <2>3, <2>4
<1>8. CASE Move
  <2>1. PICK bits \in IF sent.moves % 3 = 0 THEN {{Sync}} ELSE {{}, {Sync}} :
          port' = Append(port, Byte("mouse", bits, (sent.moves % 3) + 1))
    BY <1>8 DEF Move
  <2>2. bits \in SUBSET Int /\ (sent.moves % 3) + 1 \in 0..3
    BY <2>1 DEF Sync, Ps2Type
  <2>3. Byte("mouse", bits, (sent.moves % 3) + 1) \in PortByte
    BY <2>2, ByteType
  <2>4. Leftover
    BY <1>5, <2>1, <2>3
  <2> QED BY <1>8, <2>4 DEF Move
<1>9. CASE ReadAck
  <2>1. /\ quiet /\ port' = Tail(port) /\ pc \in {"ack1", "ack2"}
        /\ pc' = IF pc = "ack1" THEN "stream" ELSE "activate"
    BY <1>9 DEF ReadAck, ghosts
  <2>2. pc = "ack2" => MouseData
    BY <1>9, <2>1 DEF StepInv, ReadAck
  <2>3. pc = "ack2" => Leftover /\ port # <<>>
    BY <1>4, <2>2 DEF MouseData
  <2> QED BY <2>1, <2>3 DEF LeftoverInv
<1>10. CASE Write
  BY <1>10 DEF Write, StepInv, ghosts
<1>11. CASE Poll \/ Activate \/ TimerIRQ \/ UNCHANGED vars
  <2>1. /\ port' = port /\ irr' = irr /\ quiet' = quiet
        /\ pc' = pc \/ (pc = "activate" /\ pc' = "run")
    BY <1>11 DEF Poll, Activate, TimerIRQ, Interrupt, vars, ghosts
  <2>2. Leftover
    BY <2>1 DEF Leftover, MouseData
  <2> QED BY <2>1, <2>2 DEF LeftoverInv
<1>12. CASE Expire
  BY <1>12 DEF Expire
<1>13. CASE Enable \/ GetStatus \/ ReadStatus \/ SetStatus
  BY <1>13 DEF Enable, GetStatus, ReadStatus, SetStatus
<1> QED BY <1>2, <1>6, <1>7, <1>8, <1>9, <1>10, <1>11, <1>12, <1>13
        DEF Next, MouseInit

\* As long as nothing disturbs Init, it reads exactly the answers it asked
\* for, and the mouse's bytes stay in order from then on.
THEOREM StepInvHolds == Spec => [](StepInv /\ LeftoverInv)
<1>1. Init => StepInv /\ LeftoverInv
  BY DEF Init, StepInv, LeftoverInv
<1>2. Ps2Type /\ ConfigInv /\ StepInv /\ LeftoverInv /\ [Next]_vars => StepInv'
  <2> SUFFICES ASSUME Ps2Type, ConfigInv, StepInv, LeftoverInv, [Next]_vars
               PROVE  StepInv'
    OBVIOUS
  <2>0. /\ port \in Seq(PortByte) /\ packet \in Seq(0..3) /\ sent.moves \in Nat
        /\ pc \in {"enable", "get", "status", "set", "defaults", "ack1",
                   "stream", "ack2", "activate", "run"}
        /\ quiet \in BOOLEAN
        /\ pc # "run" => packet = <<>>
    BY DEF Ps2Type, StepInv
  <2>a. \A b \in PortByte :
          /\ Append(port, b) # <<>>
          /\ port = <<>> => Len(Append(port, b)) = 1 /\ Tail(Append(port, b)) = <<>>
          /\ port # <<>> => Tail(Append(port, b)) = Append(Tail(port), b)
          /\ port # <<>> => Tail(port) \in Seq(PortByte)
          /\ Len(port) = 1 => port # <<>> /\ Tail(port) = <<>>
    BY <2>0, PortFacts
  <2>b. ASSUME quiet, pc \in {"activate", "run"}
        PROVE  /\ InOrder(port, Len(packet), sent.moves) /\ Len(packet) \in 0..2
               /\ \A k \in DOMAIN packet : packet[k] = k
    <3>1. /\ InOrder(port, Len(packet), sent.moves) /\ Len(packet) <= 2
          /\ \A k \in DOMAIN packet : packet[k] = k
      BY <2>b DEF StepInv
    <3>2. Len(packet) \in Nat
      BY <2>0
    <3>3. Len(packet) <= 2
      BY <3>1
    <3>4. Len(packet) \in 0..2
      BY <3>2, <3>3, SmallFacts
    <3> QED BY <3>1, <3>4
  <2>1. CASE Key
    <3>1. PICK bits \in Scancodes : port' = Append(port, Byte("keyboard", bits, 0))
      BY <2>1 DEF Key
    <3>2. /\ Byte("keyboard", bits, 0) \in PortByte
          /\ Byte("keyboard", bits, 0).src # "mouse"
      BY Ps2Assumption, ByteType
         DEF ConfigBits, IrqKeyboard, IrqMouse, KeyboardOff, MouseOff
    <3>3. quiet' = (quiet /\ pc = "run") /\ pc' = pc /\ mouse' = mouse
          /\ packet' = packet /\ sent'.moves = sent.moves
      BY <2>1 DEF Key
    <3>4. quiet' => quiet /\ pc = "run"
      BY <3>3
    <3>5. ASSUME quiet, pc = "run"
          PROVE  InOrder(port', Len(packet), sent.moves)
      <4>1. InOrder(port, Len(packet), sent.moves) /\ Len(packet) \in 0..2
        BY <2>b, <3>5
      <4> QED BY <2>0, <3>1, <3>2, <4>1, OrderAppendOther
    <3> QED BY <3>3, <3>4, <3>5 DEF StepInv
  <2>2. CASE Acknowledge
    <3>1. {1, 3, 4, 5} \in SUBSET Int
      OBVIOUS
    <3> DEFINE b == Byte("mouse", {1, 3, 4, 5}, 0)
    <3>2. b \in PortByte
      BY <3>1, ByteType
    <3> HIDE DEF b
    <3>3. /\ port' = Append(port, b) /\ pc' = pc /\ packet' = packet
          /\ sent' = sent /\ quiet' = quiet /\ mouse \in {"defaults", "stream"}
          /\ mouse' = IF mouse = "stream" THEN "streaming" ELSE "idle"
      BY <2>2 DEF Acknowledge, ghosts, b
    <3>4. pc \notin {"enable", "get", "status", "set", "defaults"}
      BY <3>3 DEF ConfigInv
    <3>5. sent.moves = 0
      BY <3>3 DEF StepInv
    <3>6. quiet => pc \notin {"stream", "activate", "run"}
      BY <3>3 DEF StepInv
    <3>7. quiet /\ pc = "ack1" => mouse' = "idle" /\ Len(port') = 1
      BY <2>a, <3>2, <3>3 DEF StepInv
    <3>8. quiet /\ pc = "ack2" =>
            mouse' = "streaming" /\ MouseData' /\ Tail(port') = <<>>
      <4>1. b.src = "mouse"
        BY <3>1, ByteType DEF b
      <4>2. port = <<>> => Head(Append(port, b)) = b
        BY <2>0, <3>2
      <4> QED BY <2>a, <3>2, <3>3, <4>1, <4>2 DEF StepInv, MouseData
    <3> QED BY <2>0, <3>3, <3>4, <3>5, <3>6, <3>7, <3>8, OrderEmpty DEF StepInv
  <2>3. CASE Move
    <3>1. PICK bits \in IF sent.moves % 3 = 0 THEN {{Sync}} ELSE {{}, {Sync}} :
            port' = Append(port, Byte("mouse", bits, (sent.moves % 3) + 1))
      BY <2>3 DEF Move
    <3> DEFINE b == Byte("mouse", bits, (sent.moves % 3) + 1)
    <3>2. bits \in SUBSET Int /\ (sent.moves % 3) + 1 \in 0..3
          /\ (sent.moves % 3 = 0 => Sync \in bits)
      BY <2>0, <3>1 DEF Sync
    <3>3. /\ b \in PortByte /\ b.src = "mouse" /\ b.pos = (sent.moves % 3) + 1
          /\ sent.moves % 3 = 0 => Sync \in b.bits
      BY <3>2, ByteType
    <3> HIDE DEF b
    <3>4. /\ port' = Append(port, b) /\ pc' = pc /\ packet' = packet
          /\ sent'.moves = sent.moves + 1 /\ (quiet' => quiet) /\ mouse' = mouse
          /\ mouse = "streaming"
      BY <2>3, <3>1 DEF Move, b
    <3>5. quiet => pc \in {"ack2", "activate", "run"}
      BY <2>0, <3>4 DEF StepInv, ConfigInv
    <3>6. ASSUME quiet, pc = "ack2"
          PROVE  MouseData' /\ InOrder(Tail(port'), 0, sent'.moves)
      <4>0. MouseData /\ port # <<>> /\ InOrder(Tail(port), 0, sent.moves)
        BY <3>4, <3>6 DEF StepInv, MouseData
      <4>1. port # <<>> /\ InOrder(Tail(port), 0, sent.moves)
        BY <4>0
      <4>2. Tail(port) \in Seq(PortByte) /\ Tail(port') = Append(Tail(port), b)
            /\ port' # <<>>
        BY <2>a, <3>3, <3>4, <4>1
      <4>3. InOrder(Append(Tail(port), b), 0, sent.moves + 1)
        <5>1. 0 \in 0..2
          OBVIOUS
        <5> QED BY <2>0, <3>3, <4>1, <4>2, <5>1, OrderAppendMouse
      <4>4. Head(Append(port, b)) = Head(port)
        BY <2>0, <3>3, <4>1
      <4> QED BY <3>4, <4>0, <4>2, <4>3, <4>4 DEF MouseData
    <3>7. ASSUME quiet, pc \in {"activate", "run"}
          PROVE  InOrder(port', Len(packet), sent'.moves)
      <4>1. InOrder(port, Len(packet), sent.moves) /\ Len(packet) \in 0..2
        BY <2>b, <3>7
      <4> QED BY <2>0, <3>3, <3>4, <4>1, OrderAppendMouse
    <3> QED BY <2>0, <3>4, <3>5, <3>6, <3>7 DEF StepInv
  <2>4. CASE Enable
    BY <2>0, <2>4 DEF Enable, StepInv, ghosts
  <2>5. CASE GetStatus
    <3>1. Byte("controller", config, 0) \in PortByte
      BY ByteType DEF Ps2Type
    <3>2. quiet => Len(port') = 1
      BY <2>5, <2>a, <3>1 DEF GetStatus, StepInv
    <3> QED BY <2>0, <2>5, <3>2 DEF GetStatus, StepInv, ghosts
  <2>6. CASE ReadStatus
    <3>1. quiet => port' = <<>>
      BY <2>0, <2>6 DEF ReadStatus, StepInv
    <3> QED BY <2>0, <2>6, <3>1 DEF ReadStatus, StepInv, ghosts
  <2>7. CASE SetStatus
    BY <2>0, <2>7 DEF SetStatus, StepInv, ghosts
  <2>8. CASE Write
    <3>1. /\ pc \in {"defaults", "stream"} /\ port' = port /\ packet' = packet
          /\ sent' = sent /\ quiet' = quiet
          /\ pc' = IF pc = "defaults" THEN "ack1" ELSE "ack2"
          /\ mouse' \in Hears
      BY <2>8 DEF Write, ghosts
    <3>2. quiet => port = <<>> /\ mouse \in {"absent", "idle"}
      BY <3>1 DEF StepInv, ConfigInv
    <3>3. mouse \in {"absent", "idle"} =>
            mouse' = IF mouse = "absent" THEN "absent" ELSE pc
      BY <3>1 DEF Hears
    <3>4. quiet /\ pc = "stream" => mouse = "idle"
      BY DEF StepInv
    <3>6. sent'.moves = 0
      BY <3>1 DEF StepInv, ConfigInv
    <3>7. CASE pc = "defaults"
      BY <2>0, <3>1, <3>2, <3>3, <3>6, <3>7 DEF StepInv
    <3>8. CASE pc = "stream"
      BY <2>0, <3>1, <3>2, <3>3, <3>4, <3>6, <3>8 DEF StepInv
    <3> QED BY <3>1, <3>7, <3>8
  <2>9. CASE ReadAck
    <3>1. /\ pc \in {"ack1", "ack2"} /\ port # <<>> /\ port' = Tail(port)
          /\ pc' = IF pc = "ack1" THEN "stream" ELSE "activate"
          /\ packet' = packet /\ sent' = sent /\ quiet' = quiet /\ mouse' = mouse
      BY <2>9 DEF ReadAck, ghosts
    <3>2. quiet /\ pc = "ack1" => mouse = "idle" /\ port' = <<>>
      BY <2>0, <3>1 DEF StepInv
    <3>3. quiet /\ pc = "ack2" => mouse = "streaming" /\ InOrder(port', 0, sent.moves)
      BY <3>1 DEF StepInv
    <3>4. packet = <<>> /\ Len(packet) = 0 /\ DOMAIN packet = {}
      BY <2>0, <3>1
    <3>5. CASE pc = "ack1"
      BY <2>0, <3>1, <3>2, <3>5 DEF StepInv
    <3>6. CASE pc = "ack2"
      <4>1. pc' = "activate" /\ packet' = <<>> /\ Len(packet') <= 2
            /\ \A k \in DOMAIN packet' : packet'[k] = k
        BY <3>1, <3>4, <3>6
      <4>2. quiet' => InOrder(port', Len(packet'), sent'.moves) /\ mouse' = "streaming"
        BY <3>1, <3>3, <3>4, <3>6
      <4>3. mouse' # "streaming" => sent'.moves = 0
        BY <3>1 DEF StepInv
      <4> QED BY <4>1, <4>2, <4>3 DEF StepInv
    <3> QED BY <3>1, <3>5, <3>6
  <2>10. CASE Poll
    BY <2>0, <2>10 DEF Poll, StepInv, MouseData, ghosts
  <2>11. CASE Expire
    BY <2>0, <2>11 DEF Expire, StepInv
  <2>12. CASE Activate
    BY <2>0, <2>12 DEF Activate, StepInv, ghosts
  <2>13. CASE TimerIRQ
    BY <2>0, <2>13 DEF TimerIRQ, Interrupt, StepInv, ghosts
  <2>14. CASE KeyboardIRQ
    <3>1. /\ pc = "run" /\ pc' = pc /\ 1 \in irr
          /\ port' = IF port = <<>> THEN <<>> ELSE Tail(port)
          /\ packet' = packet /\ sent' = sent /\ mouse' = mouse /\ quiet' = quiet
      BY <2>14 DEF KeyboardIRQ, Interrupt, ghosts
    <3>2. ASSUME quiet PROVE InOrder(port', Len(packet), sent.moves)
      <4>1. InOrder(port, Len(packet), sent.moves) /\ Len(packet) \in 0..2
        BY <2>b, <3>1, <3>2
      <4>2. CASE port = <<>>
        BY <3>1, <4>1, <4>2
      <4>3. CASE port # <<>> /\ Head(port).src # "mouse"
        BY <2>0, <3>1, <4>1, <4>3, OrderTailOther
      <4>4. CASE MouseData
        <5>1. Leftover
          BY <3>1, <4>4 DEF Leftover
        <5> QED BY <3>1, <3>2, <4>4, <5>1 DEF LeftoverInv, MouseData
      <4> QED BY <4>2, <4>3, <4>4 DEF MouseData
    <3> QED BY <2>0, <3>1, <3>2 DEF StepInv
  <2>15. CASE MouseIRQ
    <3>0. /\ pc = "run" /\ pc' = pc /\ sent' = sent
          /\ mouse' = mouse /\ quiet' = quiet
      BY <2>15 DEF MouseIRQ, Interrupt, ghosts
    <3>a. CASE ~MouseData
      <4>1. port' = port /\ packet' = packet
        BY <2>15, <3>a DEF MouseIRQ, HandleInterrupt
      <4> QED BY <2>0, <3>0, <4>1 DEF StepInv
    <3> SUFFICES ASSUME MouseData PROVE StepInv'
      BY <3>a
    <3>1. /\ pc = "run" /\ pc' = pc /\ port # <<>> /\ Head(port).src = "mouse"
          /\ port' = Tail(port) /\ sent' = sent
          /\ mouse' = mouse /\ quiet' = quiet
          /\ packet' = IF OutOfStep(Head(port)) THEN <<>>
                       ELSE IF Len(packet) = 2 THEN <<>>
                            ELSE Append(packet, Head(port).pos)
      BY <2>15, <3>0 DEF MouseIRQ, HandleInterrupt, MouseData
    <3>2. ASSUME quiet
          PROVE  /\ InOrder(port', Len(packet'), sent.moves)
                 /\ Len(packet') <= 2 /\ \A k \in DOMAIN packet' : packet'[k] = k
      <4> DEFINE n == Len(packet)
      <4>1. /\ InOrder(port, n, sent.moves) /\ n \in 0..2
            /\ \A k \in DOMAIN packet : packet[k] = k
        BY <2>b, <3>1, <3>2
      <4>2. /\ Head(port).pos = n + 1 /\ (n = 0 => Sync \in Head(port).bits)
            /\ InOrder(Tail(port), IF n = 2 THEN 0 ELSE n + 1, sent.moves)
        BY <2>0, <3>1, <4>1, OrderTailMouse
      <4>3. ~OutOfStep(Head(port))
        BY <2>0, <4>2 DEF OutOfStep
      <4>4. CASE n = 2
        <5>1. packet' = <<>> /\ Len(packet') = 0 /\ DOMAIN packet' = {}
          BY <3>1, <4>3, <4>4
        <5> QED BY <3>1, <4>2, <4>4, <5>1
      <4>5. CASE n # 2
        <5>0. packet' = Append(packet, Head(port).pos)
          BY <3>1, <4>3, <4>5
        <5>1. packet' = Append(packet, n + 1)
          BY <4>2, <5>0
        <5>3. n \in 0..2
          BY <4>1
        <5>4. n + 1 \in 0..3
          BY <5>3, SmallFacts
        <5>2. Len(packet') = n + 1 /\ \A k \in DOMAIN packet' : packet'[k] = k
          BY <2>0, <4>1, <5>1, <5>4
        <5>5. Len(packet') <= 2
          BY <4>5, <5>2, <5>3, SmallFacts, Zenon
        <5>6. InOrder(port', Len(packet'), sent.moves)
          BY <3>1, <4>2, <4>5, <5>2
        <5> QED BY <5>2, <5>5, <5>6
      <4> QED BY <4>4, <4>5
    <3> QED BY <2>0, <3>1, <3>2 DEF StepInv
  <2>16. CASE UNCHANGED vars
    BY <2>16 DEF vars, StepInv, MouseData
  <2> QED BY <2>1, <2>2, <2>3, <2>4, <2>5, <2>6, <2>7, <2>8, <2>9, <2>10,
             <2>11, <2>12, <2>13, <2>14, <2>15, <2>16 DEF Next, MouseInit
<1> QED BY <1>1, <1>2, LeftoverStep, TypeHolds, ConfigInvHolds, PTL DEF Spec

\* After an undisturbed Init the decoder is in step with the mouse from the
\* first byte on (mouse.cpp:55, 59, 66-112), for any number of packets and any
\* keys pressed in between, although both interrupts may be delivered without
\* a byte of their own.  Undisturbed includes that the mouse rests until the
\* keyboard request that Init leaves behind is taken (interrupts.cpp:192).
THEOREM PacketsInStepHolds == Spec => []PacketsInStep
<1>1. Ps2Type /\ StepInv => PacketsInStep
  <2> SUFFICES ASSUME Ps2Type, StepInv, quiet, NEW k \in DOMAIN packet
               PROVE  packet[k] = k
    BY DEF PacketsInStep
  <2>1. pc = "run"
    BY DEF StepInv
  <2> QED BY <2>1 DEF StepInv
<1> QED BY <1>1, TypeHolds, StepInvHolds, PTL

=============================================================================
