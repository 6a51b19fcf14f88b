--------------------------- MODULE Rtl8139Proofs ---------------------------
(***************************************************************************)
(* Proofs about the network driver and the platform below it, for every    *)
(* machine, ring size and traffic: where packets and events can be lost,   *)
(* the order of the transmit descriptors, the place of the packets in the  *)
(* receive ring and the route of the interrupt.                            *)
(***************************************************************************)
EXTENDS Rtl8139, WellFoundedInduction, TLAPS

Events == {"rx", "tx", "overflow", "high"}

\* What the steps of initialisation leave alone.
LEMMA BootKeeps ==
  ASSUME Boot
  PROVE  UNCHANGED <<machine, load, events, irr, stored, delivered, refused, missed, rxmem,
                     cbr, capr, rxbuf_offset, desc, txptr, page, mar4, pc, status,
                     truncated, next_txbuf, hwbuf, spc, try, sent, crowded, faults>>
<1>1. CASE InitMachine
  BY <1>1 DEF InitMachine, InitExceptions, AcpiInit, IoapicInit, LapicInit, FindCard,
     rxcard, txcard, line, recv, routine, sender
<1>2. CASE \E from, to : Step(from, to)
  BY <1>2 DEF Step, txcard, routine, sender
<1> QED
  BY <1>1, <1>2 DEF Boot, StartupRxbuf, StartupRxcfg, StartupImr, AllocPacketBuf, InitIrq

\* What a call of rtl8139_send_packet() leaves alone.
Sending == Send \/ SendScan \/ SendStore \/ SendStart

LEMMA SendKeeps ==
  ASSUME Sending
  PROVE  UNCHANGED <<pvars, load, rxcard, txptr, line, recv, routine, faults, missed>>
BY DEF Sending, Send, SendScan, SendStore, SendStart, quiet, env

----------------------------------------------------------------------------
(* Packets and events.                                                     *)

\* An event that isr() has read stays latched until isr() acknowledges it.
Acknowledging == pc = "ack" => status \subseteq events

\* Counters count.
Counts == stored \in Nat /\ delivered \in Nat /\ refused \in Nat /\ missed \in Nat

LagInv == Counts /\ Acknowledging /\ LagExact

\* No step of the card or of isr() loses an event unseen.
LEMMA LagStep == LagInv /\ [Next]_vars => LagInv'
<1> SUFFICES ASSUME LagInv, [Next]_vars PROVE LagInv' OBVIOUS
<1> USE DEF LagInv, Counts, Acknowledging, LagExact
<1>1. CASE Boot BY <1>1, BootKeeps
<1>2. CASE Sending BY <1>2, SendKeeps DEF rxcard, line, recv, routine
<1>3. CASE Interrupt BY <1>3 DEF Interrupt, rxcard, recv
<1>4. CASE IsrRead BY <1>4 DEF IsrRead, rxcard, recv, line
<1>5. CASE IsrAck BY <1>5 DEF IsrAck, rxcard, recv, Stat
<1>6. CASE Recieve BY <1>6 DEF Recieve, line
<1>7. CASE IsrFinal BY <1>7 DEF IsrFinal, rxcard, recv
<1>8. CASE IsrEoi BY <1>8 DEF IsrEoi, rxcard, recv, line
<1>9. CASE CardStore
  <2>1. CASE Raise("rx") /\ stored' = stored + 1
    BY <1>9, <2>1 DEF CardStore, Raise, recv, routine
  <2>2. CASE Raise("overflow") /\ UNCHANGED stored
    BY <1>9, <2>2 DEF CardStore, Raise, recv, routine
  <2> QED BY <1>9, <2>1, <2>2 DEF CardStore
<1>10. CASE CardFault BY <1>10 DEF CardFault, Raise, rxcard, recv, routine
<1>11. CASE CardSend BY <1>11 DEF CardSend, Raise, rxcard, recv, routine
<1>12. CASE UNCHANGED vars BY <1>12 DEF vars, rxcard, line, recv, routine
<1> QED BY <1>1, <1>2, <1>3, <1>4, <1>5, <1>6, <1>7, <1>8, <1>9, <1>10, <1>11, <1>12
        DEF Next, Isr, Sending

\* The calls of recieve() are behind the card by what the driver can still learn
\* of and by what isr() missed in the two ways it has of missing an event.
THEOREM LagCorrect == Spec => []LagExact
<1>1. Init => LagInv BY DEF Init, LagInv, Counts, Acknowledging, LagExact, NoEvent
<1>2. LagInv => LagExact BY DEF LagInv
<1> QED BY <1>1, <1>2, LagStep, PTL DEF Spec

\* An event that came after isr() read an empty status made an edge.
EdgeAfterRead ==
  pc = "ack" /\ status = NoEvent /\ events # NoEvent => irr \/ early

\* isr() runs only once events raise the line.
Unmasked == imr \in BOOLEAN /\ (irr \/ pc # "idle" => imr)

LineInv == LineNotStuck /\ EdgeAfterRead /\ Unmasked

\* The line is never up with nobody about to look.
LEMMA LineStep == LineInv /\ [Next]_vars => LineInv'
<1> SUFFICES ASSUME LineInv, [Next]_vars PROVE LineInv' OBVIOUS
<1> USE DEF LineInv, LineNotStuck, EdgeAfterRead, Unmasked, NoEvent
<1>1. CASE Boot
  <2>1. events' = events /\ irr' = irr /\ pc' = pc /\ status' = status
        /\ truncated' = truncated
    BY <1>1, BootKeeps
  <2>2. \/ imr' = imr /\ early' = early
        \/ imr' = TRUE /\ (early' <=> early \/ events # NoEvent)
    BY <1>1 DEF Boot, InitMachine, line, StartupRxbuf, StartupRxcfg, StartupImr,
       AllocPacketBuf, InitIrq
  <2>3. CASE imr' = imr /\ early' = early BY <2>1, <2>3
  <2>4. CASE imr' = TRUE /\ (early' <=> early \/ events # NoEvent) BY <2>1, <2>4
  <2> QED BY <2>2, <2>3, <2>4
<1>2. CASE Sending BY <1>2, SendKeeps DEF line, routine
<1>3. CASE Interrupt BY <1>3 DEF Interrupt
<1>4. CASE IsrRead BY <1>4 DEF IsrRead, line
<1>5. CASE IsrAck BY <1>5 DEF IsrAck, Stat
<1>6. CASE Recieve BY <1>6 DEF Recieve, line
<1>7. CASE IsrFinal BY <1>7 DEF IsrFinal
<1>8. CASE IsrEoi BY <1>8 DEF IsrEoi, line
<1>r. ASSUME NEW e \in Events, Raise(e), UNCHANGED routine PROVE LineInv'
  BY <1>r DEF Raise, routine
<1>9. CASE CardStore BY <1>9, <1>r DEF CardStore, Events
<1>10. CASE CardFault BY <1>10, <1>r DEF CardFault, Events
<1>11. CASE CardSend BY <1>11, <1>r DEF CardSend, Events
<1>12. CASE UNCHANGED vars BY <1>12 DEF vars, line, routine
<1> QED BY <1>1, <1>2, <1>3, <1>4, <1>5, <1>6, <1>7, <1>8, <1>9, <1>10, <1>11, <1>12
        DEF Next, Isr, Sending

\* While an event keeps the edge-triggered line up, isr() is running its loop or
\* about to, but for the two ways in which the code leaves it deaf.
THEOREM LineCorrect == Spec => []LineNotStuck
<1>1. Init => LineInv
  <2>1. Init => imr = FALSE /\ irr = FALSE /\ pc = "idle" BY DEF Init
  <2> QED BY <2>1 DEF LineInv, LineNotStuck, EdgeAfterRead, Unmasked
<1>2. LineInv => LineNotStuck BY DEF LineInv
<1> QED BY <1>1, <1>2, LineStep, PTL DEF Spec

----------------------------------------------------------------------------
(* Transmission.                                                           *)

\* n descriptors wait, from the one the card sends next up to descriptor p.
Queue(n, p) ==
  /\ (txptr + n) % TxBufferCount = p
  /\ \A k \in 0 .. TxBufferCount - 1 : desc[(txptr + k) % TxBufferCount] # 0 <=> k < n

TxTypes ==
  /\ desc \in [0 .. TxBufferCount - 1 -> Nat]
  /\ txptr \in 0 .. TxBufferCount - 1 /\ next_txbuf \in 0 .. TxBufferCount - 1
  /\ try \in 0 .. TxBufferCount - 1 /\ hwbuf \in -1 .. TxBufferCount - 1
  /\ sent \in Nat /\ page \in Nat /\ crowded \in BOOLEAN
  /\ spc \in {"idle", "scan", "store", "start"}

\* No descriptor is older than the packet in the page they share.
Pages ==
  /\ page <= sent /\ (spc = "start" => page = sent) /\ (spc # "idle" => sent > 0)
  /\ \A d \in 0 .. TxBufferCount - 1 : desc[d] <= page

\* As long as no search passed a busy descriptor the first one looked at is the
\* one behind those that wait, and the one chosen.
Turns ==
  ~crowded =>
    /\ spc \in {"idle", "scan"} => \E n \in 0 .. TxBufferCount : Queue(n, next_txbuf)
    /\ spc = "scan" => try = 0
    /\ spc \in {"store", "start"} =>
         /\ hwbuf \in 0 .. TxBufferCount - 1 /\ next_txbuf = NextTxbuf(hwbuf)
         /\ \E n \in 0 .. TxBufferCount - 1 : Queue(n, hwbuf)

TxInv == TxTypes /\ Pages /\ Turns

\* The descriptors read as a queue: the card takes from its head ...
LEMMA QueueSend ==
  ASSUME TxTypes, NEW n \in 0 .. TxBufferCount, NEW p \in 0 .. TxBufferCount - 1,
         Queue(n, p), desc[txptr] # 0,
         desc' = [desc EXCEPT ![txptr] = 0], txptr' = (txptr + 1) % TxBufferCount
  PROVE  n >= 1 /\ Queue(n - 1, p)'
<1> USE DEF TxTypes, TxBufferCount
<1>1. desc[(txptr + 0) % 4] # 0 BY DEF Queue
<1>2. n >= 1 BY <1>1 DEF Queue
<1>3. \A k \in 0 .. 3 : (txptr' + k) % 4 = (txptr + (k + 1)) % 4 OBVIOUS
<1>4. (txptr' + (n - 1)) % 4 = p BY <1>2 DEF Queue
<1>5. \A k \in 0 .. 2 : desc'[(txptr' + k) % 4] = desc[(txptr + (k + 1)) % 4] BY <1>3
<1>6. desc'[(txptr' + 3) % 4] = 0 BY <1>3
<1>7. \A k \in 0 .. 2 : desc[(txptr + (k + 1)) % 4] # 0 <=> k + 1 < n BY DEF Queue
<1>8. \A k \in 0 .. 3 : desc'[(txptr' + k) % 4] # 0 <=> k < n - 1
  BY <1>2, <1>5, <1>6, <1>7
<1> QED BY <1>2, <1>4, <1>8 DEF Queue

\* ... and the driver adds at its tail.
LEMMA QueueStart ==
  ASSUME TxTypes, NEW n \in 0 .. TxBufferCount - 1, NEW p \in 0 .. TxBufferCount - 1,
         Queue(n, p), NEW v \in Nat \ {0},
         desc' = [desc EXCEPT ![p] = v], txptr' = txptr
  PROVE  Queue(n + 1, NextTxbuf(p))'
<1> USE DEF TxTypes, TxBufferCount
<1>1. (txptr + n) % 4 = p BY DEF Queue
<1>2. (txptr + (n + 1)) % 4 = (p + 1) % 4 BY <1>1
<1>3. \A k \in 0 .. 3 : (txptr + k) % 4 = p <=> k = n BY <1>1
<1>4. \A k \in 0 .. 3 : desc'[(txptr + k) % 4] # 0 <=> k < n + 1
  BY <1>1, <1>3 DEF Queue
<1> QED BY <1>2, <1>4 DEF Queue, NextTxbuf

\* No step of the card or of a sender breaks the order.
LEMMA TxStep == TxInv /\ [Next]_vars => TxInv'
<1> SUFFICES ASSUME TxInv, [Next]_vars PROVE TxInv' OBVIOUS
<1> USE DEF TxInv
<1>u. ASSUME UNCHANGED <<desc, txptr, page, sender>> PROVE TxInv'
  BY <1>u DEF sender, TxTypes, Pages, Turns, Queue
<1>1. CASE Boot BY <1>1, <1>u, BootKeeps DEF sender
<1>2. CASE Isr
  BY <1>2, <1>u DEF Isr, Interrupt, IsrRead, IsrAck, Recieve, IsrFinal, IsrEoi, txcard
<1>3. CASE CardStore BY <1>3, <1>u DEF CardStore, txcard
<1>4. CASE CardFault BY <1>4, <1>u DEF CardFault, txcard
<1>5. CASE CardSend
  <2>1. /\ desc[txptr] # 0 /\ desc' = [desc EXCEPT ![txptr] = 0]
        /\ txptr' = (txptr + 1) % TxBufferCount /\ UNCHANGED <<page, sender>>
    BY <1>5 DEF CardSend
  <2>2. TxTypes' BY <2>1 DEF TxTypes, TxBufferCount, sender
  <2>3. Pages' BY <2>1 DEF TxTypes, TxBufferCount, Pages, sender
  <2>4. \A p \in 0 .. TxBufferCount - 1 :
          /\ (\E n \in 0 .. TxBufferCount : Queue(n, p))
               => \E n \in 0 .. TxBufferCount : Queue(n, p)'
          /\ (\E n \in 0 .. TxBufferCount - 1 : Queue(n, p))
               => \E n \in 0 .. TxBufferCount - 1 : Queue(n, p)'
    BY <2>1, QueueSend DEF TxBufferCount
  <2>5. Turns' BY <2>1, <2>4 DEF Turns, sender, TxTypes, Queue
  <2> QED BY <2>2, <2>3, <2>5
<1>6. CASE Send
  BY <1>6 DEF Send, quiet, TxTypes, Pages, Turns, Queue, TxBufferCount
<1>7. CASE SendScan
  <2>1. TxTypes' BY <1>7 DEF SendScan, TxTypes, TxBufferCount, NextTxbuf, quiet
  <2>2. Pages' BY <1>7 DEF SendScan, Pages, quiet
  <2>3. Turns'
    <3> SUFFICES ASSUME ~crowded' PROVE Turns' BY DEF Turns
    <3>1. ~crowded /\ try = 0 /\ desc[(next_txbuf + 0) % TxBufferCount] = 0
      BY <1>7 DEF SendScan, Turns
    <3>2. desc[next_txbuf] = 0 BY <3>1 DEF TxTypes, TxBufferCount
    <3>3. hwbuf' = next_txbuf /\ next_txbuf' = NextTxbuf(hwbuf') /\ spc' = "store"
          /\ UNCHANGED <<desc, txptr>>
      BY <1>7, <3>1 DEF SendScan, quiet, TxTypes, TxBufferCount
    <3>4. PICK n \in 0 .. TxBufferCount : Queue(n, next_txbuf) BY <1>7, <3>1 DEF SendScan, Turns
    <3>5. n # TxBufferCount
      <4> SUFFICES ASSUME n = 4 PROVE FALSE BY DEF TxBufferCount
      <4>1. (txptr + 4) % 4 = next_txbuf BY <3>4 DEF Queue, TxBufferCount
      <4>2. desc[(txptr + 0) % 4] # 0 BY <3>4 DEF Queue, TxBufferCount
      <4> QED BY <3>2, <4>1, <4>2 DEF TxTypes, TxBufferCount
    <3> QED BY <3>3, <3>4, <3>5 DEF Turns, Queue, TxTypes, TxBufferCount
  <2> QED BY <2>1, <2>2, <2>3
<1>8. CASE SendStore
  BY <1>8 DEF SendStore, quiet, TxTypes, Pages, Turns, Queue, TxBufferCount
<1>9. CASE SendStart
  <2>1. spc = "start" /\ spc' = "idle" /\ page' = page /\ page = sent
        /\ UNCHANGED <<txptr, next_txbuf, hwbuf, try, sent, crowded>>
    BY <1>9 DEF SendStart, quiet, Pages
  <2>2. CASE hwbuf = -1
    BY <1>9, <2>1, <2>2 DEF SendStart, TxTypes, Pages, Turns, TxBufferCount
  <2>3. CASE hwbuf # -1
    <3>1. desc' = [desc EXCEPT ![hwbuf] = sent] /\ hwbuf \in 0 .. TxBufferCount - 1
      BY <1>9, <2>3 DEF SendStart, TxTypes, TxBufferCount
    <3>2. TxTypes' BY <2>1, <3>1 DEF TxTypes
    <3>3. Pages' BY <2>1, <3>1 DEF TxTypes, Pages
    <3>4. Turns'
      <4> SUFFICES ASSUME ~crowded PROVE \E n \in 0 .. TxBufferCount : Queue(n, next_txbuf)'
        BY <2>1 DEF Turns, Queue
      <4>0. PICK p \in 0 .. TxBufferCount - 1 : p = hwbuf BY <3>1
      <4>1. PICK n \in 0 .. TxBufferCount - 1 : Queue(n, p) BY <2>1, <4>0 DEF Turns
      <4>2. PICK v \in Nat \ {0} : v = sent BY <2>1 DEF Pages, TxTypes
      <4>3. Queue(n + 1, NextTxbuf(p))' BY <2>1, <3>1, <4>0, <4>1, <4>2, QueueStart
      <4>4. next_txbuf' = NextTxbuf(p) BY <2>1, <4>0 DEF Turns
      <4> QED BY <4>1, <4>3, <4>4 DEF TxBufferCount, Queue
    <3> QED BY <3>2, <3>3, <3>4
  <2> QED BY <2>2, <2>3
<1>10. CASE UNCHANGED vars BY <1>10, <1>u DEF vars, txcard
<1> QED BY <1>1, <1>2, <1>3, <1>4, <1>5, <1>6, <1>7, <1>8, <1>9, <1>10 DEF Next

\* rtl8139_send_packet() starts descriptors in the order the card sends them
\* until it passes one that is busy, and none is older than what it points at.
THEOREM TxCorrect == Spec => []TxInOrder
<1>1. Init => TxInv
  <2> SUFFICES ASSUME Init PROVE TxInv OBVIOUS
  <2>1. /\ desc = [d \in 0 .. 3 |-> 0] /\ txptr = 0 /\ page = 0 /\ next_txbuf = 0
        /\ hwbuf = 0 /\ spc = "idle" /\ try = 0 /\ sent = 0 /\ crowded = FALSE
    BY DEF Init, TxBufferCount
  <2>b. crowded \in BOOLEAN BY <2>1
  <2>2. TxTypes /\ Pages
    <3>1. desc \in [0 .. 3 -> Nat] /\ \A d \in 0 .. 3 : desc[d] <= page BY <2>1
    <3> QED BY <2>1, <2>b, <3>1 DEF TxTypes, Pages, TxBufferCount
  <2>3. Queue(0, 0) BY <2>1 DEF Queue, TxBufferCount
  <2>4. Turns BY <2>1, <2>3 DEF Turns, TxBufferCount
  <2> QED BY <2>2, <2>4 DEF TxInv
<1>2. TxInv => TxInOrder
  BY DEF TxInv, TxTypes, Pages, Turns, Queue, TxInOrder
<1> QED BY <1>1, <1>2, TxStep, PTL DEF Spec

----------------------------------------------------------------------------
(* The receive ring.                                                       *)

\* What a packet takes in the ring: header, data and checksum in whole words.
Size(len) == ((len + 7) \div 4) * 4

\* The d bytes from offset o of the ring on end at offset e.
Ends(o, d, e) == e = o + d \/ e = o + d - RxBufferSize

\* The packets not yet delivered lie behind one another: g[k] is the offset of
\* packet k and f[k] the number of bytes stored before it.  The next one goes
\* to g[stored + 1], and they take less than the whole ring.
Layout(f, g) ==
  /\ g[delivered + 1] = rxbuf_offset /\ g[stored + 1] = cbr
  /\ \A k \in delivered + 1 .. stored + 1 : g[k] < RxBufferSize /\ g[k] % 4 = 0
  /\ \A k \in delivered + 1 .. stored :
       /\ g[k] \in DOMAIN rxmem /\ rxmem[g[k]].id = k
       /\ rxmem[g[k]].len \in Nat /\ rxmem[g[k]].len + 8 < RxBufferSize
       /\ f[k + 1] = f[k] + Size(rxmem[g[k]].len)
  /\ \A j, k \in delivered + 1 .. stored + 1 :
       j < k => /\ f[j] < f[k] /\ f[k] - f[j] < RxBufferSize
                /\ Ends(g[j], f[k] - f[j], g[k])

\* CAPR is 16 less than the driver's offset, modulo 2^16.
ReadPointer ==
  capr \in Int /\ capr + 16 \in {rxbuf_offset, rxbuf_offset + 65536}

\* What the steps of rtl8139_init() have done by the time they are needed.
Prepared ==
  /\ boot \in {"exceptions", "acpi", "ioapic", "lapic", "find", "start"} => rxbuf = rbstart
  /\ boot \in {"rxcfg", "imr"} \/ rx_on \/ imr => rxbuf \in Nat /\ rbstart \in Nat
  /\ imr => boot \in {"buf", "irq", "up"}
  /\ imr /\ boot \in {"irq", "up"} => packet_buf = "packet_buf"
  /\ pc # "idle" => boot = "up"

\* Wherever the card's ring is, offsets are in their range, and headers typed.
InRing ==
  /\ rxbuf_offset \in 0 .. RxBufferSize - 1 /\ cbr \in 0 .. RxBufferSize - 1
  /\ \A o \in DOMAIN rxmem : rxmem[o].len \in Nat

RingInv ==
  /\ LagInv /\ LineInv /\ Prepared /\ ReadPointer /\ InRing
  /\ rxbuf = rbstart => \E f, g \in [Nat -> Nat] : Layout(f, g)

\* Every offset computed is in the ring.
LEMMA OffsetRange ==
  ASSUME NEW o \in Nat, NEW len \in Nat
  PROVE  /\ Following(o, len) \in 0 .. RxBufferSize - 1
         /\ NextOffset(o, len) \in 0 .. RxBufferSize - 1
<1>1. PICK x \in Nat : x = ((o + len + 4 + 3) \div 4) * 4 OBVIOUS
<1>2. x % RxBufferSize \in 0 .. RxBufferSize - 1 BY Rtl8139Assumption
<1> QED BY <1>1, <1>2 DEF Following, NextOffset

\* Arithmetic of a number that is at most once around the ring.
LEMMA Wrap ==
  ASSUME NEW r \in Nat \ {0}, NEW x \in Nat, x < 2 * r
  PROVE  x % r = IF x < r THEN x ELSE x - r
OBVIOUS

\* Whole words stay whole words.
LEMMA Words ==
  ASSUME NEW a \in Int, NEW c \in Int, NEW r \in Int, a % 4 = 0, c % 4 = 0, r % 4 = 0
  PROVE  (a + c) % 4 = 0 /\ (a + c - r) % 4 = 0
OBVIOUS

\* The card and the driver compute the same next offset, and it is the end of
\* the packet.
LEMMA OffsetEnds ==
  ASSUME NEW o \in Nat, o < RxBufferSize, o % 4 = 0,
         NEW len \in Nat, len + 8 < RxBufferSize
  PROVE  /\ Following(o, len) = NextOffset(o, len)
         /\ Following(o, len) \in 0 .. RxBufferSize - 1 /\ Following(o, len) % 4 = 0
         /\ Ends(o, Size(len), Following(o, len))
         /\ Size(len) \in Nat /\ Size(len) > 0 /\ Size(len) < len + 8
<1>1. ((o + len + 4 + 3) \div 4) * 4 = o + Size(len) BY DEF Size
<1>2. Size(len) \in Nat /\ Size(len) > 0 /\ Size(len) < len + 8 /\ Size(len) % 4 = 0
  BY DEF Size
<1>3. PICK x \in Nat : x = o + Size(len) BY <1>2
<1>r. RxBufferSize \in Nat \ {0} /\ RxBufferSize \in Int /\ RxBufferSize % 4 = 0
  BY Rtl8139Assumption
<1>4. x % RxBufferSize = IF x < RxBufferSize THEN x ELSE x - RxBufferSize
  <2>1. x < 2 * RxBufferSize BY <1>2, <1>3, <1>r
  <2> QED BY <2>1, <1>r, Wrap
<1>5. x % 4 = 0 /\ (x - RxBufferSize) % 4 = 0
  <2>1. o \in Int /\ Size(len) \in Int BY <1>2
  <2>2. (o + Size(len)) % 4 = 0 /\ (o + Size(len) - RxBufferSize) % 4 = 0
    BY <1>2, <1>r, <2>1, Words
  <2> QED BY <1>2, <1>3, <1>r, <2>2
<1>6. Following(o, len) = x % RxBufferSize /\ NextOffset(o, len) = x % RxBufferSize
  BY <1>1, <1>3 DEF Following, NextOffset
<1>7. Following(o, len) \in 0 .. RxBufferSize - 1 /\ Following(o, len) % 4 = 0
  <2>1. x % RxBufferSize \in {x, x - RxBufferSize} BY <1>4
  <2>2. (x % RxBufferSize) % 4 = 0 BY <1>5, <2>1
  <2>3. x % RxBufferSize \in 0 .. RxBufferSize - 1 BY <1>r
  <2> QED BY <1>6, <2>2, <2>3
<1>8. Ends(o, Size(len), Following(o, len)) 
  <2>1. \/ Following(o, len) = o + Size(len)
        \/ Following(o, len) = o + Size(len) - RxBufferSize
    <3>1. Following(o, len) = x \/ Following(o, len) = x - RxBufferSize BY <1>4, <1>6
    <3> QED BY <1>2, <1>3, <1>r, <3>1
  <2> QED BY <2>1 DEF Ends
<1> QED BY <1>2, <1>6, <1>7, <1>8

\* What the card takes to be occupied is what is.
LEMMA UsedIs ==
  ASSUME NEW d \in Nat, d < RxBufferSize, Ends(rxbuf_offset, d, cbr), ReadPointer,
         rxbuf_offset \in Nat, cbr \in Nat, capr \in Int
  PROVE  Used = d
<1>1. PICK q \in Nat : 65536 = RxBufferSize * q BY Rtl8139Assumption
<1>2. PICK x \in Int : x = cbr - (capr + 16) OBVIOUS
<1>3. \/ x = d \/ x = d - RxBufferSize
      \/ x = d - RxBufferSize * q \/ x = d - RxBufferSize * q - RxBufferSize
  BY <1>1, <1>2, Rtl8139Assumption DEF Ends, ReadPointer
<1>4. \E n \in {0, -1, -q, -q - 1} : x = RxBufferSize * n + d
  BY <1>3, Rtl8139Assumption
<1>5. PICK n \in Int : x = RxBufferSize * n + d BY <1>4
<1>6. x % RxBufferSize = d
  <2>1. PICK r \in Nat \ {0} : r = RxBufferSize BY Rtl8139Assumption
  <2>2. (r * n + d) % r = d BY <2>1
  <2> QED BY <1>5, <2>1, <2>2
<1> QED BY <1>2, <1>6 DEF Used

\* A packet that is stored leaves those that are pending alone and joins them.
LEMMA StoreLayout ==
  ASSUME delivered \in Nat, stored \in Nat, delivered <= stored, ReadPointer,
         NEW f \in [Nat -> Nat], NEW g \in [Nat -> Nat], Layout(f, g),
         NEW len \in Nat, len + 8 < RxBufferSize, NEW rec,
         rec.id = stored + 1, rec.len = len, capr \in Int,
         Used + len + 8 < RxBufferSize,
         rxmem' = [o \in {cbr} \cup Untouched(len) |-> IF o = cbr THEN rec ELSE rxmem[o]],
         cbr' = Following(cbr, len), stored' = stored + 1,
         UNCHANGED <<delivered, rxbuf_offset>>
  PROVE  \E f1, g1 \in [Nat -> Nat] : Layout(f1, g1)'
<1> DEFINE last == stored + 1
           b == f[last]
           f1 == [f EXCEPT ![stored + 2] = b + Size(len)]
           g1 == [g EXCEPT ![stored + 2] = Following(cbr, len)]
<1>r. RxBufferSize \in Nat BY Rtl8139Assumption
<1>1. /\ cbr \in 0 .. RxBufferSize - 1 /\ cbr % 4 = 0 /\ g[last] = cbr
      /\ rxbuf_offset \in 0 .. RxBufferSize - 1 /\ g[delivered + 1] = rxbuf_offset
  BY <1>r DEF Layout
<1>2. /\ Following(cbr, len) \in 0 .. RxBufferSize - 1 /\ Following(cbr, len) % 4 = 0
      /\ Ends(cbr, Size(len), Following(cbr, len))
      /\ Size(len) \in Nat /\ Size(len) > 0 /\ Size(len) < len + 8
  <2>1. PICK o \in Nat : o = cbr /\ o < RxBufferSize /\ o % 4 = 0 BY <1>1, <1>r
  <2> QED BY <2>1, OffsetEnds
<1>3. b - f[delivered + 1] + len + 8 < RxBufferSize /\ f[delivered + 1] <= b
  <2>1. CASE delivered = stored BY <2>1
  <2>2. CASE delivered < stored
    <3>1. /\ f[delivered + 1] < b /\ b - f[delivered + 1] < RxBufferSize
          /\ Ends(rxbuf_offset, b - f[delivered + 1], cbr)
      BY <2>2, <1>1 DEF Layout
    <3>2. PICK d \in Nat : d = b - f[delivered + 1] BY <3>1
    <3>3. Used = d BY <3>1, <3>2, <1>1, UsedIs
    <3> QED BY <3>1, <3>2, <3>3
  <2> QED BY <2>1, <2>2
<1>4. \A k \in delivered + 1 .. stored :
        g[k] # cbr /\ g[k] \in Untouched(len)
  <2> SUFFICES ASSUME NEW k \in delivered + 1 .. stored
               PROVE  g[k] # cbr /\ g[k] \in Untouched(len)
    OBVIOUS
  <2>1. /\ f[k] < b /\ b - f[k] < RxBufferSize /\ Ends(g[k], b - f[k], cbr)
        /\ g[k] < RxBufferSize /\ g[k] \in DOMAIN rxmem
    BY <1>1 DEF Layout
  <2>2. f[delivered + 1] <= f[k] BY DEF Layout
  <2>3. g[k] < cbr \/ g[k] >= cbr + len + 4
    BY <2>1, <2>2, <1>1, <1>3, <1>r DEF Ends
  <2> QED BY <2>1, <2>3, <1>1 DEF Untouched, Ends
<1>e. cbr' \in Nat /\ cbr' < RxBufferSize /\ cbr' % 4 = 0 BY <1>2, <1>r
<1>5. PICK F \in [Nat -> Nat], G \in [Nat -> Nat] : F = f1 /\ G = g1
  <2>1. b + Size(len) \in Nat /\ Following(cbr, len) \in Nat BY <1>2, <1>r
  <2>2. f1 \in [Nat -> Nat] /\ g1 \in [Nat -> Nat] BY <2>1
  <2> QED BY <2>2
<1>6. /\ \A k \in delivered + 1 .. last : F[k] = f[k] /\ G[k] = g[k]
      /\ F[last + 1] = b + Size(len) /\ G[last + 1] = cbr'
  BY <1>5
<1> HIDE DEF f1, g1
<1>7. G[delivered' + 1] = rxbuf_offset' /\ G[stored' + 1] = cbr'
  BY <1>1, <1>6
<1>8. \A k \in delivered' + 1 .. stored' + 1 : G[k] < RxBufferSize /\ G[k] % 4 = 0
  <2> SUFFICES ASSUME NEW k \in delivered + 1 .. last + 1
               PROVE  G[k] < RxBufferSize /\ G[k] % 4 = 0
    OBVIOUS
  <2>1. CASE k <= last BY <2>1, <1>6 DEF Layout
  <2>2. CASE k = last + 1 BY <2>2, <1>e, <1>6
  <2> QED BY <2>1, <2>2
<1>9. \A k \in delivered' + 1 .. stored' :
        /\ G[k] \in DOMAIN rxmem' /\ rxmem'[G[k]].id = k
        /\ rxmem'[G[k]].len \in Nat /\ rxmem'[G[k]].len + 8 < RxBufferSize
        /\ F[k + 1] = F[k] + Size(rxmem'[G[k]].len)
  <2> SUFFICES ASSUME NEW k \in delivered + 1 .. last
               PROVE  /\ G[k] \in DOMAIN rxmem' /\ rxmem'[G[k]].id = k
                      /\ rxmem'[G[k]].len \in Nat /\ rxmem'[G[k]].len + 8 < RxBufferSize
                      /\ F[k + 1] = F[k] + Size(rxmem'[G[k]].len)
    OBVIOUS
  <2>1. CASE k = last
    <3>1. G[k] = cbr /\ rxmem'[cbr] = rec /\ cbr \in DOMAIN rxmem' BY <2>1, <1>1, <1>6
    <3> QED BY <2>1, <3>1, <1>6
  <2>2. CASE k < last
    <3>1. G[k] = g[k] /\ g[k] # cbr /\ g[k] \in Untouched(len) BY <2>2, <1>4, <1>6
    <3>2. g[k] \in DOMAIN rxmem' /\ rxmem'[g[k]] = rxmem[g[k]] BY <3>1
    <3>3. F[k + 1] = f[k + 1] /\ F[k] = f[k] BY <2>2, <1>6
    <3>4. k \in delivered + 1 .. stored BY <2>2
    <3> QED BY <3>1, <3>2, <3>3, <3>4 DEF Layout
  <2> QED BY <2>1, <2>2
<1>10. \A j, k \in delivered' + 1 .. stored' + 1 :
         j < k => /\ F[j] < F[k] /\ F[k] - F[j] < RxBufferSize
                  /\ Ends(G[j], F[k] - F[j], G[k])
  <2> SUFFICES ASSUME NEW j \in delivered + 1 .. last + 1,
                      NEW k \in delivered + 1 .. last + 1, j < k
               PROVE  /\ F[j] < F[k] /\ F[k] - F[j] < RxBufferSize
                      /\ Ends(G[j], F[k] - F[j], G[k])
    OBVIOUS
  <2>1. CASE k <= last
    <3>1. j \in delivered + 1 .. last /\ k \in delivered + 1 .. last BY <2>1
    <3>2. F[j] = f[j] /\ F[k] = f[k] /\ G[j] = g[j] /\ G[k] = g[k] BY <3>1, <1>6
    <3> QED BY <3>1, <3>2 DEF Layout
  <2>2. CASE k = last + 1
    <3>1. F[j] = f[j] /\ G[j] = g[j] /\ F[k] = b + Size(len) /\ G[k] = Following(cbr, len)
      BY <2>2, <1>6
    <3>j. j \in delivered + 1 .. last BY <2>2
    <3>2. f[delivered + 1] <= f[j] /\ f[j] <= b
      <4>1. delivered + 1 \in delivered + 1 .. last /\ last \in delivered + 1 .. last OBVIOUS
      <4>2. delivered + 1 < j => f[delivered + 1] < f[j] BY <3>j, <4>1 DEF Layout
      <4>3. j < last => f[j] < b BY <3>j, <4>1 DEF Layout
      <4>4. f[j] \in Nat /\ f[delivered + 1] \in Nat /\ b \in Nat BY <3>j
      <4>5. CASE delivered + 1 < j /\ j < last BY <4>2, <4>3, <4>4, <4>5
      <4>6. CASE delivered + 1 = j /\ j < last BY <4>3, <4>4, <4>6
      <4>7. CASE delivered + 1 < j /\ j = last BY <4>2, <4>4, <4>7
      <4>8. CASE delivered + 1 = j /\ j = last BY <4>4, <4>8
      <4> QED BY <3>j, <4>5, <4>6, <4>7, <4>8
    <3>3. F[j] < F[k] /\ F[k] - F[j] < RxBufferSize
      BY <3>1, <3>2, <1>2, <1>3, <1>r
    <3>4. Ends(g[j], b - f[j], cbr)
      <4>1. CASE j = last BY <4>1, <1>1 DEF Ends
      <4>2. CASE j < last BY <4>2, <3>j, <1>1 DEF Layout
      <4> QED BY <4>1, <4>2, <3>j
    <3>5. g[j] \in Nat /\ g[j] < RxBufferSize BY <2>2 DEF Layout
    <3>6. Ends(g[j], b + Size(len) - f[j], Following(cbr, len))
      BY <3>1, <3>2, <3>3, <3>4, <3>5, <1>1, <1>2, <1>r DEF Ends
    <3>7. F[k] - F[j] = b + Size(len) - f[j] BY <3>1, <1>2
    <3> QED BY <3>1, <3>3, <3>6, <3>7
  <2> QED BY <2>1, <2>2
<1> QED
  <2>1. Layout(F, G)' BY <1>7, <1>8, <1>9, <1>10 DEF Layout
  <2> QED BY <2>1, <1>5

\* A packet that is delivered leaves the head of those pending.
LEMMA RecieveLayout ==
  ASSUME delivered \in Nat, stored \in Nat, delivered < stored,
         NEW f \in [Nat -> Nat], NEW g \in [Nat -> Nat], Layout(f, g),
         delivered' = delivered + 1,
         rxbuf_offset' = NextOffset(rxbuf_offset, rxmem[rxbuf_offset].len),
         UNCHANGED <<stored, rxmem, cbr>>
  PROVE  Layout(f, g)' /\ rxbuf_offset' \in 0 .. RxBufferSize - 1
<1>r. RxBufferSize \in Nat BY Rtl8139Assumption
<1>1. PICK o \in Nat : /\ o = rxbuf_offset /\ o = g[delivered + 1]
                       /\ o < RxBufferSize /\ o % 4 = 0
  BY DEF Layout
<1>2. PICK len \in Nat : /\ len = rxmem[o].len /\ len + 8 < RxBufferSize
                         /\ f[delivered + 2] = f[delivered + 1] + Size(len)
  BY <1>1 DEF Layout
<1>3. PICK e \in 0 .. RxBufferSize - 1 : e = rxbuf_offset' /\ Ends(o, Size(len), e)
  BY <1>1, <1>2, OffsetEnds
<1>4. PICK s \in Nat : s = Size(len) BY <1>1, <1>2, OffsetEnds
<1>5. f[delivered + 2] - f[delivered + 1] = s BY <1>2, <1>4
<1>6. Ends(o, s, g[delivered + 2]) /\ g[delivered + 2] < RxBufferSize
  <2>1. delivered + 1 \in delivered + 1 .. stored + 1 /\ delivered + 2 \in delivered + 1 .. stored + 1
    OBVIOUS
  <2>2. Ends(g[delivered + 1], f[delivered + 2] - f[delivered + 1], g[delivered + 2])
    BY <2>1 DEF Layout
  <2> QED BY <2>1, <2>2, <1>1, <1>5 DEF Layout
<1>7. g[delivered + 2] = e BY <1>3, <1>4, <1>6, <1>r DEF Ends
<1>8. /\ g[delivered' + 1] = rxbuf_offset' /\ g[stored' + 1] = cbr'
      /\ delivered' + 1 .. stored' + 1 \subseteq delivered + 1 .. stored + 1
      /\ delivered' + 1 .. stored' \subseteq delivered + 1 .. stored
  BY <1>3, <1>7 DEF Layout
<1> QED BY <1>3, <1>8 DEF Layout

\* A step that leaves the ring and the pointers into it alone keeps the layout.
LEMMA SameLayout ==
  ASSUME NEW f, NEW g, Layout(f, g),
         UNCHANGED <<stored, delivered, rxbuf_offset, cbr, rxmem>>
  PROVE  Layout(f, g)'
<1>1. /\ stored' = stored /\ delivered' = delivered /\ rxbuf_offset' = rxbuf_offset
      /\ cbr' = cbr /\ rxmem' = rxmem
  OBVIOUS
<1>2. g[delivered' + 1] = rxbuf_offset' /\ g[stored' + 1] = cbr'
  BY <1>1 DEF Layout
<1>3. \A k \in delivered' + 1 .. stored' + 1 : g[k] < RxBufferSize /\ g[k] % 4 = 0
  BY <1>1, Zenon DEF Layout
<1>4. \A k \in delivered' + 1 .. stored' :
        /\ g[k] \in DOMAIN rxmem' /\ rxmem'[g[k]].id = k
        /\ rxmem'[g[k]].len \in Nat /\ rxmem'[g[k]].len + 8 < RxBufferSize
        /\ f[k + 1] = f[k] + Size(rxmem'[g[k]].len)
  BY <1>1, Zenon DEF Layout
<1>5. \A j, k \in delivered' + 1 .. stored' + 1 :
        j < k => /\ f[j] < f[k] /\ f[k] - f[j] < RxBufferSize
                 /\ Ends(g[j], f[k] - f[j], g[k])
  BY <1>1, Zenon DEF Layout
<1> QED BY <1>2, <1>3, <1>4, <1>5, Zenon DEF Layout

\* No step of the card, of isr() or of initialisation breaks the ring.
LEMMA RingStep == RingInv /\ [Next]_vars => RingInv'
<1> SUFFICES ASSUME RingInv, [Next]_vars PROVE RingInv' OBVIOUS
<1>l. LagInv' /\ LineInv' BY LagStep, LineStep DEF RingInv
<1>c. /\ stored \in Nat /\ delivered \in Nat /\ delivered <= stored
      /\ ReadPointer /\ Prepared /\ InRing
  BY DEF RingInv, LagInv, LagExact, Counts
<1>r. RxBufferSize \in Nat /\ RxBufferSize <= 65536 BY Rtl8139Assumption
<1>o. /\ rxbuf_offset \in 0 .. RxBufferSize - 1 /\ cbr \in 0 .. RxBufferSize - 1
      /\ capr \in Int
  BY <1>c DEF InRing, ReadPointer
<1>u. ASSUME UNCHANGED <<stored, delivered, rxbuf_offset, capr, cbr, rxmem>>, Prepared',
             rxbuf' = rbstart' => rxbuf = rbstart
      PROVE RingInv'
  <2>1. ASSUME rxbuf' = rbstart' PROVE \E f, g \in [Nat -> Nat] : Layout(f, g)'
    <3>1. PICK f \in [Nat -> Nat], g \in [Nat -> Nat] : Layout(f, g)
      BY <1>u, <2>1 DEF RingInv
    <3>2. Layout(f, g)' BY <1>u, <3>1, SameLayout
    <3> QED BY <3>2
  <2>2. ReadPointer' BY <1>u, <1>c DEF ReadPointer
  <2>3. InRing' BY <1>u, <1>c DEF InRing
  <2> QED BY <2>1, <2>2, <2>3, <1>u, <1>l DEF RingInv
<1>v. ASSUME UNCHANGED <<boot, rxbuf, rbstart, rx_on, imr, packet_buf>>,
             pc' = "idle" \/ pc # "idle"
      PROVE Prepared'
  BY <1>v, <1>c DEF Prepared
<1>1. CASE Boot
  <2>1. Prepared' /\ (rxbuf' = rbstart' => rxbuf = rbstart)
    <3>1. pc' = pc /\ (pc # "idle" => boot = "up") BY <1>1, <1>c, BootKeeps DEF Prepared
    <3>2. CASE InitMachine
      BY <1>c, <3>1, <3>2 DEF InitMachine, InitExceptions, AcpiInit, IoapicInit, LapicInit,
         FindCard, rxcard, line, recv, Prepared
    <3>3. CASE StartupRxbuf
      <4>1. rxbuf' \in Nat /\ rbstart' \in Nat
        <5>1. PICK b \in Nat : b = rxbuf' /\ rbstart' = (b \div PageSize) * PageSize
          BY <3>3, Rtl8139Assumption DEF StartupRxbuf, VmmGetPhys
        <5>2. PICK z \in Nat \ {0} : z = PageSize BY Rtl8139Assumption
        <5>3. (b \div z) * z \in Nat OBVIOUS
        <5> QED BY <5>1, <5>2, <5>3
      <4> QED BY <1>c, <3>1, <3>3, <4>1 DEF StartupRxbuf, Step, Prepared
    <3>4. CASE StartupRxcfg \/ StartupImr \/ AllocPacketBuf \/ InitIrq
      BY <1>c, <3>1, <3>4 DEF StartupRxcfg, StartupImr, AllocPacketBuf,
         InitIrq, Step, Prepared
    <3> QED BY <1>1, <3>2, <3>3, <3>4 DEF Boot
  <2> QED BY <1>1, <1>u, <2>1, BootKeeps
<1>2. CASE Sending
  BY <1>2, <1>u, <1>v, SendKeeps DEF pvars, rxcard, line, recv, routine
<1>3. CASE Interrupt
  <2>1. Prepared'
    BY <1>3, <1>c DEF Interrupt, env, pvars, rxcard, recv, Prepared
  <2> QED BY <1>3, <1>u, <2>1 DEF Interrupt, rxcard, recv
<1>4. CASE IsrRead \/ IsrAck \/ IsrFinal \/ IsrEoi
  BY <1>4, <1>u, <1>v DEF IsrRead, IsrAck, IsrFinal, IsrEoi, env, pvars, rxcard, recv, line
<1>5. CASE Recieve
  <2>1. Prepared' /\ UNCHANGED <<rxbuf, rbstart, rxmem, cbr, stored>>
    BY <1>5, <1>v DEF Recieve, env, pvars, line
  <2>2. delivered < stored
    BY <1>5, <1>c DEF Recieve, RingInv, LagInv, LagExact, Counts
  <2>3. CASE UNCHANGED <<delivered, rxbuf_offset, capr>>
    BY <1>u, <2>1, <2>3
  <2>4. ASSUME NEW p \in IF ReadAt \in DOMAIN rxmem THEN {rxmem[ReadAt]} ELSE Strays,
               delivered' = delivered + 1,
               rxbuf_offset' = NextOffset(rxbuf_offset, p.len),
               capr' = (rxbuf_offset' - 16) % 65536
        PROVE  RingInv'
    <3>0. p.len \in Nat BY <1>c, Rtl8139Assumption DEF InRing
    <3>1. rxbuf_offset' \in 0 .. RxBufferSize - 1
      <4>1. PICK o, len \in Nat : o = rxbuf_offset /\ len = p.len BY <1>o, <1>r, <3>0
      <4>2. NextOffset(o, len) \in 0 .. RxBufferSize - 1 BY <4>1, OffsetRange
      <4> QED BY <2>4, <4>1, <4>2
    <3>2. ReadPointer' BY <2>4, <3>1, <1>r DEF ReadPointer
    <3>3. InRing' BY <1>c, <2>1, <3>1 DEF InRing
    <3>4. ASSUME rxbuf' = rbstart' PROVE \E f, g \in [Nat -> Nat] : Layout(f, g)'
      <4>1. PICK f \in [Nat -> Nat], g \in [Nat -> Nat] : Layout(f, g)
        BY <2>1, <3>4 DEF RingInv
      <4>2. rxbuf_offset \in DOMAIN rxmem BY <1>c, <2>2, <4>1 DEF Layout
      <4>3. imr /\ rxbuf \in Nat
        BY <1>5, <1>c DEF Recieve, Prepared, RingInv, LineInv, Unmasked
      <4>4. ReadAt = rxbuf_offset BY <1>o, <2>1, <3>4, <4>3 DEF ReadAt
      <4>5. p = rxmem[rxbuf_offset] BY <4>2, <4>4
      <4>6. Layout(f, g)'
        BY <1>c, <2>1, <2>2, <2>4, <4>1, <4>5, RecieveLayout
      <4> QED BY <4>6
    <3> QED BY <1>l, <2>1, <3>2, <3>3, <3>4 DEF RingInv
  <2> QED BY <1>5, <2>3, <2>4 DEF Recieve
<1>6. CASE CardStore
  <2>1. Prepared' /\ UNCHANGED <<delivered, rxbuf_offset, capr, rxbuf, rbstart>>
    BY <1>6, <1>v DEF CardStore, Raise, env, pvars, recv, routine
  <2>2. CASE UNCHANGED <<rxmem, cbr, stored>> BY <1>u, <2>1, <2>2
  <2>3. CASE ~UNCHANGED <<rxmem, cbr, stored>>
    <3>1. PICK p \in Packets :
            /\ Used + p.len + 8 < RxBufferSize
            /\ rxmem' = [o \in {cbr} \cup Untouched(p.len) |->
                           IF o = cbr THEN [id |-> stored + 1, len |-> p.len, ok |-> p.ok]
                           ELSE rxmem[o]]
            /\ cbr' = Following(cbr, p.len) /\ stored' = stored + 1
      BY <1>6, <2>3 DEF CardStore
    <3>2. PICK len \in Nat : len = p.len /\ len + 8 < RxBufferSize BY Rtl8139Assumption
    <3>3. PICK rec : rec = [id |-> stored + 1, len |-> p.len, ok |-> p.ok] OBVIOUS
    <3>4. rec.id = stored + 1 /\ rec.len = len BY <3>2, <3>3
    <3>5. ASSUME rxbuf' = rbstart' PROVE \E f1, g1 \in [Nat -> Nat] : Layout(f1, g1)'
      <4>1. PICK f \in [Nat -> Nat], g \in [Nat -> Nat] : Layout(f, g)
        BY <2>1, <3>5 DEF RingInv
      <4> QED BY <1>c, <1>o, <2>1, <3>1, <3>2, <3>3, <3>4, <4>1, StoreLayout
    <3>6. ReadPointer' BY <1>c, <2>1 DEF ReadPointer
    <3>7. cbr' \in 0 .. RxBufferSize - 1
      <4>1. cbr \in Nat /\ p.len \in Nat BY <1>o, <1>r, <3>2
      <4> QED BY <3>1, <4>1, OffsetRange
    <3>8. \A o \in DOMAIN rxmem' : rxmem'[o].len \in Nat
      <4>1. \A o \in DOMAIN rxmem' :
              rxmem'[o] = IF o = cbr THEN rec ELSE rxmem[o]
        BY <3>1, <3>3
      <4>2. \A o \in DOMAIN rxmem' : o = cbr \/ o \in DOMAIN rxmem BY <3>1 DEF Untouched
      <4> QED BY <1>c, <3>2, <3>4, <4>1, <4>2 DEF InRing
    <3>9. InRing' BY <1>o, <2>1, <3>7, <3>8 DEF InRing
    <3> QED BY <1>l, <2>1, <3>5, <3>6, <3>9 DEF RingInv
  <2> QED BY <2>2, <2>3
<1>7. CASE CardFault
  BY <1>7, <1>u, <1>v DEF CardFault, Raise, env, pvars, rxcard, recv, routine
<1>8. CASE CardSend
  BY <1>8, <1>u, <1>v DEF CardSend, Raise, env, pvars, rxcard, recv, routine
<1>9. CASE UNCHANGED vars
  BY <1>9, <1>u, <1>v DEF vars, env, pvars, rxcard, line, recv, routine
<1> QED BY <1>1, <1>2, <1>3, <1>4, <1>5, <1>6, <1>7, <1>8, <1>9 DEF Next, Isr, Sending

\* If the buffer starts a page the card and recieve() stay in step on the ring,
\* whatever its size, and a packet that was not delivered is not overwritten:
\* the address told to the card is all that can go wrong.  In any case recieve()
\* is called with a packet stored and a buffer for it.
THEOREM RingCorrect == Spec => []RingInStep
<1>1. Init => RingInv
  <2> SUFFICES ASSUME Init PROVE RingInv OBVIOUS
  <2>1. LagInv BY DEF Init, LagInv, Counts, Acknowledging, LagExact, NoEvent
  <2>2. imr = FALSE /\ irr = FALSE /\ pc = "idle" /\ rx_on = FALSE /\ boot = "exceptions"
        /\ rxbuf = NULL /\ rbstart = NULL
    BY DEF Init, PlatformInit
  <2>3. LineInv /\ Prepared
    BY <2>2 DEF LineInv, LineNotStuck, EdgeAfterRead, Unmasked, Prepared
  <2>4. stored = 0 /\ delivered = 0 /\ rxbuf_offset = 0 /\ cbr = 0 /\ capr = 65536 - 16
        /\ DOMAIN rxmem = {}
    BY DEF Init
  <2>5. PICK z \in [Nat -> Nat] : z = [n \in Nat |-> 0] OBVIOUS
  <2>6. Layout(z, z) BY <2>4, <2>5, Rtl8139Assumption DEF Layout
  <2>7. ReadPointer /\ InRing BY <2>4, Rtl8139Assumption DEF ReadPointer, InRing
  <2> QED BY <2>1, <2>3, <2>6, <2>7 DEF RingInv
<1>2. RingInv => RingInStep
  <2> SUFFICES ASSUME RingInv PROVE RingInStep OBVIOUS
  <2>c. stored \in Nat /\ delivered \in Nat /\ refused \in Nat /\ delivered <= stored
    BY DEF RingInv, LagInv, LagExact, Counts
  <2>1. ASSUME rxbuf = rbstart, delivered < stored
        PROVE  rxbuf_offset \in DOMAIN rxmem /\ rxmem[rxbuf_offset].id = delivered + 1
    <3>1. PICK f \in [Nat -> Nat], g \in [Nat -> Nat] : Layout(f, g) BY <2>1 DEF RingInv
    <3> QED BY <2>1, <2>c, <3>1 DEF Layout
  <2>2. pc = "recv" => delivered < stored
    BY <2>c DEF RingInv, LagInv, LagExact, Counts
  <2>3. pc = "recv" => packet_buf # NULL
    BY PlatformAssumption DEF RingInv, LineInv, Unmasked, Prepared
  <2>4. rx_on => rbstart # NULL BY PlatformAssumption DEF RingInv, Prepared
  <2>5. {rxbuf_offset, cbr} \subseteq 0 .. RxBufferSize - 1 BY DEF RingInv, InRing
  <2> QED BY <2>1, <2>2, <2>3, <2>4, <2>5 DEF RingInStep
<1> QED BY <1>1, <1>2, RingStep, PTL DEF Spec

----------------------------------------------------------------------------
(* The route of the interrupt.                                             *)

\* A set of numbers that is not empty has a least one.
LEMMA LeastIs ==
  ASSUME NEW S \in SUBSET Nat, S # {}
  PROVE  Least(S) \in S /\ \A j \in S : Least(S) <= j
<1>1. \E x \in S : \A y \in S : ~(<<y, x>> \in OpToRel(<, Nat))
  BY NatLessThanWellFounded, WFMin
<1>2. \A x \in S, y \in S : ~(<<y, x>> \in OpToRel(<, Nat)) => x <= y
  BY DEF OpToRel
<1>3. \E x \in S : \A y \in S : x <= y BY <1>1, <1>2
<1> QED BY <1>3 DEF Least

\* Stages of init() from the point where the pins are masked, and from the one
\* where the timer has its vector, to the one before the card's line is routed.
Searching == {"find"}
Starting == {"start", "rxcfg", "imr", "buf", "irq"}

\* What each stage of initialisation has established.
RouteInv ==
  /\ machine \in Machines
  /\ DOMAIN redir = 0 .. machine.pins - 1
  /\ boot \in {"exceptions", "acpi", "halted", "ioapic", "lapic", "up"} \cup Searching \cup Starting
  /\ boot # "exceptions" => \A v \in Exceptions : v \in DOMAIN idt /\ idt[v] = "exception"
  /\ boot = "halted" => AcpiQuery(machine, "APIC") = NULL
  /\ boot \in {"exceptions", "acpi", "ioapic", "lapic"} => vector = 129
  /\ boot \in {"lapic"} \cup Searching \cup Starting =>
       \A p \in DOMAIN redir : redir[p] = NULL
  /\ boot \in Searching \cup Starting \cup {"up"} =>
       timer_vector = 130 /\ goto_vector = 129 /\ 130 \in DOMAIN idt /\ idt[130] = "timer"
  /\ boot \in Starting => dev # NULL
  /\ boot \in Starting \cup {"up"} => dev = PciFind(machine, Wanted)
  /\ boot = "up" =>
       \A p \in DOMAIN redir :
         /\ redir[p] # NULL <=> dev # NULL /\ p = Pin
         /\ redir[p] # NULL => redir[p] \in DOMAIN idt /\ idt[redir[p]] = "isr"

\* What pci_find() returns is a function of the bus.
LEMMA FoundIs ==
  ASSUME NEW m \in Machines, PciFind(m, Wanted) # NULL
  PROVE  \E l \in DOMAIN m.pci : PciFind(m, Wanted) = [at |-> l, irq_line |-> m.pci[l].irq]
<1> DEFINE found == {l \in DOMAIN m.pci : m.pci[l].id = Wanted /\ l < Buses * Slots}
<1>1. found # {} BY DEF PciFind
<1>2. found \in SUBSET Nat BY PlatformAssumption
<1>3. Least(found) \in found BY <1>1, <1>2, LeastIs
<1> QED BY <1>1, <1>3 DEF PciFind, InitDev

\* acpi_remap_irq() finds the pin a line is wired to.
LEMMA RemapIs ==
  ASSUME NEW m \in Machines, NEW irq \in 0 .. 15
  PROVE  AcpiRemapIrq(m, irq) = m.wire[irq] /\ m.wire[irq] \in 0 .. m.pins - 1
<1>1. Overrides(m, irq) \in SUBSET Nat BY PlatformAssumption DEF Overrides
<1>2. m.wire[irq] \in 0 .. m.pins - 1 BY PlatformAssumption
<1>3. CASE Overrides(m, irq) = {} BY <1>2, <1>3, PlatformAssumption DEF AcpiRemapIrq
<1>4. CASE Overrides(m, irq) # {}
  <2>1. Least(Overrides(m, irq)) \in Overrides(m, irq) BY <1>1, <1>4, LeastIs
  <2> QED BY <1>2, <1>4, <2>1, PlatformAssumption DEF AcpiRemapIrq
<1> QED BY <1>3, <1>4

\* No step of initialisation breaks the route, and no other one touches it.
LEMMA RouteStep == RouteInv /\ [Next]_vars => RouteInv'
<1> SUFFICES ASSUME RouteInv, [Next]_vars PROVE RouteInv' OBVIOUS
<1> USE DEF RouteInv, Searching, Starting
<1>u. ASSUME UNCHANGED pvars PROVE RouteInv' BY <1>u DEF pvars, Pin
<1>1. CASE InitExceptions BY <1>1 DEF InitExceptions, Exceptions
<1>2. CASE AcpiInit BY <1>2 DEF AcpiInit
<1>3. CASE IoapicInit BY <1>3 DEF IoapicInit, MaskedPins
<1>4. CASE LapicInit
  <2>1. AllocIntVector(129) = <<129, 130>> /\ AllocIntVector(130) = <<130, 131>>
    BY DEF AllocIntVector
  <2>2. 130 % 256 = 130 OBVIOUS
  <2>3. /\ boot' = "find" /\ goto_vector' = 129 /\ timer_vector' = 130
        /\ idt' = IdtSetDesc(idt, 130, "timer") /\ UNCHANGED <<machine, redir, dev>>
    BY <1>4, <2>1 DEF LapicInit
  <2>4. 130 \notin Exceptions BY DEF Exceptions
  <2>5. /\ 130 \in DOMAIN idt' /\ idt'[130] = "timer"
        /\ \A v \in Exceptions : v \in DOMAIN idt' /\ idt'[v] = "exception"
    BY <1>4, <2>2, <2>3, <2>4 DEF IdtSetDesc, LapicInit
  <2> QED BY <1>4, <2>3, <2>5 DEF LapicInit
<1>5. CASE FindCard BY <1>5 DEF FindCard, Pin
<1>6. CASE StartupRxbuf \/ StartupRxcfg \/ StartupImr \/ AllocPacketBuf
  <2>1. /\ boot \in Starting \ {"irq"} /\ boot' \in Starting
        /\ UNCHANGED <<machine, idt, redir, vector, timer_vector, goto_vector, dev>>
    BY <1>6 DEF StartupRxbuf, StartupRxcfg, StartupImr, AllocPacketBuf, Step
  <2> QED BY <2>1
<1>7. CASE InitIrq
  <2>1. /\ boot = "irq" /\ boot' = "up" /\ RegisterIrq(dev.irq_line, "isr")
        /\ UNCHANGED <<machine, dev, timer_vector, goto_vector>>
    BY <1>7 DEF InitIrq, Step
  <2>2. PICK l \in DOMAIN machine.pci : dev = [at |-> l, irq_line |-> machine.pci[l].irq]
    BY <2>1, FoundIs
  <2>3. PICK irq \in 0 .. 15 : irq = machine.pci[l].irq BY PlatformAssumption
  <2>4. /\ dev.irq_line = irq /\ Pin = machine.wire[irq]
        /\ AcpiRemapIrq(machine, irq) = Pin /\ Pin \in DOMAIN redir
    <3>1. machine \in Machines OBVIOUS
    <3>2. AcpiRemapIrq(machine, irq) = machine.wire[irq]
          /\ machine.wire[irq] \in 0 .. machine.pins - 1
      BY <3>1, RemapIs
    <3>3. dev.irq_line = irq /\ Pin = machine.wire[irq] BY <2>2, <2>3 DEF Pin
    <3> QED BY <3>2, <3>3
  <2>5. (32 + irq) % 256 = 32 + irq OBVIOUS
  <2>6. /\ idt' = [w \in DOMAIN idt \cup {32 + irq} |-> IF w = 32 + irq THEN "isr" ELSE idt[w]]
        /\ redir' = [redir EXCEPT ![Pin] = 32 + irq]
    <3>1. RegisterIrq(irq, "isr") BY <2>1, <2>4
    <3>2. PICK v \in Nat : v = 32 + irq OBVIOUS
    <3>3. v % 256 = v BY <3>2
    <3>4. /\ idt' = IdtSetDesc(idt, 32 + irq, "isr")
          /\ redir' = [redir EXCEPT ![AcpiRemapIrq(machine, irq)] = (32 + irq) % 256]
      BY <3>1 DEF RegisterIrq
    <3>5. idt' = IdtSetDesc(idt, v, "isr") BY <3>2, <3>4
    <3>6. redir' = [redir EXCEPT ![Pin] = v] BY <2>4, <2>5, <3>2, <3>4
    <3> QED BY <3>2, <3>3, <3>5, <3>6 DEF IdtSetDesc
  <2>7. 32 + irq # 130 /\ 32 + irq \notin Exceptions /\ 32 + irq # NULL
    BY PlatformAssumption DEF Exceptions
  <2>8. Pin' = Pin /\ dev' # NULL BY <2>1 DEF Pin
  <2>9. /\ 130 \in DOMAIN idt' /\ idt'[130] = "timer"
        /\ \A v \in Exceptions : v \in DOMAIN idt' /\ idt'[v] = "exception"
        /\ 32 + irq \in DOMAIN idt' /\ idt'[32 + irq] = "isr"
    BY <2>1, <2>6, <2>7
  <2>10. \A p \in DOMAIN redir' : redir'[p] = IF p = Pin THEN 32 + irq ELSE NULL
    BY <2>1, <2>4, <2>6
  <2>11. \A p \in DOMAIN redir' :
           /\ redir'[p] # NULL <=> dev' # NULL /\ p = Pin'
           /\ redir'[p] # NULL => redir'[p] \in DOMAIN idt' /\ idt'[redir'[p]] = "isr"
    BY <2>7, <2>8, <2>9, <2>10
  <2>12. DOMAIN redir' = 0 .. machine'.pins - 1 BY <2>1, <2>6
  <2> QED BY <2>1, <2>9, <2>11, <2>12
<1>8. CASE Isr
  BY <1>8, <1>u DEF Isr, Interrupt, IsrRead, IsrAck, Recieve, IsrFinal, IsrEoi, env
<1>9. CASE CardStore \/ CardFault \/ CardSend
  BY <1>9, <1>u DEF CardStore, CardFault, CardSend, env
<1>10. CASE Sending BY <1>10, <1>u, SendKeeps
<1>11. CASE UNCHANGED vars BY <1>11, <1>u DEF vars, env
<1> QED BY <1>1, <1>2, <1>3, <1>4, <1>5, <1>6, <1>7, <1>8, <1>9, <1>10, <1>11
        DEF Next, Boot, InitMachine, Sending

\* Initialisation leads the card's interrupt, and nothing else, to isr(), on
\* every machine whose MADT says how the lines are wired.
THEOREM RouteCorrect == Spec => []RouteExact
<1>1. Init => RouteInv
  BY DEF Init, PlatformInit, RouteInv, Searching, Starting
<1>2. RouteInv => RouteExact
  <2> SUFFICES ASSUME RouteInv PROVE RouteExact OBVIOUS
  <2>1. ASSUME boot = "halted", NEW i \in DOMAIN machine.rsdt,
               machine.rsdt[i].signature = "APIC"
        PROVE  \E j \in 1 .. i : /\ machine.rsdt[j].signature = "APIC"
                                 /\ machine.rsdt[j].sum % 256 # 0
    <3> DEFINE found == {k \in DOMAIN machine.rsdt : machine.rsdt[k].signature = "APIC"}
    <3>1. AcpiQuery(machine, "APIC") = NULL /\ machine \in Machines BY <2>1 DEF RouteInv
    <3>s. machine.rsdt \in Seq([signature : STRING, sum : Nat]) BY <3>1, PlatformAssumption
    <3>2. PICK n \in Nat : DOMAIN machine.rsdt = 1 .. n BY <3>s
    <3>3. found \in SUBSET Nat /\ i \in found BY <2>1, <3>2
    <3>4. Least(found) \in found /\ Least(found) <= i BY <3>3, LeastIs
    <3>5. Least(found) # NULL BY <3>3, <3>4, PlatformAssumption
    <3>6. machine.rsdt[Least(found)].sum % 256 # 0 BY <3>1, <3>3, <3>5 DEF AcpiQuery
    <3>7. Least(found) \in 1 .. i BY <3>2, <3>3, <3>4
    <3> QED BY <3>4, <3>6, <3>7
  <2>2. boot = "up" =>
          /\ \A v \in Exceptions : idt[v] = "exception"
          /\ idt[timer_vector] = "timer" /\ goto_vector # timer_vector
    BY DEF RouteInv
  <2>3. boot = "up" =>
          \A p \in DOMAIN redir :
            /\ redir[p] # NULL <=> dev # NULL /\ p = machine.wire[machine.pci[dev.at].irq]
            /\ redir[p] # NULL => redir[p] \in DOMAIN idt /\ idt[redir[p]] = "isr"
    BY DEF RouteInv, Pin
  <2> QED BY <2>1, <2>2, <2>3 DEF RouteExact
<1> QED BY <1>1, <1>2, RouteStep, PTL DEF Spec

=============================================================================
