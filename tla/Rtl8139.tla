------------------------------ MODULE Rtl8139 ------------------------------
(***************************************************************************)
(* The network driver (dev/net/rtl8139.c) on a machine of module Platform: *)
(* its initialisation, its interrupt routine and rtl8139_send_packet(),    *)
(* interleaved with the card.                                              *)
(*                                                                         *)
(* The card is external: it stores packets in the receive ring, sends the  *)
(* transmit descriptors in a circle and latches events in its interrupt    *)
(* status.  Its line is up while an unmasked event is latched; the I/O     *)
(* APIC forwards the rising edge, and forgets an edge on a masked pin.     *)
(* One thread at a time calls rtl8139_send_packet(), which takes no lock.  *)
(***************************************************************************)
EXTENDS Platform

CONSTANTS
  RxBufferSize, PacketSizeMin, PacketSizeMax,
  PageSize,     \* bytes of a page
  Rxbufs,       \* where kmalloc() may put the receive buffer
  Packets,      \* what may arrive: records of a length and a status
  Strays,       \* what other bytes than a stored header may spell, read as one
  Loads         \* bounds of a behaviour: packets stored, calls to send, faults

ASSUME Rtl8139Assumption ==
  /\ RxBufferSize \in Nat \ {0}
  /\ RxBufferSize % 4 = 0 /\ 65536 % RxBufferSize = 0
  /\ PageSize \in Nat \ {0} /\ Rxbufs \subseteq Nat
  /\ Packets \cup Strays \subseteq [len : Nat, ok : BOOLEAN] /\ Strays # {}
  /\ \A p \in Packets : p.len + 8 < RxBufferSize

VARIABLES
  \* the card
  rx_on,         \* RXCFG: packets are accepted
  rbstart,       \* RXBUF: where the card's ring starts, or NULL
  imr,           \* IMR: events raise the line
  events,        \* ISR: latched events
  rxmem,         \* rxmem[o]: the packet that starts at offset o of the ring
  cbr, capr,     \* offset of the next packet; CAPR
  stored,        \* packets stored so far
  desc,          \* desc[d]: packet of descriptor d to be sent; 0: OWN is set
  txptr,         \* the descriptor the card sends next
  page,          \* the packet in the page all descriptors read: frame 0
  mar4,          \* MAR4: the upper half of the multicast filter
  faults, load,  \* events of CardFault so far; the bounds
  \* the local APIC and the interrupt routine
  irr, pc, status,
  \* the driver
  rxbuf,         \* the receive buffer, or NULL
  packet_buf, rxbuf_offset,
  delivered,     \* calls of recieve() that copied a packet,
  refused,       \* and that returned early
  next_txbuf, hwbuf, spc, try, sent,
  \* history
  missed,        \* packets whose event was not seen on its own
  early,         \* an edge came before the pin was unmasked
  truncated,     \* the loop ended on an event that uint8_t stat drops
  crowded        \* a search passed a descriptor the card had not sent

rxcard == <<rx_on, rbstart, rxmem, cbr, capr, stored>>
txcard == <<desc, txptr, page, mar4>>
line   == <<imr, events, irr, early>>
recv   == <<rxbuf, packet_buf, rxbuf_offset, delivered, refused>>
routine == <<pc, status, truncated>>
sender == <<next_txbuf, hwbuf, spc, try, sent, crowded>>
env    == <<pvars, load>>
vars   == <<env, rxcard, txcard, line, recv, routine, sender, faults, missed>>

NoEvent == {}
TxBufferCount == 4

Init ==
  /\ PlatformInit
  /\ rx_on = FALSE /\ rbstart = NULL /\ imr = FALSE /\ events = NoEvent
  /\ rxmem = << >> /\ cbr = 0 /\ capr = 65536 - 16 /\ stored = 0
  /\ desc = [d \in 0 .. TxBufferCount - 1 |-> 0] /\ txptr = 0
  /\ page = 0 /\ mar4 = "reset" /\ faults = 0 /\ load \in Loads
  /\ irr = FALSE /\ pc = "idle" /\ status = NoEvent
  /\ rxbuf = NULL /\ packet_buf = NULL /\ rxbuf_offset = 0
  /\ delivered = 0 /\ refused = 0
  /\ next_txbuf = 0 /\ hwbuf = 0 /\ spc = "idle" /\ try = 0 /\ sent = 0
  /\ missed = 0 /\ early = FALSE /\ truncated = FALSE /\ crowded = FALSE

----------------------------------------------------------------------------
(* Initialisation, after FindCard.                                         *)

InitMachine ==
  /\ InitExceptions \/ AcpiInit \/ IoapicInit \/ LapicInit \/ FindCard
  /\ UNCHANGED <<load, rxcard, txcard, line, recv, routine, sender, faults, missed>>

Step(from, to) ==
  /\ boot = from /\ boot' = to
  /\ UNCHANGED <<load, machine, ioapic_base, vector, timer_vector, goto_vector, dev, master,
                 txcard, routine, sender, faults, missed, rxbuf_offset, delivered,
                 refused, rxmem, cbr, capr, stored, events, irr>>

\* The pin the card's line is wired to.
Pin == machine.wire[machine.pci[dev.at].irq]

\* vmm_get_phys() of an address of the direct map: that of its page, the offset
\* in the page is dropped.  (The map is one of small pages, see module Vmm.)
VmmGetPhys(virt) == (virt \div PageSize) * PageSize

\* startup_nic() up to RXBUF: the reset leaves no packet accepted and no event
\* unmasked.  REG_MAR4 is 0x12, so that MAR4, at 0x0C, keeps its reset value.
\* kmalloc() aligns the buffer to 8 bytes, and the card gets the page's address.
StartupRxbuf ==
  /\ Step("start", "rxcfg")
  /\ rxbuf' \in Rxbufs /\ rbstart' = VmmGetPhys(rxbuf')
  /\ UNCHANGED <<idt, redir, rx_on, imr, early, packet_buf>>

\* RXCFG: from here the card stores packets.
StartupRxcfg ==
  /\ Step("rxcfg", "imr") /\ rx_on' = TRUE
  /\ UNCHANGED <<idt, redir, rbstart, rxbuf, imr, early, packet_buf>>

\* IMR: an event that is latched raises the line, on a pin still masked.
StartupImr ==
  /\ Step("imr", "buf") /\ imr' = TRUE
  /\ early' = (early \/ events # NoEvent)
  /\ UNCHANGED <<idt, redir, rx_on, rbstart, rxbuf, packet_buf>>

AllocPacketBuf ==
  /\ Step("buf", "irq") /\ packet_buf' = "packet_buf"
  /\ UNCHANGED <<idt, redir, rx_on, rbstart, rxbuf, imr, early>>

InitIrq ==
  /\ Step("irq", "up")
  /\ RegisterIrq(dev.irq_line, "isr")
  /\ UNCHANGED <<rx_on, rbstart, rxbuf, imr, early, packet_buf>>

----------------------------------------------------------------------------
(* The card.                                                               *)

\* An event is latched; the line rises if none was.
Raise(e) ==
  /\ events' = events \cup {e}
  /\ IF imr /\ events = NoEvent
     THEN IF redir[Pin] # NULL
          THEN irr' = TRUE /\ UNCHANGED early
          ELSE early' = TRUE /\ UNCHANGED irr
     ELSE UNCHANGED <<irr, early>>
  /\ missed' = missed + (IF e = "rx" /\ "rx" \in events THEN 1 ELSE 0)
  /\ UNCHANGED imr

\* Where the next packet starts: header, packet and checksum, in whole words.
Following(o, len) == (((o + len + 4 + 3) \div 4) * 4) % RxBufferSize

Used == (cbr - (capr + 16)) % RxBufferSize

\* Offsets of the packets that one of the given length, stored next, leaves alone.
Untouched(len) == {o \in DOMAIN rxmem : o < cbr \/ o >= cbr + len + 4}

\* A packet arrives.  It is stored if a word stays free; where it lies it
\* overwrites what was there, past the end of the ring if need be.
CardStore ==
  /\ rx_on /\ dev.at \in master /\ stored < load.packets
  /\ \E p \in Packets :
       IF Used + p.len + 8 < RxBufferSize
       THEN /\ rxmem' = [o \in {cbr} \cup Untouched(p.len) |->
                           IF o = cbr THEN [id |-> stored + 1, len |-> p.len, ok |-> p.ok]
                           ELSE rxmem[o]]
            /\ cbr' = Following(cbr, p.len)
            /\ stored' = stored + 1
            /\ Raise("rx")
       ELSE Raise("overflow") /\ UNCHANGED <<rxmem, cbr, stored>>
  /\ UNCHANGED <<env, rx_on, rbstart, capr, txcard, recv, routine, sender, faults>>

\* An event whose bit is above the lower byte of ISR.
CardFault ==
  /\ rx_on /\ faults < load.faults
  /\ faults' = faults + 1
  /\ Raise("high")
  /\ UNCHANGED <<env, rxcard, txcard, recv, routine, sender>>

\* The descriptor whose turn it is has been sent.
CardSend ==
  /\ desc[txptr] # 0 /\ dev.at \in master
  /\ desc' = [desc EXCEPT ![txptr] = 0]
  /\ txptr' = (txptr + 1) % TxBufferCount
  /\ Raise("tx")
  /\ UNCHANGED <<env, rxcard, page, mar4, recv, routine, sender, faults>>

----------------------------------------------------------------------------
(* The interrupt routine.                                                  *)

\* stat is a byte: the events it keeps.
Stat(s) == s \ {"high"}

Interrupt ==
  /\ boot = "up" /\ irr /\ pc = "idle"
  /\ irr' = FALSE /\ pc' = "read"
  /\ UNCHANGED <<env, rxcard, txcard, imr, events, early, recv, status, truncated,
                 sender, faults, missed>>

IsrRead ==
  /\ pc = "read"
  /\ status' = events /\ pc' = "ack"
  /\ UNCHANGED <<env, rxcard, txcard, line, recv, truncated, sender, faults, missed>>

\* Mutant: the routine ends after one round.
IsrAckOnce ==
  /\ pc = "ack"
  /\ events' = events \ status
  /\ pc' = IF "rx" \in status THEN "recv" ELSE "final"
  /\ UNCHANGED <<env, rxcard, txcard, imr, irr, early, recv, status, truncated,
                 sender, faults, missed>>

\* Mutant: every event is acknowledged, also one that came after the read.
IsrAckAll ==
  /\ pc = "ack"
  /\ events' = NoEvent
  /\ pc' = IF Stat(status) = {} THEN "final"
           ELSE IF "rx" \in status THEN "recv" ELSE "read"
  /\ truncated' = (truncated \/ (Stat(status) = {} /\ status # {}))
  /\ UNCHANGED <<env, rxcard, txcard, imr, irr, early, recv, status, sender,
                 faults, missed>>

\* The events that were read are acknowledged; the loop ends if stat is 0.
IsrAck ==
  /\ pc = "ack"
  /\ events' = events \ status
  /\ pc' = IF Stat(status) = {} THEN "final"
           ELSE IF "rx" \in status THEN "recv" ELSE "read"
  /\ truncated' = (truncated \/ (Stat(status) = {} /\ status # {}))
  /\ UNCHANGED <<env, rxcard, txcard, imr, irr, early, recv, status, sender,
                 faults, missed>>

\* Mutant: the header is not counted.
NextOffsetBare(o, len) == (((o + len + 3) \div 4) * 4) % RxBufferSize

\* Where the driver looks for the packet after this one.
NextOffset(o, len) == (((o + len + 4 + 3) \div 4) * 4) % RxBufferSize

Accepted(p) == p.ok /\ p.len < PacketSizeMax /\ p.len >= PacketSizeMin

\* The offset in the card's ring of the byte at rxbuf + rxbuf_offset.
ReadAt == rxbuf + rxbuf_offset - rbstart

\* recieve(): one packet, or none if the header read is refused; the packet is
\* not stepped over then.  The header is one the card stored, or whatever the
\* bytes of a packet or of the memory behind the ring spell.
Recieve ==
  /\ pc = "recv" /\ pc' = "read"
  /\ \E p \in IF ReadAt \in DOMAIN rxmem THEN {rxmem[ReadAt]} ELSE Strays :
       IF Accepted(p)
       THEN /\ delivered' = delivered + 1
            /\ rxbuf_offset' = NextOffset(rxbuf_offset, p.len)
            /\ capr' = (rxbuf_offset' - 16) % 65536
            /\ UNCHANGED refused
       ELSE /\ refused' = refused + 1
            /\ UNCHANGED <<delivered, rxbuf_offset, capr>>
  /\ UNCHANGED <<env, rx_on, rbstart, rxmem, cbr, stored, txcard, line, rxbuf,
                 packet_buf, status, truncated, sender, faults, missed>>

\* RXOK and TXOK are acknowledged once more.
IsrFinal ==
  /\ pc = "final" /\ pc' = "eoi"
  /\ events' = events \ {"rx", "tx"}
  /\ missed' = missed + (IF "rx" \in events THEN 1 ELSE 0)
  /\ UNCHANGED <<env, rxcard, txcard, imr, irr, early, recv, status, truncated,
                 sender, faults>>

\* Mutant: no lapic_send_eoi(): the vector stays in service.
IsrEoiNot ==
  /\ pc = "eoi" /\ pc' = "in service"
  /\ UNCHANGED <<env, rxcard, txcard, line, recv, status, truncated, sender,
                 faults, missed>>

IsrEoi ==
  /\ pc = "eoi" /\ pc' = "idle"
  /\ UNCHANGED <<env, rxcard, txcard, line, recv, status, truncated, sender,
                 faults, missed>>

----------------------------------------------------------------------------
(* rtl8139_send_packet(): the packet is the number of the call.            *)

quiet == <<env, rxcard, txptr, line, recv, routine, faults, missed>>

Send ==
  /\ boot = "up" /\ dev # NULL /\ spc = "idle" /\ sent < load.sends
  /\ sent' = sent + 1 /\ spc' = "scan" /\ try' = 0
  /\ UNCHANGED <<quiet, desc, page, mar4, next_txbuf, hwbuf, crowded>>

\* Mutant: the descriptor is used again as soon as it is free.
NextTxbufSame(h) == h % TxBufferCount

NextTxbuf(h) == (h + 1) % TxBufferCount

\* One round of the search, and with its last one the new next_txbuf.
SendScan ==
  /\ spc = "scan"
  /\ LET candidate == (next_txbuf + try) % TxBufferCount
         free == desc[candidate] = 0
     IN  /\ crowded' = (crowded \/ ~free)
         /\ IF ~free /\ try + 1 < TxBufferCount
            THEN try' = try + 1 /\ UNCHANGED <<hwbuf, next_txbuf, spc>>
            ELSE /\ hwbuf' = IF free THEN candidate ELSE -1
                 /\ next_txbuf' = NextTxbuf(hwbuf')
                 /\ spc' = "store"
                 /\ UNCHANGED try
  /\ UNCHANGED <<quiet, desc, page, mar4, sent>>

\* Mutant: the descriptor is started before the packet is in its page.
SendStoreLate ==
  /\ spc = "store" /\ spc' = "start"
  /\ UNCHANGED <<quiet, desc, page, mar4, next_txbuf, hwbuf, try, sent, crowded>>

\* The packet is copied to page 0, because the elements of txbufs are bytes; the
\* card reads there whatever the descriptor, because its address registers are
\* never written.
SendStore ==
  /\ spc = "store" /\ spc' = "start"
  /\ page' = sent
  /\ UNCHANGED <<quiet, desc, mar4, next_txbuf, hwbuf, try, sent, crowded>>

\* The size is written to the descriptor's status; with hwbuf -1, to MAR4.
SendStart ==
  /\ spc = "start" /\ spc' = "idle"
  /\ IF hwbuf = -1 THEN mar4' = "size" /\ UNCHANGED desc
     ELSE desc' = [desc EXCEPT ![hwbuf] = sent] /\ UNCHANGED mar4
  /\ UNCHANGED <<quiet, page, next_txbuf, hwbuf, try, sent, crowded>>

----------------------------------------------------------------------------
Boot == InitMachine \/ StartupRxbuf \/ StartupRxcfg \/ StartupImr \/ AllocPacketBuf \/ InitIrq

Isr == Interrupt \/ IsrRead \/ IsrAck \/ Recieve \/ IsrFinal \/ IsrEoi

Next ==
  \/ Boot \/ Isr
  \/ CardStore \/ CardFault \/ CardSend
  \/ Send \/ SendScan \/ SendStore \/ SendStart

\* The processor keeps executing, takes a pending interrupt once it is between
\* two of them, and the card sends what it was given.  Nothing has to arrive.
Spec == /\ Init /\ [][Next]_vars
        /\ WF_vars(Boot) /\ WF_vars(Isr) /\ WF_vars(CardSend)
        /\ WF_vars(SendScan \/ SendStore \/ SendStart)

----------------------------------------------------------------------------
(* Properties.                                                             *)

\* The driver and the card agree where packets start if the buffer starts a
\* page: the oldest packet that was not delivered is the one at rxbuf_offset and
\* has not been overwritten.  Wherever the buffer is, recieve() is never called
\* without a packet, nor before there is a buffer to copy it to, the card stores
\* none before it was told of a ring, and both stay in theirs.
RingInStep ==
  /\ rxbuf = rbstart /\ delivered < stored =>
       /\ rxbuf_offset \in DOMAIN rxmem
       /\ rxmem[rxbuf_offset].id = delivered + 1
  /\ pc = "recv" => delivered < stored /\ packet_buf # NULL
  /\ rx_on => rbstart # NULL
  /\ {rxbuf_offset, cbr} \subseteq 0 .. RxBufferSize - 1

\* recieve() reads the header of a packet the card stored: RXBUF is to be the
\* address of rxbuf.  The code fails this unless rxbuf starts a page.
HeaderRead == pc = "recv" => ReadAt \in DOMAIN rxmem

\* The calls of recieve() are behind the card by the packets of which the driver
\* can still learn and those whose event shared a bit with another's or was
\* wiped by the last acknowledgement: no event is lost in any other way, none is
\* answered twice, and those are never caught up with.
LagExact ==
  stored = delivered + refused + missed
                              + (IF "rx" \in events THEN 1 ELSE 0)
                              + (IF pc = "recv" THEN 1 ELSE 0)

\* While an event is latched no further edge comes, so the routine must be
\* about to see it: it is pending, or in its loop.  The code fails this only
\* if an event came before the pin was unmasked, or the loop ended on an
\* event the byte stat does not hold.
LineNotStuck ==
  imr /\ events # NoEvent =>
    irr \/ pc \in {"read", "ack", "recv"} \/ early \/ truncated

\* Descriptors are started in the order the card sends them, so that those
\* waiting are the ones from txptr to next_txbuf, until a search passes one
\* that was not sent; and what the card reads is never older than the packet
\* the descriptor was started for.
TxInOrder ==
  /\ ~crowded /\ spc \in {"idle", "scan"} =>
       \E n \in 0 .. TxBufferCount :
         /\ (txptr + n) % TxBufferCount = next_txbuf
         /\ \A k \in 0 .. TxBufferCount - 1 :
              desc[(txptr + k) % TxBufferCount] # 0 <=> k < n
  /\ \A d \in DOMAIN desc : desc[d] <= page

\* Every packet the card stored is answered by a call of recieve() in the end,
\* unless an event was missed or the line is stuck.
RxProgress ==
  (delivered + refused < stored)
    ~> (delivered + refused = stored \/ missed > 0 \/ early \/ truncated)

\* Every started descriptor is sent in the end, unless the order was lost.
TxDrains ==
  (\E d \in DOMAIN desc : desc[d] # 0) ~> (crowded \/ \A d \in DOMAIN desc : desc[d] = 0)
=============================================================================
