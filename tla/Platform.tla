------------------------------ MODULE Platform ------------------------------
(***************************************************************************)
(* How the kernel finds the interrupt controller and its devices and       *)
(* routes their interrupts: ACPI tables (acpi/acpi.c), the I/O APIC        *)
(* (amd64/ioapic.c), interrupt gates (amd64/idt.c, interrupts.c,           *)
(* exceptions.c), vectors of the local APIC (amd64/lapic.c) and PCI        *)
(* (dev/pci/pci.c), in the order of init() in kern_init.c.                 *)
(*                                                                         *)
(* A machine is what firmware and hardware present: the tables of the      *)
(* RSDT, the entries of the MADT, the functions on the PCI bus and the     *)
(* number of pins of the I/O APIC.  Locations on the bus are numbered in   *)
(* the order pci_find() visits them.                                       *)
(***************************************************************************)
EXTENDS Integers, Sequences, FiniteSets

CONSTANTS
  Machines,   \* machines the kernel may be booted on
  Buses,      \* buses pci_find() visits: 5 in the code
  Slots,      \* locations on a bus: 32 slots of 8 functions
  Wanted,     \* the vendor and device a driver looks for
  NULL

\* Overrides of a line in the MADT.
Overrides(m, irq) ==
  {i \in DOMAIN m.madt : m.madt[i].type = "override" /\ m.madt[i].source = irq}

\* What the firmware may be relied on for: the tables have types, entries of the
\* MADT have a length, there is one I/O APIC, lines are those of the two old
\* interrupt controllers, and the MADT says to which pin each one is wired.
ASSUME PlatformAssumption ==
  /\ Buses \in Nat /\ Slots \in Nat
  /\ NULL \notin Nat /\ NULL # "packet_buf"
  /\ NULL \notin [at : Nat, irq_line : Nat]
  /\ \A m \in Machines :
       /\ m.rsdt \in Seq([signature : STRING, sum : Nat])
       /\ m.pins \in Nat /\ m.pins >= 16
       /\ DOMAIN m.madt \subseteq Nat
       /\ \A i \in DOMAIN m.madt : m.madt[i].length > 0
       /\ Cardinality({i \in DOMAIN m.madt : m.madt[i].type = "ioapic"}) = 1
       /\ DOMAIN m.pci \subseteq Nat
       /\ \A l \in DOMAIN m.pci : m.pci[l].irq \in 0 .. 15
       /\ \A irq \in 0 .. 15 :
            /\ m.wire[irq] \in 0 .. m.pins - 1
            /\ Overrides(m, irq) = {} => m.wire[irq] = irq
            /\ \A i \in Overrides(m, irq) : m.madt[i].gsi = m.wire[irq]

----------------------------------------------------------------------------
(* ACPI.                                                                   *)

Least(S) == CHOOSE i \in S : \A j \in S : i <= j

\* acpi_query(): the first table with the signature, if its checksum is right.
AcpiQuery(m, sig) ==
  LET found == {i \in DOMAIN m.rsdt : m.rsdt[i].signature = sig}
  IN  IF found # {} /\ m.rsdt[Least(found)].sum % 256 = 0
      THEN Least(found) ELSE NULL

\* parse_madt(): the last I/O APIC of the table.  (The address of the local APIC
\* that it also notes is left out: each core has its own there.)
ParseMadt(m) ==
  LET found == {i \in DOMAIN m.madt : m.madt[i].type = "ioapic"}
  IN  m.madt[CHOOSE i \in found : \A j \in found : j <= i].addr

\* Mutant: overrides are ignored.
AcpiRemapIrqNot(m, irq) == irq

\* acpi_remap_irq(): the pin of the first override of the line, or the line.
AcpiRemapIrq(m, irq) ==
  IF Overrides(m, irq) = {} THEN irq ELSE m.madt[Least(Overrides(m, irq))].gsi

----------------------------------------------------------------------------
(* PCI.                                                                    *)

\* init_dev(): what the kernel notes of a function.  (Its BARs are left out.)
InitDev(m, l) == [at |-> l, irq_line |-> m.pci[l].irq]

\* pci_find(): the first function with the vendor and the device.
PciFind(m, id) ==
  LET found == {l \in DOMAIN m.pci : m.pci[l].id = id /\ l < Buses * Slots}
  IN  IF found = {} THEN NULL ELSE InitDev(m, Least(found))

----------------------------------------------------------------------------
VARIABLES
  machine,        \* the machine
  boot,           \* how far init() has come
  idt,            \* idt[v]: the handler of vector v, where the gate is present
  redir,          \* redir[p]: vector of pin p of the I/O APIC; NULL: masked
  ioapic_base,    \* g_ioapic_mmio_base
  vector,         \* the static of alloc_int_vector()
  timer_vector, goto_vector,
  dev,            \* the function pci_find() found, or NULL
  master          \* functions that may master the bus

pvars == <<machine, boot, idt, redir, ioapic_base, vector, timer_vector,
           goto_vector, dev, master>>

Exceptions == {0, 1, 3, 4, 5, 6, 7, 8, 10, 11, 12, 13, 14}

PlatformInit ==
  /\ machine \in Machines
  /\ boot = "exceptions"
  /\ idt = << >>
  /\ redir = [p \in 0 .. machine.pins - 1 |-> machine.firmware]
  /\ ioapic_base = NULL
  /\ vector = 129
  /\ timer_vector = 0 /\ goto_vector = 0
  /\ dev = NULL /\ master = {}

\* idt_set_desc(); the vector is a byte.
IdtSetDesc(table, v, isr) ==
  [w \in DOMAIN table \cup {v % 256} |-> IF w = v % 256 THEN isr ELSE table[w]]

InitExceptions ==
  /\ boot = "exceptions"
  /\ idt' = [v \in DOMAIN idt \cup Exceptions |->
               IF v \in Exceptions THEN "exception" ELSE idt[v]]
  /\ boot' = "acpi"
  /\ UNCHANGED <<machine, redir, ioapic_base, vector, timer_vector, goto_vector,
                 dev, master>>

\* acpi_init(): its assertion halts a machine without a MADT it can read.
AcpiInit ==
  /\ boot = "acpi"
  /\ IF AcpiQuery(machine, "APIC") = NULL
     THEN boot' = "halted" /\ UNCHANGED ioapic_base
     ELSE boot' = "ioapic" /\ ioapic_base' = ParseMadt(machine)
  /\ UNCHANGED <<machine, idt, redir, vector, timer_vector, goto_vector, dev, master>>

\* ioapic_init(): the pins it masks, one more than the version register says.
MaskedPins == 0 .. machine.pins - 1

IoapicInit ==
  /\ boot = "ioapic"
  /\ redir' = [p \in DOMAIN redir |-> IF p \in MaskedPins THEN NULL ELSE redir[p]]
  /\ boot' = "lapic"
  /\ UNCHANGED <<machine, idt, ioapic_base, vector, timer_vector, goto_vector,
                 dev, master>>

\* alloc_int_vector(): the vector it returns, and then the static.
AllocIntVector(v) == IF v >= 255 THEN <<0, v>> ELSE <<v, v + 1>>

\* lapic_init() on the boot processor: two vectors and the timer's gate.
LapicInit ==
  /\ boot = "lapic"
  /\ LET first == AllocIntVector(vector)
         second == AllocIntVector(first[2])
     IN  /\ goto_vector' = first[1] /\ timer_vector' = second[1]
         /\ vector' = second[2]
         /\ idt' = IdtSetDesc(idt, second[1], "timer")
  /\ boot' = "find"
  /\ UNCHANGED <<machine, redir, ioapic_base, dev, master>>

\* pci_enable_bus_mastering().
EnableBusMastering(d) == master' = master \cup {d.at}

\* rtl8139_init() up to startup_nic(): the card is looked for and, if there is
\* one, allowed to master the bus; else its descriptor is freed.
FindCard ==
  /\ boot = "find"
  /\ dev' = PciFind(machine, Wanted)
  /\ IF dev' = NULL THEN boot' = "up" /\ UNCHANGED master
                    ELSE boot' = "start" /\ EnableBusMastering(dev')
  /\ UNCHANGED <<machine, idt, redir, ioapic_base, vector, timer_vector, goto_vector>>

\* register_irq(): a gate, and the line's pin of the I/O APIC unmasked with its
\* vector; edge triggered, for the boot processor.
RegisterIrq(irq, isr) ==
  /\ idt' = IdtSetDesc(idt, 32 + irq, isr)
  /\ redir' = [redir EXCEPT ![AcpiRemapIrq(machine, irq)] = (32 + irq) % 256]

----------------------------------------------------------------------------
(* Properties.                                                             *)

\* The kernel halts on no machine with a sound MADT.  Once the devices are up,
\* the only pin that is not masked is the one the card's line is wired to, its
\* vector leads to the card's handler, and no gate of an exception or of the
\* timer was taken for it.
RouteExact ==
  /\ boot = "halted" =>
       \A i \in DOMAIN machine.rsdt :
         machine.rsdt[i].signature = "APIC" =>
           \E j \in 1 .. i : machine.rsdt[j].signature = "APIC" /\ machine.rsdt[j].sum % 256 # 0
  /\ boot = "up" =>
       /\ \A p \in DOMAIN redir :
            /\ redir[p] # NULL <=>
                 dev # NULL /\ p = machine.wire[machine.pci[dev.at].irq]
            /\ redir[p] # NULL => redir[p] \in DOMAIN idt /\ idt[redir[p]] = "isr"
       /\ \A v \in Exceptions : idt[v] = "exception"
       /\ idt[timer_vector] = "timer" /\ goto_vector # timer_vector
=============================================================================
