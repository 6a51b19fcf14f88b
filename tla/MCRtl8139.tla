----------------------------- MODULE MCRtl8139 -----------------------------
(* A scaled ring of 32 bytes in pages of 32, a buffer that starts a page and *)
(* one that starts 8 bytes into it, and machines that differ in what their   *)
(* firmware tells: no MADT, a first one with a wrong checksum, no card, a    *)
(* line with and without an override, one with pins left unmasked.           *)
EXTENDS Rtl8139, TLC

MCTable(sig, sum) == [signature |-> sig, sum |-> sum]
MCIoapic == [type |-> "ioapic", length |-> 12, addr |-> "ioapic", source |-> 0, gsi |-> 0]
MCOverride(from, to) ==
  [type |-> "override", length |-> 10, addr |-> "none", source |-> from, gsi |-> to]
MCCard(id, irq) == [id |-> id, irq |-> irq]

MCMachine(rsdt, madt, pci, firmware, wire) ==
  [rsdt |-> rsdt, madt |-> madt, pci |-> pci, pins |-> 24, firmware |-> firmware,
   wire |-> [i \in 0 .. 15 |-> IF i \in DOMAIN wire THEN wire[i] ELSE i]]

MCMachines ==
  LET fine == <<MCTable("FACP", 256), MCTable("APIC", 512)>>
      card == 5 :> MCCard("rtl8139", 11)
  IN  { MCMachine(<<MCTable("FACP", 256)>>, <<MCIoapic>>, card, NULL, << >>),
        MCMachine(<<MCTable("APIC", 255), MCTable("APIC", 512)>>, <<MCIoapic>>, card,
                  NULL, << >>),
        MCMachine(fine, <<MCIoapic>>, 3 :> MCCard("e1000", 9), 8, << >>),
        MCMachine(fine, <<MCIoapic, MCOverride(0, 2)>>,
                  (3 :> MCCard("e1000", 9)) @@ card @@ (7 :> MCCard("rtl8139", 10)),
                  8, 0 :> 2),
        MCMachine(fine, <<MCOverride(0, 2), MCIoapic, MCOverride(11, 19)>>, card,
                  NULL, (0 :> 2) @@ (11 :> 19)) }

\* The third is too long for recieve(), the fourth has an error.
MCPackets == {[len |-> 5, ok |-> TRUE], [len |-> 9, ok |-> TRUE], [len |-> 12, ok |-> TRUE],
              [len |-> 5, ok |-> FALSE]}

MCStrays == {[len |-> 9, ok |-> TRUE], [len |-> 0, ok |-> FALSE]}

\* Mostly receiving, with faults, and mostly sending.
MCLoads == {[packets |-> 3, sends |-> 1, faults |-> 0],
            [packets |-> 2, sends |-> 0, faults |-> 1],
            [packets |-> 1, sends |-> 5, faults |-> 0]}
=============================================================================
