-------------------------------- MODULE MCBoot --------------------------------
(***************************************************************************)
(* The boot on QEMU's virt machine with each of the four guests that the   *)
(* repository ships a device tree for, and with trees that leave a device  *)
(* out, repeat one, or describe something the boot cannot map.             *)
(***************************************************************************)
EXTENDS Boot

Dev(b, s) == [base |-> b, size |-> s]
Ram(o, s) == <<[offset |-> o, size |-> s]>>

\* guest/*/*.dts, whose devices are those of QEMU's virt machine.
Virt == [memory |-> Ram(524288, 786432),
         virtio |-> [i \in 1 .. 8 |-> Dev(268435456 + (9 - i) * 4096, 4096)],
         test   |-> <<Dev(1048576, 4096)>>,
         uart   |-> <<Dev(268435456, 256)>>,
         clint  |-> <<Dev(33554432, 65536)>>,
         plic   |-> <<Dev(201326592, 6291456)>>,
         pci    |-> <<Dev(805306368, 268435456)>>]

Variants(t) ==
  {t,
   [t EXCEPT !.plic = <<>>, !.pci = <<>>],
   [t EXCEPT !.uart = <<>>, !.test = <<>>, !.virtio = <<>>, !.clint = <<>>],
   [t EXCEPT !.test = <<Dev(2097152, 4096), Dev(1048576, 4096)>>],
   [t EXCEPT !.virtio = [i \in 1 .. 16 |-> Dev(268435456 + i * 4096, 4096)]],
   [t EXCEPT !.virtio = [i \in 1 .. 17 |-> Dev(268435456 + i * 4096, 4096)]],
   [t EXCEPT !.virtio = <<Dev(268439552, 512), Dev(268440064, 512)>>],
   [t EXCEPT !.plic = <<Dev(201326592, 0)>>],
   [t EXCEPT !.uart = <<Dev(1052672, 256)>>]}

MCHostTrees == Variants(Virt)

linux == [Virt EXCEPT !.memory = Ram(589824, 32768)]
rCore == [Virt EXCEPT !.memory = Ram(590336, 32768)]
rtthread == [Virt EXCEPT !.memory = Ram(589826, 4096)]
u_boot == [Virt EXCEPT !.memory = Ram(590336, 4096)]
twoBanks == [Virt EXCEPT !.memory = Ram(589824, 32768) \o Ram(655360, 4096)]

MCGuestTrees == {linux, rtthread, u_boot, twoBanks} \cup Variants(rCore)
=============================================================================
