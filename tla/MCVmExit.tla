------------------------------- MODULE MCVmExit -------------------------------
(***************************************************************************)
(* The hart with two devices and a short clock.  WellBehaved is a guest    *)
(* that keeps to what the hypervisor supports; AnyExit adds the exits that *)
(* end in a VmmError or a panic.                                           *)
(***************************************************************************)
EXTENDS VmExit, TLC

MCPriority == (1 :> 1) @@ (2 :> 2)

Exit(c) == [cause |-> c, call |-> "none", addr |-> 0, op |-> "none"]
Sbi(f) == [cause |-> "VirtualSupervisorEnvCall", call |-> f, addr |-> 0, op |-> "none"]
Mmio(a, o) == [cause |-> "GuestPageFault", call |-> "none", addr |-> a, op |-> o]
Plic(off, o) == Mmio(base_addr + off, o)

Driver == {Plic(ClaimReg, "Lw"), Plic(ClaimReg, "Sw"), Plic(ThresholdReg, "Sw"),
           Plic(ThresholdReg + 8, "Lw")}

WellBehaved == Driver \cup {Sbi("set_timer"), Sbi("console"), Exit("UserEnvCall"),
                            Exit("IllegalInstruction")}

Unsupported ==
  {Sbi("unknown"), Mmio(65536, "Lw"), Plic(4096, "Sw"),
   Plic(ThresholdReg, "Lw"), Exit("VirtualInstruction"),
   Exit("InstructionGuestPageFault"), Plic(ThresholdReg, "DecodeInstError")}

AnyExit == WellBehaved \cup Unsupported
=============================================================================
