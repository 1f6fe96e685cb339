------------------------------- MODULE GuestCpu -------------------------------
(***************************************************************************)
(* What a guest relies on: a processor of its own.  Its registers, its pc  *)
(* and its mode change by its own instructions and by the answers to the   *)
(* exits it takes, and by nothing else; what it hands over in a register   *)
(* is what arrives.                                                        *)
(***************************************************************************)
EXTENDS RegMachine

CONSTANTS Entry,       \* where the guest starts
          Dtb,         \* the address of its device tree
          Vector,      \* its trap vector
          ArgCalls     \* the SBI calls that hand over a0

VARIABLES st,          \* "off", "running", "exited" or "answered"
          regs, pc, mode,
          req,         \* why it exited
          given        \* the last word that it handed to the machine

cpu == <<regs, pc, mode>>
cpuVars == <<st, cpu, req, given>>

CpuInit == st = "off"

\* The boot protocol: hart id in a0, device tree in a1, VS-mode.
Start ==
  /\ st = "off" /\ st' = "running"
  /\ regs'[0] = Zero /\ regs'[GprIndex.A0] = Zero /\ regs'[GprIndex.A1] = Dtb
  /\ pc' = Entry /\ mode' = <<1, 1>>
  /\ UNCHANGED <<req, given>>

\* The guest's own instructions.
Execute ==
  /\ st = "running"
  /\ regs'[0] = Zero /\ mode'[1] = 1
  /\ UNCHANGED <<st, given>>

Exit ==
  /\ st = "running" /\ st' = "exited"
  /\ UNCHANGED <<cpu, given>>

Completed(len) == pc' = Add(pc, len)

AnswerCall ==
  /\ req.kind = "ecall"
  /\ regs' = [regs EXCEPT ![GprIndex.A0] = regs'[GprIndex.A0],
                          ![GprIndex.A1] = regs'[GprIndex.A1]]
  /\ Completed(4)
  /\ given' = IF req.call \in ArgCalls THEN regs[GprIndex.A0] ELSE given

AnswerLoad ==
  /\ req.kind = "lw"
  /\ regs' = [regs EXCEPT ![req.reg] = IF req.reg = 0 THEN Zero ELSE Sym("claim")]
  /\ Completed(req.len)
  /\ UNCHANGED given

AnswerStore ==
  /\ req.kind = "sw"
  /\ given' = regs[req.reg]
  /\ Completed(req.len)
  /\ UNCHANGED regs

\* An access to a register that is not emulated is passed over.
AnswerNothing ==
  /\ req.kind = "beyond"
  /\ Completed(req.len)
  /\ UNCHANGED <<regs, given>>

\* The guest goes on at its vector.  The mode is whatever it was, which is what
\* forward_exception does (VectorInSupervisor of VmExit is about that).
AnswerTrap ==
  /\ req.kind = "illegal"
  /\ pc' = Vector
  /\ UNCHANGED <<regs, given>>

AnswerIrq == req.kind = "irq" /\ UNCHANGED <<regs, pc, given>>

Answer ==
  /\ st = "exited" /\ st' = "answered"
  /\ AnswerCall \/ AnswerLoad \/ AnswerStore \/ AnswerNothing \/ AnswerTrap \/ AnswerIrq
  /\ UNCHANGED <<mode, req>>

Resume ==
  /\ st = "answered" /\ st' = "running"
  /\ UNCHANGED <<cpu, req, given>>

CpuNext == Start \/ Execute \/ Exit \/ Answer \/ Resume

CpuSpec == CpuInit /\ [][CpuNext]_cpuVars
=============================================================================
