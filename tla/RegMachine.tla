------------------------------ MODULE RegMachine ------------------------------
(***************************************************************************)
(* External: the RISC-V instructions that the hypervisor's assembly uses,  *)
(* the trap and the sret, as functions on the state of a hart.  A program  *)
(* without branches is m ++ i ++ j: the state after i and then j, from m.  *)
(*                                                                         *)
(* A word is a triple <<kind, n, offset>>.  Words of the same kind and n   *)
(* differ by their offset; two words of different kinds are never equal.   *)
(* An address is such a word too, with offsets counted in doublewords.     *)
(***************************************************************************)
EXTENDS Integers, Sequences

Num(n) == <<"number", n, 0>>
Zero == Num(0)
Sym(name) == <<name, 0, 0>>
Add(w, k) == <<w[1], w[2], w[3] + k>>

Regs == 0 .. 31

\* GprIndex, and the names the assembly uses for x2 and x5 to x7.
GprIndex == [Zero |-> 0, RA |-> 1, SP |-> 2, GP |-> 3, TP |-> 4, T0 |-> 5, T1 |-> 6,
             T2 |-> 7, S0 |-> 8, S1 |-> 9, A0 |-> 10, A1 |-> 11, A2 |-> 12, A3 |-> 13,
             A4 |-> 14, A5 |-> 15, A6 |-> 16, A7 |-> 17, S2 |-> 18, S3 |-> 19,
             S4 |-> 20, S5 |-> 21, S6 |-> 22, S7 |-> 23, S8 |-> 24, S9 |-> 25,
             S10 |-> 26, S11 |-> 27, T3 |-> 28, T4 |-> 29, T5 |-> 30, T6 |-> 31]
sp == GprIndex.SP
tp == GprIndex.TP
t0 == GprIndex.T0
t1 == GprIndex.T1
t2 == GprIndex.T2
t3 == GprIndex.T3
a0 == GprIndex.A0

\* sstatus and hstatus, down to the bits a trap and an sret touch.
Sstatus(spp, spie, sie) == <<"sstatus", spp, 2 * spie + sie>>
SPP(w) == w[2]
SPIE(w) == w[3] \div 2
SIE(w) == w[3] % 2
Hstatus(spv) == <<"hstatus", spv, 0>>
SPV(w) == w[2]

-----------------------------------------------------------------------------
\* Stores and loads of a block of registers with the same base, which none of
\* them is: at[k] is stored at offset k; r is loaded from offset from[r].
Sds(at, base) == [op |-> "sd", at |-> at, s |-> base]
Lds(from, base) == [op |-> "ld", from |-> from, s |-> base]
Sd(r, off, base) == Sds([k \in {off} |-> r], base)
Ld(r, off, base) == Lds([q \in {r} |-> off], base)
Csrr(r, c) == [op |-> "csrr", r |-> r, c |-> c]
Csrrw(r, c, s) == [op |-> "csrrw", r |-> r, s |-> s, c |-> c]
Csrw(c, s) == Csrrw(0, c, s)
Addi(r, s, k) == [op |-> "addi", r |-> r, s |-> s, k |-> k]
Mv(r, s) == Addi(r, s, 0)
La(r, symbol) == [op |-> "la", r |-> r, symbol |-> symbol]

\* A register written; x0 stays zero.
SetReg(m, r, w) == IF r = 0 THEN m ELSE [m EXCEPT !.x[r] = w]

Store(m, at, base) ==
  [a \in DOMAIN m.mem |->
     IF a[1] = base[1] /\ a[2] = base[2] /\ a[3] - base[3] \in DOMAIN at
       THEN m.x[at[a[3] - base[3]]] ELSE m.mem[a]]

Load(m, from, base) ==
  [r \in Regs |-> IF r \in DOMAIN from THEN m.mem[Add(base, from[r])] ELSE m.x[r]]

Exec(m, i) ==
  CASE i.op = "sd"    -> [m EXCEPT !.mem = Store(m, i.at, m.x[i.s])]
    [] i.op = "ld"    -> [m EXCEPT !.x = Load(m, i.from, m.x[i.s])]
    [] i.op = "csrr"  -> SetReg(m, i.r, m.csr[i.c])
    [] i.op = "csrrw" -> SetReg([m EXCEPT !.csr[i.c] = m.x[i.s]], i.r, m.csr[i.c])
    [] i.op = "la"    -> SetReg(m, i.r, Sym(i.symbol))
    [] i.op = "addi"  -> SetReg(m, i.r, Add(m.x[i.s], i.k))

\* The instructions of a program in the order in which they are written.
m ++ i == Exec(m, i)

-----------------------------------------------------------------------------
\* A trap to HS-mode: where and in which mode the hart was, interrupts off.
Trap(m, scause) ==
  [m EXCEPT !.csr.sepc = m.pc,
            !.csr.scause = scause,
            !.csr.sstatus = Sstatus(m.priv, SIE(m.csr.sstatus), 0),
            !.csr.hstatus = Hstatus(m.virt),
            !.pc = m.csr.stvec, !.priv = 1, !.virt = 0]

\* sret in HS-mode.
Sret(m) ==
  [m EXCEPT !.pc = m.csr.sepc,
            !.priv = SPP(m.csr.sstatus), !.virt = SPV(m.csr.hstatus),
            !.csr.sstatus = Sstatus(0, 1, SPIE(m.csr.sstatus)),
            !.csr.hstatus = Hstatus(0)]
=============================================================================
