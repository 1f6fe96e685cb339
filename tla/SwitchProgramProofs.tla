----------------------- MODULE SwitchProgramProofs -----------------------
(***************************************************************************)
(* What each routine of the assembly does to the hart, instruction by      *)
(* instruction: __alltraps, __restore, __alltraps_k, _run_guest,           *)
(* _guest_exit and on_detect_trap.  For each routine P there is a          *)
(* predicate PEffect(n, m), n being the hart after and m before, and a     *)
(* lemma PDoes that the program has this effect; the proofs of             *)
(* WorldSwitchProofs use nothing else of the programs.                     *)
(***************************************************************************)
EXTENDS WorldSwitch, TLAPS

Csrs == {"sstatus", "hstatus", "sepc", "scause", "stval", "stvec", "sscratch",
         "hgatp", "scounteren", "htinst"}

\* The shape of a hart's state; what its words are is said elsewhere.
IsHart(m) ==
  /\ DOMAIN m = {"x", "csr", "mem", "pc", "priv", "virt"}
  /\ DOMAIN m.x = Regs
  /\ DOMAIN m.csr = Csrs
  /\ DOMAIN m.mem = Addresses

\* n is m but for the registers, the CSRs and the memory given.
Becomes(n, m, x, csr, mem) ==
  /\ IsHart(n)
  /\ n.x = x /\ n.csr = csr /\ n.mem = mem
  /\ n.pc = m.pc /\ n.priv = m.priv /\ n.virt = m.virt

\* The numbers of the registers that the assembly names.
LEMMA RegNumbers ==
  /\ sp = 2 /\ tp = 4 /\ t0 = 5 /\ t1 = 6 /\ t2 = 7 /\ t3 = 28 /\ a0 = 10
  /\ GprIndex.RA = 1 /\ GprIndex.GP = 3 /\ GprIndex.A1 = 11
  /\ GprIndex.A0 = 10 /\ GprIndex.A6 = 16 /\ GprIndex.A7 = 17
BY Zenon DEF sp, tp, t0, t1, t2, t3, a0, GprIndex

\* They are registers other than x0, and the CSRs it names are CSRs.
LEMMA Named ==
  /\ sp \in Regs \ {0} /\ tp \in Regs \ {0} /\ t0 \in Regs \ {0} /\ t1 \in Regs \ {0}
  /\ t2 \in Regs \ {0} /\ t3 \in Regs \ {0} /\ a0 \in Regs \ {0}
  /\ "sstatus" \in Csrs /\ "hstatus" \in Csrs /\ "sepc" \in Csrs /\ "scause" \in Csrs
  /\ "stval" \in Csrs /\ "stvec" \in Csrs /\ "sscratch" \in Csrs /\ "hgatp" \in Csrs
  /\ "scounteren" \in Csrs /\ "htinst" \in Csrs
BY RegNumbers DEF Regs, Csrs

-----------------------------------------------------------------------------
\* What each instruction does.

\* m ++ i is one instruction executed.
LEMMA Step == ASSUME NEW m, NEW i PROVE m ++ i = Exec(m, i)
BY Zenon DEF ++

\* A block of stores changes memory only.
LEMMA DoSds ==
  ASSUME NEW m, IsHart(m), NEW at, NEW b
  PROVE  Becomes(m ++ Sds(at, b), m, m.x, m.csr, Store(m, at, m.x[b]))
<1>1. Exec(m, Sds(at, b)) = [m EXCEPT !.mem = Store(m, at, m.x[b])]
  BY Zenon DEF Exec, Sds
<1>2. PICK n : n = m ++ Sds(at, b)
  OBVIOUS
<1>3. n = [m EXCEPT !.mem = Store(m, at, m.x[b])]
  BY Zenon, <1>1, <1>2, Step
<1>4. DOMAIN Store(m, at, m.x[b]) = Addresses
  BY Zenon DEF IsHart, Store
<1>5. Becomes(n, m, m.x, m.csr, Store(m, at, m.x[b]))
  BY Zenon, <1>3, <1>4 DEF IsHart, Becomes
<1>6. QED
  BY Zenon, <1>2, <1>5

\* A block of loads changes the registers only.
LEMMA DoLds ==
  ASSUME NEW m, IsHart(m), NEW from, NEW b
  PROVE  Becomes(m ++ Lds(from, b), m, Load(m, from, m.x[b]), m.csr, m.mem)
<1>1. Exec(m, Lds(from, b)) = [m EXCEPT !.x = Load(m, from, m.x[b])]
  BY Zenon DEF Exec, Lds
<1>2. PICK n : n = m ++ Lds(from, b)
  OBVIOUS
<1>3. n = [m EXCEPT !.x = Load(m, from, m.x[b])]
  BY Zenon, <1>1, <1>2, Step
<1>4. DOMAIN Load(m, from, m.x[b]) = Regs
  BY Zenon DEF Load
<1>5. Becomes(n, m, Load(m, from, m.x[b]), m.csr, m.mem)
  BY Zenon, <1>3, <1>4 DEF IsHart, Becomes
<1>6. QED
  BY Zenon, <1>2, <1>5

\* A register other than x0 written.
LEMMA DoSetReg ==
  ASSUME NEW m, IsHart(m), NEW r \in Regs \ {0}, NEW w
  PROVE  Becomes(SetReg(m, r, w), m, [m.x EXCEPT ![r] = w], m.csr, m.mem)
<1>1. PICK n : n = SetReg(m, r, w)
  OBVIOUS
<1>2. n = [m EXCEPT !.x[r] = w]
  BY Zenon, <1>1 DEF SetReg
<1>3. Becomes(n, m, [m.x EXCEPT ![r] = w], m.csr, m.mem)
  BY Zenon, <1>2 DEF IsHart, Becomes
<1>4. QED
  BY Zenon, <1>1, <1>3

\* csrr copies the CSR to the register.
LEMMA DoCsrr ==
  ASSUME NEW m, IsHart(m), NEW r \in Regs \ {0}, NEW c
  PROVE  Becomes(m ++ Csrr(r, c), m, [m.x EXCEPT ![r] = m.csr[c]], m.csr, m.mem)
<1>1. Exec(m, Csrr(r, c)) = SetReg(m, r, m.csr[c])
  BY Zenon DEF Exec, Csrr
<1>2. QED
  BY Zenon, <1>1, Step, DoSetReg

\* A CSR written.
LEMMA SetCsr ==
  ASSUME NEW m, IsHart(m), NEW c \in Csrs, NEW w
  PROVE  Becomes([m EXCEPT !.csr[c] = w], m, m.x, [m.csr EXCEPT ![c] = w], m.mem)
<1>1. PICK n : n = [m EXCEPT !.csr[c] = w]
  OBVIOUS
<1>2. Becomes(n, m, m.x, [m.csr EXCEPT ![c] = w], m.mem)
  BY Zenon, <1>1 DEF IsHart, Becomes
<1>3. QED
  BY Zenon, <1>1, <1>2

\* csrrw swaps, with the CSR read before it is written.
LEMMA DoCsrrw ==
  ASSUME NEW m, IsHart(m), NEW r \in Regs \ {0}, NEW c \in Csrs, NEW s
  PROVE  Becomes(m ++ Csrrw(r, c, s), m, [m.x EXCEPT ![r] = m.csr[c]],
                 [m.csr EXCEPT ![c] = m.x[s]], m.mem)
<1>1. Exec(m, Csrrw(r, c, s)) = SetReg([m EXCEPT !.csr[c] = m.x[s]], r, m.csr[c])
  BY Zenon DEF Exec, Csrrw
<1>2. PICK k : k = [m EXCEPT !.csr[c] = m.x[s]]
  OBVIOUS
<1>3. Becomes(k, m, m.x, [m.csr EXCEPT ![c] = m.x[s]], m.mem)
  BY Zenon, <1>2, SetCsr
<1>4. Becomes(SetReg(k, r, m.csr[c]), k, [k.x EXCEPT ![r] = m.csr[c]], k.csr, k.mem)
  BY <1>3, DoSetReg DEF Becomes
<1>5. m ++ Csrrw(r, c, s) = SetReg(k, r, m.csr[c])
  BY Zenon, <1>1, <1>2, Step
<1>6. QED
  BY Zenon, <1>3, <1>4, <1>5 DEF Becomes

\* csrw copies the register to the CSR.
LEMMA DoCsrw ==
  ASSUME NEW m, IsHart(m), NEW c \in Csrs, NEW s
  PROVE  Becomes(m ++ Csrw(c, s), m, m.x, [m.csr EXCEPT ![c] = m.x[s]], m.mem)
<1>1. Exec(m, Csrw(c, s)) = [m EXCEPT !.csr[c] = m.x[s]]
  BY Zenon DEF Exec, Csrw, Csrrw, SetReg
<1>2. QED
  BY Zenon, <1>1, Step, SetCsr

\* addi, of which mv is the case of 0.
LEMMA DoAddi ==
  ASSUME NEW m, IsHart(m), NEW r \in Regs \ {0}, NEW s, NEW k
  PROVE  Becomes(m ++ Addi(r, s, k), m, [m.x EXCEPT ![r] = Add(m.x[s], k)], m.csr, m.mem)
<1>1. Exec(m, Addi(r, s, k)) = SetReg(m, r, Add(m.x[s], k))
  BY Zenon DEF Exec, Addi
<1>2. QED
  BY Zenon, <1>1, Step, DoSetReg

\* la loads the address of a symbol.
LEMMA DoLa ==
  ASSUME NEW m, IsHart(m), NEW r \in Regs \ {0}, NEW symbol
  PROVE  Becomes(m ++ La(r, symbol), m, [m.x EXCEPT ![r] = Sym(symbol)], m.csr, m.mem)
<1>1. Exec(m, La(r, symbol)) = SetReg(m, r, Sym(symbol))
  BY Zenon DEF Exec, La
<1>2. QED
  BY Zenon, <1>1, Step, DoSetReg

\* A single load.
LEMMA DoLd ==
  ASSUME NEW m, IsHart(m), NEW r \in Regs, NEW k, NEW b
  PROVE  Becomes(m ++ Ld(r, k, b), m, [m.x EXCEPT ![r] = m.mem[Add(m.x[b], k)]], m.csr, m.mem)
<1>1. Load(m, [q \in {r} |-> k], m.x[b]) = [m.x EXCEPT ![r] = m.mem[Add(m.x[b], k)]]
  BY Zenon DEF Load, IsHart
<1>2. QED
  BY Zenon, <1>1, DoLds DEF Ld

-----------------------------------------------------------------------------
\* The same with a register b that holds the address of an object throughout.

\* The word at offset k of an object, and the offsets that it has.
M(m, base, k) == m.mem[Add(base, k)]
Offsets(base) == {k \in Int : Add(base, k) \in Addresses}

On(m, b, base) == IsHart(m) /\ b \in Regs \ {0} /\ m.x[b] = base /\ base[3] \in Int

\* A block and a word stored in an object, the rest of memory as before.
Beyond(n, m, object) == \A a \in Addresses : a[1] # object => n.mem[a] = m.mem[a]

Stored(n, m, base, at) ==
  /\ \A k \in Offsets(base) :
       M(n, base, k) = IF k \in DOMAIN at THEN m.x[at[k]] ELSE M(m, base, k)
  /\ Beyond(n, m, base[1])

Set(n, m, base, off, w) ==
  /\ \A k \in Offsets(base) : M(n, base, k) = IF k = off THEN w ELSE M(m, base, k)
  /\ Beyond(n, m, base[1])

\* An offset moves within an object and leaves the object alone.
LEMMA AddParts ==
  ASSUME NEW w, NEW k
  PROVE  Add(w, k)[1] = w[1] /\ Add(w, k)[2] = w[2] /\ Add(w, k)[3] = w[3] + k
BY Zenon DEF Add

\* Stores at the base in b: the words stored are there, the rest of the object
\* and the other objects are as before, and b still holds the base.
LEMMA OnSds ==
  ASSUME NEW m, NEW b, NEW base, On(m, b, base), NEW at
  PROVE  LET n == m ++ Sds(at, b) IN
           /\ On(n, b, base) /\ Becomes(n, m, m.x, m.csr, n.mem)
           /\ Stored(n, m, base, at)
<1> DEFINE n == m ++ Sds(at, b)
<1>1. Becomes(n, m, m.x, m.csr, Store(m, at, base))
  BY Zenon, DoSds DEF On
<1> HIDE DEF n
<1>2. Becomes(n, m, m.x, m.csr, n.mem) /\ n.mem = Store(m, at, base)
  BY Zenon, <1>1 DEF Becomes
<1>3. ASSUME NEW k \in Offsets(base)
      PROVE  M(n, base, k) = IF k \in DOMAIN at THEN m.x[at[k]] ELSE M(m, base, k)
  <2>1. PICK a \in Addresses : a = Add(base, k)
    BY Zenon DEF Offsets
  <2>2. a[1] = base[1] /\ a[2] = base[2] /\ a[3] - base[3] = k
    BY <2>1, AddParts DEF Offsets, On
  <2>3. n.mem[a] = IF k \in DOMAIN at THEN m.x[at[k]] ELSE m.mem[a]
    BY Zenon, <1>2, <2>2 DEF Store, On, IsHart
  <2>4. QED
    BY Zenon, <2>1, <2>3 DEF M
<1>4. Beyond(n, m, base[1])
  BY Zenon, <1>2 DEF Store, On, IsHart, Beyond
<1>5. On(n, b, base)
  BY Zenon, <1>2 DEF On, Becomes
<1>6. QED
  BY Zenon, <1>2, <1>3, <1>4, <1>5 DEF n, Stored

\* One store at the base in b.
LEMMA OnSd ==
  ASSUME NEW m, NEW b, NEW base, On(m, b, base), NEW r, NEW off
  PROVE  LET n == m ++ Sd(r, off, b) IN
           /\ On(n, b, base) /\ Becomes(n, m, m.x, m.csr, n.mem)
           /\ Set(n, m, base, off, m.x[r])
<1> DEFINE n == m ++ Sd(r, off, b)
<1>1. /\ On(n, b, base) /\ Becomes(n, m, m.x, m.csr, n.mem)
      /\ Stored(n, m, base, [k \in {off} |-> r])
  BY Zenon, OnSds DEF Sd
<1> HIDE DEF n
<1>2. QED
  BY Zenon, <1>1 DEF Stored, Set, n

\* One load at the base in b, to another register.
LEMMA OnLd ==
  ASSUME NEW m, NEW b, NEW base, On(m, b, base), NEW r \in Regs, r # b, NEW off
  PROVE  LET n == m ++ Ld(r, off, b) IN
           On(n, b, base) /\ Becomes(n, m, [m.x EXCEPT ![r] = M(m, base, off)], m.csr, m.mem)
<1> DEFINE n == m ++ Ld(r, off, b)
<1>1. Becomes(n, m, [m.x EXCEPT ![r] = M(m, base, off)], m.csr, m.mem)
  BY Zenon, DoLd DEF On, M
<1> HIDE DEF n
<1>2. QED
  BY Zenon, <1>1 DEF On, Becomes, IsHart, n

\* csrr to a register other than b.
LEMMA OnCsrr ==
  ASSUME NEW m, NEW b, NEW base, On(m, b, base), NEW r \in Regs \ {0}, r # b, NEW c
  PROVE  LET n == m ++ Csrr(r, c) IN
           On(n, b, base) /\ Becomes(n, m, [m.x EXCEPT ![r] = m.csr[c]], m.csr, m.mem)
<1> DEFINE n == m ++ Csrr(r, c)
<1>1. Becomes(n, m, [m.x EXCEPT ![r] = m.csr[c]], m.csr, m.mem)
  BY Zenon, DoCsrr DEF On
<1> HIDE DEF n
<1>2. QED
  BY Zenon, <1>1 DEF On, Becomes, IsHart, n

\* csrw leaves b alone.
LEMMA OnCsrw ==
  ASSUME NEW m, NEW b, NEW base, On(m, b, base), NEW c \in Csrs, NEW s
  PROVE  LET n == m ++ Csrw(c, s) IN
           On(n, b, base) /\ Becomes(n, m, m.x, [m.csr EXCEPT ![c] = m.x[s]], m.mem)
<1> DEFINE n == m ++ Csrw(c, s)
<1>1. Becomes(n, m, m.x, [m.csr EXCEPT ![c] = m.x[s]], m.mem)
  BY Zenon, DoCsrw DEF On
<1> HIDE DEF n
<1>2. QED
  BY Zenon, <1>1 DEF On, Becomes, n

\* csrrw to a register other than b.
LEMMA OnCsrrw ==
  ASSUME NEW m, NEW b, NEW base, On(m, b, base), NEW r \in Regs \ {0}, r # b,
         NEW c \in Csrs, NEW s
  PROVE  LET n == m ++ Csrrw(r, c, s) IN
           /\ On(n, b, base)
           /\ Becomes(n, m, [m.x EXCEPT ![r] = m.csr[c]], [m.csr EXCEPT ![c] = m.x[s]], m.mem)
<1> DEFINE n == m ++ Csrrw(r, c, s)
<1>1. Becomes(n, m, [m.x EXCEPT ![r] = m.csr[c]], [m.csr EXCEPT ![c] = m.x[s]], m.mem)
  BY Zenon, DoCsrrw DEF On
<1> HIDE DEF n
<1>2. QED
  BY Zenon, <1>1 DEF On, Becomes, IsHart, n

\* The objects that the assembly addresses.
LEMMA Objects ==
  /\ TRAP_CONTEXT[1] = "ctx" /\ TRAP_CONTEXT[3] = 0 /\ 0 .. 37 \subseteq Offsets(TRAP_CONTEXT)
  /\ VmCpu[1] = "vm" /\ VmCpu[3] = 0 /\ 0 .. 72 \subseteq Offsets(VmCpu)
  /\ HStackTop[1] = "hstack" /\ HStackTop[3] = 0 /\ -38 .. -1 \subseteq Offsets(HStackTop)
  /\ BootStackTop[1] = "boot_stack" /\ BootStackTop[3] = 0
  /\ -21 .. -1 \subseteq Offsets(BootStackTop)
<1>1. /\ TRAP_CONTEXT[1] = "ctx" /\ TRAP_CONTEXT[3] = 0
      /\ VmCpu[1] = "vm" /\ VmCpu[3] = 0
      /\ HStackTop[1] = "hstack" /\ HStackTop[3] = 0
      /\ BootStackTop[1] = "boot_stack" /\ BootStackTop[3] = 0
  BY Zenon DEF TRAP_CONTEXT, VmCpu, HStackTop, BootStackTop
<1>2. /\ \A k \in 0 .. 37 : Add(TRAP_CONTEXT, k) \in Addresses
      /\ \A k \in 0 .. 72 : Add(VmCpu, k) \in Addresses
      /\ \A k \in -38 .. -1 : Add(HStackTop, k) \in Addresses
      /\ \A k \in -21 .. -1 : Add(BootStackTop, k) \in Addresses
  BY Zenon DEF Addresses
<1>3. QED
  BY <1>1, <1>2 DEF Offsets

-----------------------------------------------------------------------------
\* What each routine does.

C(m, k) == M(m, TRAP_CONTEXT, k)
V(m, k) == M(m, VmCpu, k)

\* __alltraps: all but x0 and tp in the context, with the CSRs, and the stack and
\* the handler's address from it.
AlltrapsEffect(n, m) ==
  /\ Becomes(n, m, n.x, [m.csr EXCEPT !["sscratch"] = m.x[sp]], n.mem)
  /\ \A r \in Regs \ {2, 5, 6, 7} : n.x[r] = m.x[r]
  /\ n.x[sp] = C(m, SlotKernelSp) /\ n.x[t1] = C(m, SlotHandler)
  /\ \A r \in Regs \ {0, 4} : C(n, r) = m.x[r]
  /\ \A k \in {0, 4, SlotHgatp, SlotKernelSp, SlotHandler} : C(n, k) = C(m, k)
  /\ C(n, SlotSstatus) = m.csr["sstatus"]
  /\ C(n, SlotSepc) = m.csr["sepc"]
  /\ C(n, SlotHstatus) = m.csr["hstatus"]
  /\ Beyond(n, m, "ctx")

\* __alltraps puts the guest's registers, all but tp, and its CSRs in the trap
\* context, and leaves with the stack and the handler that the context names.
LEMMA AlltrapsDoes ==
  ASSUME NEW m, IsHart(m), m.csr["sscratch"] = TRAP_CONTEXT
  PROVE  AlltrapsEffect(alltraps_program(m), m)
<1> DEFINE B == TRAP_CONTEXT
           m1 == m ++ Csrrw(sp, "sscratch", sp)
           m2 == m1 ++ SAVE_GP
           m3 == m2 ++ Csrr(t0, "sstatus")
           m4 == m3 ++ Csrr(t1, "sepc")
           m5 == m4 ++ Sd(t0, SlotSstatus, sp)
           m6 == m5 ++ Sd(t1, SlotSepc, sp)
           m7 == m6 ++ Csrr(t2, "sscratch")
           m8 == m7 ++ Sd(t2, 2, sp)
           m9 == m8 ++ Ld(t0, SlotHgatp, sp)
           m10 == m9 ++ Ld(t1, SlotHandler, sp)
           m11 == m10 ++ Csrr(t0, "hstatus")
           m12 == m11 ++ Sd(t0, SlotHstatus, sp)
           m13 == m12 ++ Ld(sp, SlotKernelSp, sp)
<1>0. m13 = alltraps_program(m)
  BY Zenon DEF alltraps_program
<1> HIDE DEF B, m1, m2, m3, m4, m5, m6, m7, m8, m9, m10, m11, m12, m13
<1> USE Named
<1>a. t0 # sp /\ t1 # sp /\ t2 # sp
  BY RegNumbers
<1>1. /\ On(m1, sp, B)
      /\ Becomes(m1, m, [m.x EXCEPT ![sp] = B], [m.csr EXCEPT !["sscratch"] = m.x[sp]], m.mem)
  <2>1. Becomes(m1, m, [m.x EXCEPT ![sp] = B], [m.csr EXCEPT !["sscratch"] = m.x[sp]], m.mem)
    BY Zenon, DoCsrrw DEF m1, B
  <2>2. B[3] \in Int
    BY Objects DEF B
  <2>3. QED
    BY Zenon, <2>1, <2>2 DEF On, Becomes, IsHart
<1>2. /\ On(m2, sp, B) /\ Becomes(m2, m1, m1.x, m1.csr, m2.mem)
      /\ Stored(m2, m1, B, [r \in ContextRegs |-> r])
  BY Zenon, <1>1, OnSds DEF SAVE_GP, m2
<1>3. On(m3, sp, B) /\ Becomes(m3, m2, [m2.x EXCEPT ![t0] = m2.csr["sstatus"]], m2.csr, m2.mem)
  BY Zenon, <1>2, <1>a, OnCsrr DEF m3
<1>4. On(m4, sp, B) /\ Becomes(m4, m3, [m3.x EXCEPT ![t1] = m3.csr["sepc"]], m3.csr, m3.mem)
  BY Zenon, <1>3, <1>a, OnCsrr DEF m4
<1>5. /\ On(m5, sp, B) /\ Becomes(m5, m4, m4.x, m4.csr, m5.mem)
      /\ Set(m5, m4, B, SlotSstatus, m4.x[t0])
  BY Zenon, <1>4, OnSd DEF m5
<1>6. /\ On(m6, sp, B) /\ Becomes(m6, m5, m5.x, m5.csr, m6.mem)
      /\ Set(m6, m5, B, SlotSepc, m5.x[t1])
  BY Zenon, <1>5, OnSd DEF m6
<1>7. On(m7, sp, B) /\ Becomes(m7, m6, [m6.x EXCEPT ![t2] = m6.csr["sscratch"]], m6.csr, m6.mem)
  BY Zenon, <1>6, <1>a, OnCsrr DEF m7
<1>8. /\ On(m8, sp, B) /\ Becomes(m8, m7, m7.x, m7.csr, m8.mem)
      /\ Set(m8, m7, B, 2, m7.x[t2])
  BY Zenon, <1>7, OnSd DEF m8
<1>9. On(m9, sp, B) /\ Becomes(m9, m8, [m8.x EXCEPT ![t0] = M(m8, B, SlotHgatp)], m8.csr, m8.mem)
  BY Zenon, <1>8, <1>a, OnLd DEF m9
<1>10. On(m10, sp, B) /\ Becomes(m10, m9, [m9.x EXCEPT ![t1] = M(m9, B, SlotHandler)], m9.csr, m9.mem)
  BY Zenon, <1>9, <1>a, OnLd DEF m10
<1>11. On(m11, sp, B) /\ Becomes(m11, m10, [m10.x EXCEPT ![t0] = m10.csr["hstatus"]], m10.csr, m10.mem)
  BY Zenon, <1>10, <1>a, OnCsrr DEF m11
<1>12. /\ On(m12, sp, B) /\ Becomes(m12, m11, m11.x, m11.csr, m12.mem)
       /\ Set(m12, m11, B, SlotHstatus, m11.x[t0])
  BY Zenon, <1>11, OnSd DEF m12
<1>13. Becomes(m13, m12, [m12.x EXCEPT ![sp] = M(m12, B, SlotKernelSp)], m12.csr, m12.mem)
  BY Zenon, <1>12, DoLd DEF On, M, m13
<1>15. /\ IsHart(m13) /\ m13.pc = m.pc /\ m13.priv = m.priv /\ m13.virt = m.virt
       /\ m13.csr = [m.csr EXCEPT !["sscratch"] = m.x[sp]]
  BY SMTT(30), <1>1, <1>2, <1>3, <1>4, <1>5, <1>6, <1>7, <1>8, <1>9, <1>10, <1>11, <1>12, <1>13
     DEF Becomes
<1>16. ASSUME NEW r \in Regs, r # sp, r # t0, r # t1, r # t2
       PROVE  m13.x[r] = m.x[r]
  <2>1. m4.x[r] = m.x[r]
    BY <1>1, <1>2, <1>3, <1>4, <1>16 DEF Becomes, IsHart
  <2>2. m8.x[r] = m4.x[r]
    BY <1>4, <1>5, <1>6, <1>7, <1>8, <1>16 DEF Becomes, IsHart
  <2>3. m12.x[r] = m8.x[r]
    BY <1>8, <1>9, <1>10, <1>11, <1>12, <1>16 DEF Becomes, IsHart
  <2>4. m13.x[r] = m12.x[r]
    BY Zenon, <1>12, <1>13, <1>16 DEF Becomes, IsHart
  <2>5. QED
    BY Zenon, <2>1, <2>2, <2>3, <2>4
<1>17. ASSUME NEW k \in 0 .. 37
       PROVE  M(m13, B, k) = IF k = SlotHstatus THEN m11.x[t0]
                             ELSE IF k = 2 THEN m7.x[t2]
                             ELSE IF k = SlotSepc THEN m5.x[t1]
                             ELSE IF k = SlotSstatus THEN m4.x[t0]
                             ELSE IF k \in ContextRegs THEN m1.x[k] ELSE M(m, B, k)
  <2>1. k \in Offsets(B)
    BY Zenon, Objects DEF B
  <2>2. M(m2, B, k) = IF k \in ContextRegs THEN m1.x[k] ELSE M(m, B, k)
    BY Zenon, <1>1, <1>2, <2>1 DEF Stored, Becomes, M
  <2>3. M(m6, B, k) = IF k = SlotSepc THEN m5.x[t1]
                      ELSE IF k = SlotSstatus THEN m4.x[t0] ELSE M(m2, B, k)
    BY <1>3, <1>4, <1>5, <1>6, <2>1 DEF Set, Becomes, M
  <2>4. M(m13, B, k) = IF k = SlotHstatus THEN m11.x[t0]
                       ELSE IF k = 2 THEN m7.x[t2] ELSE M(m6, B, k)
    BY <1>7, <1>8, <1>9, <1>10, <1>11, <1>12, <1>13, <2>1 DEF Set, Becomes, M
  <2>5. QED
    BY Zenon, <2>2, <2>3, <2>4
<1>18. /\ m11.x[t0] = m.csr["hstatus"] /\ m7.x[t2] = m.x[sp]
       /\ m5.x[t1] = m.csr["sepc"] /\ m4.x[t0] = m.csr["sstatus"]
       /\ \A r \in Regs \ {2} : m1.x[r] = m.x[r]
  <2>1. m4.csr = [m.csr EXCEPT !["sscratch"] = m.x[sp]]
    BY Zenon, <1>1, <1>2, <1>3, <1>4 DEF Becomes
  <2>2. m3.csr = m4.csr /\ m6.csr = m4.csr /\ m10.csr = m4.csr
    BY Zenon, <1>4, <1>5, <1>6, <1>7, <1>8, <1>9, <1>10 DEF Becomes
  <2>3. m4.csr["sscratch"] = m.x[sp] /\ m4.csr["hstatus"] = m.csr["hstatus"]
        /\ m4.csr["sstatus"] = m.csr["sstatus"] /\ m4.csr["sepc"] = m.csr["sepc"]
    BY Zenon, <2>1 DEF IsHart
  <2>4. m11.x[t0] = m10.csr["hstatus"]
    BY Zenon, <1>10, <1>11 DEF Becomes, IsHart
  <2>5. m7.x[t2] = m6.csr["sscratch"]
    BY Zenon, <1>6, <1>7 DEF Becomes, IsHart
  <2>6. m5.x[t1] = m3.csr["sepc"] /\ m4.x[t0] = m2.csr["sstatus"] /\ m2.csr = m3.csr
    BY <1>2, <1>3, <1>4, <1>5, RegNumbers DEF Becomes, IsHart
  <2>7. ASSUME NEW r \in Regs \ {2} PROVE m1.x[r] = m.x[r]
    <3>1. r # sp
      BY Zenon, RegNumbers
    <3>2. QED
      BY Zenon, <1>1, <3>1 DEF Becomes, IsHart
  <2>8. QED
    BY Zenon, <2>2, <2>3, <2>4, <2>5, <2>6, <2>7
<1>19. Beyond(m13, m, "ctx")
  <2>1. B[1] = "ctx"
    BY Zenon, Objects DEF B
  <2>2. Beyond(m2, m, "ctx")
    BY Zenon, <1>1, <1>2, <2>1 DEF Stored, Becomes, Beyond
  <2>3. Beyond(m6, m2, "ctx")
    BY <1>3, <1>4, <1>5, <1>6, <2>1 DEF Set, Becomes, Beyond
  <2>4. Beyond(m13, m6, "ctx")
    BY <1>7, <1>8, <1>9, <1>10, <1>11, <1>12, <1>13, <2>1 DEF Set, Becomes, Beyond
  <2>5. QED
    BY Zenon, <2>2, <2>3, <2>4 DEF Beyond
<1>20. m13.x[sp] = M(m, B, SlotKernelSp) /\ m13.x[t1] = M(m, B, SlotHandler)
  <2>1. m13.x[sp] = M(m12, B, SlotKernelSp) /\ m13.x[t1] = m12.x[t1]
    BY Zenon, <1>12, <1>13, <1>a DEF Becomes, IsHart
  <2>2. M(m13, B, SlotKernelSp) = M(m12, B, SlotKernelSp)
    BY Zenon, <1>13 DEF Becomes, M
  <2>3. m12.x[t1] = M(m9, B, SlotHandler)
    BY <1>9, <1>10, <1>11, <1>12, RegNumbers DEF Becomes, IsHart
  <2>4. M(m13, B, SlotHandler) = M(m9, B, SlotHandler)
    <3>1. SlotHandler \in Offsets(B) /\ SlotHandler # SlotHstatus
      BY Objects DEF B, SlotHandler, SlotHstatus
    <3>2. QED
      BY <1>10, <1>11, <1>12, <1>13, <3>1 DEF Becomes, M, Set
  <2>5. /\ SlotKernelSp \in 0 .. 37 /\ SlotHandler \in 0 .. 37
        /\ SlotKernelSp \notin ContextRegs \cup {2, SlotSstatus, SlotSepc, SlotHstatus}
        /\ SlotHandler \notin ContextRegs \cup {2, SlotSstatus, SlotSepc, SlotHstatus}
    BY DEF SlotKernelSp, SlotHandler, SlotSstatus, SlotSepc, SlotHstatus, ContextRegs
  <2>6. QED
    BY Zenon, <1>17, <2>1, <2>2, <2>3, <2>4, <2>5
<1>21. /\ \A r \in Regs \ {0, 4} : M(m13, B, r) = m.x[r]
       /\ \A k \in {0, 4, SlotHgatp, SlotKernelSp, SlotHandler} : M(m13, B, k) = M(m, B, k)
       /\ M(m13, B, SlotSstatus) = m.csr["sstatus"]
       /\ M(m13, B, SlotSepc) = m.csr["sepc"]
       /\ M(m13, B, SlotHstatus) = m.csr["hstatus"]
  BY <1>17, <1>18, RegNumbers DEF SlotKernelSp, SlotHandler, SlotSstatus, SlotSepc, SlotHstatus, SlotHgatp, ContextRegs, Regs
<1>22. QED
  <2>1. \A r \in Regs \ {2, 5, 6, 7} : m13.x[r] = m.x[r]
    BY Zenon, <1>16, RegNumbers
  <2>2. Becomes(m13, m, m13.x, [m.csr EXCEPT !["sscratch"] = m.x[sp]], m13.mem)
    BY Zenon, <1>15 DEF Becomes
  <2>3. QED
    BY Zenon, <1>0, <1>19, <1>20, <1>21, <2>1, <2>2, Zenon DEF C, B, AlltrapsEffect

\* mv keeps the word.
LEMMA AddZero ==
  ASSUME NEW w, w = TRAP_CONTEXT \/ w = Add(BootStackTop, -21) \/ w = Add(HStackTop, -38)
  PROVE  Add(w, 0) = w
BY DEF Add, TRAP_CONTEXT, BootStackTop, HStackTop

\* __restore, up to its sret: the CSRs and all the registers but tp are the
\* context's, which is left in sscratch.
RestoreEffect(n, m) ==
  /\ Becomes(n, m, n.x, n.csr, m.mem)
  /\ n.x[0] = m.x[0] /\ n.x[4] = m.x[4]
  /\ \A r \in Regs \ {0, 4} : n.x[r] = C(m, r)
  /\ n.csr["sscratch"] = TRAP_CONTEXT
  /\ n.csr["sstatus"] = C(m, SlotSstatus)
  /\ n.csr["sepc"] = C(m, SlotSepc)
  /\ n.csr["hstatus"] = C(m, SlotHstatus)
  /\ \A c \in Csrs \ {"sscratch", "sstatus", "sepc", "hstatus"} : n.csr[c] = m.csr[c]

\* __restore takes the registers, all but tp, and the CSRs from the context.
LEMMA RestoreDoes ==
  ASSUME NEW m, IsHart(m), m.x[a0] = TRAP_CONTEXT
  PROVE  RestoreEffect(restore_program(m), m)
<1> DEFINE B == TRAP_CONTEXT
           m1 == m ++ Csrw("sscratch", a0)
           m2 == m1 ++ Mv(sp, a0)
           m3 == m2 ++ Ld(t0, SlotSstatus, sp)
           m4 == m3 ++ Ld(t1, SlotSepc, sp)
           m5 == m4 ++ Csrw("sstatus", t0)
           m6 == m5 ++ Csrw("sepc", t1)
           m7 == m6 ++ Ld(t0, SlotHstatus, sp)
           m8 == m7 ++ Csrw("hstatus", t0)
           m9 == m8 ++ LOAD_GP
           m10 == m9 ++ Ld(sp, 2, sp)
<1>0. m10 = restore_program(m)
  BY Zenon DEF restore_program
<1> HIDE DEF B, m1, m2, m3, m4, m5, m6, m7, m8, m9, m10
<1> USE Named
<1>a. t0 # sp /\ t1 # sp /\ t0 # t1 /\ a0 # sp
  BY RegNumbers
<1>b. B[3] \in Int /\ Add(B, 0) = B
  BY Objects, AddZero DEF B
<1>1. On(m1, a0, B) /\ Becomes(m1, m, m.x, [m.csr EXCEPT !["sscratch"] = B], m.mem)
  <2>1. Becomes(m1, m, m.x, [m.csr EXCEPT !["sscratch"] = m.x[a0]], m.mem)
    BY Zenon, DoCsrw DEF m1
  <2>2. m.x[a0] = B
    BY Zenon DEF B
  <2>3. QED
    BY Zenon, <2>1, <2>2, <1>b DEF On, Becomes
<1>2. On(m2, sp, B) /\ Becomes(m2, m1, [m1.x EXCEPT ![sp] = B], m1.csr, m1.mem)
  <2>1. Becomes(m2, m1, [m1.x EXCEPT ![sp] = Add(m1.x[a0], 0)], m1.csr, m1.mem)
    BY Zenon, <1>1, DoAddi DEF m2, Mv, On
  <2>2. Add(m1.x[a0], 0) = B
    BY Zenon, <1>1, <1>b DEF On
  <2>3. QED
    BY Zenon, <1>1, <1>b, <2>1, <2>2 DEF On, Becomes, IsHart
<1>3. On(m3, sp, B) /\ Becomes(m3, m2, [m2.x EXCEPT ![t0] = M(m2, B, SlotSstatus)], m2.csr, m2.mem)
  BY Zenon, <1>2, <1>a, OnLd DEF m3
<1>4. On(m4, sp, B) /\ Becomes(m4, m3, [m3.x EXCEPT ![t1] = M(m3, B, SlotSepc)], m3.csr, m3.mem)
  BY Zenon, <1>3, <1>a, OnLd DEF m4
<1>5. On(m5, sp, B) /\ Becomes(m5, m4, m4.x, [m4.csr EXCEPT !["sstatus"] = m4.x[t0]], m4.mem)
  BY Zenon, <1>4, OnCsrw DEF m5
<1>6. On(m6, sp, B) /\ Becomes(m6, m5, m5.x, [m5.csr EXCEPT !["sepc"] = m5.x[t1]], m5.mem)
  BY Zenon, <1>5, OnCsrw DEF m6
<1>7. On(m7, sp, B) /\ Becomes(m7, m6, [m6.x EXCEPT ![t0] = M(m6, B, SlotHstatus)], m6.csr, m6.mem)
  BY Zenon, <1>6, <1>a, OnLd DEF m7
<1>8. On(m8, sp, B) /\ Becomes(m8, m7, m7.x, [m7.csr EXCEPT !["hstatus"] = m7.x[t0]], m7.mem)
  BY Zenon, <1>7, OnCsrw DEF m8
<1>9. Becomes(m9, m8, Load(m8, [r \in ContextRegs |-> r], B), m8.csr, m8.mem) /\ m9.x[sp] = B
  <2>1. Becomes(m9, m8, Load(m8, [r \in ContextRegs |-> r], B), m8.csr, m8.mem)
    BY Zenon, <1>8, DoLds DEF LOAD_GP, m9, On
  <2>2. sp \notin ContextRegs
    BY RegNumbers DEF ContextRegs
  <2>3. QED
    BY Zenon, <1>8, <2>1, <2>2 DEF On, Becomes, Load
<1>10. Becomes(m10, m9, [m9.x EXCEPT ![sp] = M(m9, B, 2)], m9.csr, m9.mem)
  BY <1>9, DoLd DEF M, m10, Becomes
<1>11. /\ IsHart(m10) /\ m10.pc = m.pc /\ m10.priv = m.priv /\ m10.virt = m.virt
       /\ m10.mem = m.mem /\ m9.mem = m.mem /\ m8.mem = m.mem /\ m6.mem = m.mem
       /\ m3.mem = m.mem /\ m2.mem = m.mem
  BY <1>1, <1>2, <1>3, <1>4, <1>5, <1>6, <1>7, <1>8, <1>9, <1>10 DEF Becomes
<1>12. ASSUME NEW r \in Regs, r # sp, r # t0, r # t1
       PROVE  m8.x[r] = m.x[r]
  <2>1. m4.x[r] = m.x[r]
    BY <1>1, <1>2, <1>3, <1>4, <1>12 DEF Becomes, IsHart
  <2>2. QED
    BY <2>1, <1>4, <1>5, <1>6, <1>7, <1>8, <1>12 DEF Becomes, IsHart
<1>13. ASSUME NEW r \in Regs
       PROVE  m10.x[r] = IF r = 2 \/ r \in ContextRegs THEN M(m, B, r) ELSE m8.x[r]
  <2>1. m9.x[r] = IF r \in ContextRegs THEN M(m, B, r) ELSE m8.x[r]
    BY Zenon, <1>9, <1>11 DEF Becomes, Load, M
  <2>2. m10.x[r] = IF r = sp THEN M(m, B, 2) ELSE m9.x[r]
    BY Zenon, <1>9, <1>10, <1>11 DEF Becomes, IsHart, M
  <2>3. QED
    BY Zenon, <2>1, <2>2, RegNumbers
<1>14. \A r \in Regs \ {0, 4} : m10.x[r] = M(m, B, r)
  BY <1>13 DEF Regs, ContextRegs
<1>15. m10.x[0] = m.x[0] /\ m10.x[4] = m.x[4]
  BY <1>12, <1>13, RegNumbers DEF Regs, ContextRegs
<1>16. m4.x[t0] = M(m, B, SlotSstatus) /\ m5.x[t1] = M(m, B, SlotSepc)
       /\ m7.x[t0] = M(m, B, SlotHstatus)
  <2>1. m4.x[t0] = M(m2, B, SlotSstatus)
    BY <1>2, <1>3, <1>4, <1>a DEF Becomes, IsHart
  <2>2. m5.x[t1] = M(m3, B, SlotSepc)
    BY <1>3, <1>4, <1>5, <1>a DEF Becomes, IsHart
  <2>3. m7.x[t0] = M(m6, B, SlotHstatus)
    BY Zenon, <1>6, <1>7, <1>a DEF Becomes, IsHart
  <2>4. QED
    BY Zenon, <1>11, <2>1, <2>2, <2>3 DEF M
<1>17. ASSUME NEW c \in Csrs
       PROVE  m10.csr[c] = IF c = "hstatus" THEN m7.x[t0] ELSE IF c = "sepc" THEN m5.x[t1]
                           ELSE IF c = "sstatus" THEN m4.x[t0]
                           ELSE IF c = "sscratch" THEN B ELSE m.csr[c]
  <2>1. m4.csr[c] = IF c = "sscratch" THEN B ELSE m.csr[c]
    BY <1>1, <1>2, <1>3, <1>4 DEF Becomes, IsHart
  <2>2. m6.csr[c] = IF c = "sepc" THEN m5.x[t1] ELSE IF c = "sstatus" THEN m4.x[t0]
                    ELSE m4.csr[c]
    BY <1>4, <1>5, <1>6 DEF Becomes, IsHart
  <2>3. m10.csr[c] = IF c = "hstatus" THEN m7.x[t0] ELSE m6.csr[c]
    BY <1>6, <1>7, <1>8, <1>9, <1>10 DEF Becomes, IsHart
  <2>4. QED
    BY Zenon, <2>1, <2>2, <2>3
<1>18. QED
  <2>1. Becomes(m10, m, m10.x, m10.csr, m.mem)
    BY Zenon, <1>11 DEF Becomes
  <2>2. /\ m10.csr["sscratch"] = B
        /\ m10.csr["sstatus"] = M(m, B, SlotSstatus)
        /\ m10.csr["sepc"] = M(m, B, SlotSepc)
        /\ m10.csr["hstatus"] = M(m, B, SlotHstatus)
        /\ \A c \in Csrs \ {"sscratch", "sstatus", "sepc", "hstatus"} : m10.csr[c] = m.csr[c]
    BY Zenon, <1>16, <1>17
  <2>3. QED
    BY Zenon, <1>0, <1>14, <1>15, <2>1, <2>2, Zenon DEF C, B, RestoreEffect

\* The frame of a trap from the hypervisor, 38 doublewords below its stack's top.
KernelFrame == Add(HStackTop, -38)

\* The frame of __alltraps_k lies on the hypervisor's stack.
LEMMA KernelFrameIs ==
  /\ KernelFrame[1] = "hstack" /\ KernelFrame[3] \in Int
  /\ Add(Add(HStackTop, -4), -34) = KernelFrame
  /\ SlotSepc \in Offsets(KernelFrame)
<1>1. Add(Add(HStackTop, -4), -34) = KernelFrame
  BY DEF Add, HStackTop, KernelFrame
<1>2. KernelFrame[1] = "hstack" /\ KernelFrame[3] \in Int
  BY DEF Add, HStackTop, KernelFrame
<1>3. Add(KernelFrame, SlotSepc) = Add(HStackTop, -5)
  BY DEF Add, HStackTop, KernelFrame, SlotSepc
<1>4. Add(HStackTop, -5) \in Addresses
  BY Objects DEF Offsets
<1>5. QED
  BY <1>1, <1>2, <1>3, <1>4 DEF Offsets, SlotSepc

\* __alltraps_k: the pc of the trap in the frame, which a0 points to.
AlltrapsKEffect(n, m) ==
  /\ Becomes(n, m, n.x, m.csr, n.mem)
  /\ n.x[0] = m.x[0] /\ n.x[sp] = KernelFrame /\ n.x[a0] = KernelFrame
  /\ n.x[t2] = m.csr["sscratch"] /\ n.x[tp] = m.x[tp]
  /\ M(n, KernelFrame, SlotSepc) = m.csr["sepc"]
  /\ Beyond(n, m, "hstack")

\* __alltraps_k saves the pc in the frame it passes in a0, and takes the
\* handler from sscratch.
LEMMA AlltrapsKDoes ==
  ASSUME NEW m, IsHart(m), m.x[sp] = Add(HStackTop, -4)
  PROVE  AlltrapsKEffect(alltraps_k_program(m), m)
<1> DEFINE B == KernelFrame
           m1 == m ++ Addi(sp, sp, -34)
           m2 == m1 ++ SAVE_GP
           m3 == m2 ++ Csrr(t0, "sstatus")
           m4 == m3 ++ Csrr(t1, "sepc")
           m5 == m4 ++ Sd(t0, SlotSstatus, sp)
           m6 == m5 ++ Sd(t1, SlotSepc, sp)
           m7 == m6 ++ Mv(a0, sp)
           m8 == m7 ++ Csrr(t2, "sscratch")
<1>0. m8 = alltraps_k_program(m)
  BY Zenon DEF alltraps_k_program
<1> HIDE DEF B, m1, m2, m3, m4, m5, m6, m7, m8
<1> USE Named
<1>a. /\ t0 # sp /\ t1 # sp /\ t2 # sp /\ a0 # sp /\ a0 # t2 /\ 0 # sp /\ 0 # a0 /\ 0 \in Regs
      /\ tp \notin {sp, t0, t1, t2, a0}
  BY RegNumbers DEF Regs
<1>b. B[3] \in Int /\ B[1] = "hstack" /\ Add(B, 0) = B /\ SlotSepc \in Offsets(B)
  BY Zenon, KernelFrameIs, AddZero DEF B, KernelFrame
<1>1. On(m1, sp, B) /\ Becomes(m1, m, [m.x EXCEPT ![sp] = B], m.csr, m.mem)
  <2>1. Becomes(m1, m, [m.x EXCEPT ![sp] = Add(m.x[sp], -34)], m.csr, m.mem)
    BY Zenon, DoAddi DEF m1
  <2>2. Add(m.x[sp], -34) = B
    BY Zenon, KernelFrameIs DEF B
  <2>3. QED
    BY Zenon, <2>1, <2>2, <1>b DEF On, Becomes, IsHart
<1>2. /\ On(m2, sp, B) /\ Becomes(m2, m1, m1.x, m1.csr, m2.mem)
      /\ Stored(m2, m1, B, [r \in ContextRegs |-> r])
  BY Zenon, <1>1, OnSds DEF SAVE_GP, m2
<1>3. On(m3, sp, B) /\ Becomes(m3, m2, [m2.x EXCEPT ![t0] = m2.csr["sstatus"]], m2.csr, m2.mem)
  BY Zenon, <1>2, <1>a, OnCsrr DEF m3
<1>4. On(m4, sp, B) /\ Becomes(m4, m3, [m3.x EXCEPT ![t1] = m3.csr["sepc"]], m3.csr, m3.mem)
  BY Zenon, <1>3, <1>a, OnCsrr DEF m4
<1>5. /\ On(m5, sp, B) /\ Becomes(m5, m4, m4.x, m4.csr, m5.mem)
      /\ Set(m5, m4, B, SlotSstatus, m4.x[t0])
  BY Zenon, <1>4, OnSd DEF m5
<1>6. /\ On(m6, sp, B) /\ Becomes(m6, m5, m5.x, m5.csr, m6.mem)
      /\ Set(m6, m5, B, SlotSepc, m5.x[t1])
  BY Zenon, <1>5, OnSd DEF m6
<1>7. Becomes(m7, m6, [m6.x EXCEPT ![a0] = B], m6.csr, m6.mem)
  <2>1. Becomes(m7, m6, [m6.x EXCEPT ![a0] = Add(m6.x[sp], 0)], m6.csr, m6.mem)
    BY Zenon, <1>6, DoAddi DEF m7, Mv, On
  <2>2. Add(m6.x[sp], 0) = B
    BY Zenon, <1>6, <1>b DEF On
  <2>3. QED
    BY Zenon, <2>1, <2>2
<1>8. Becomes(m8, m7, [m7.x EXCEPT ![t2] = m7.csr["sscratch"]], m7.csr, m7.mem)
  BY <1>7, DoCsrr DEF m8, Becomes
<1>9. /\ IsHart(m8) /\ m8.pc = m.pc /\ m8.priv = m.priv /\ m8.virt = m.virt
      /\ m8.csr = m.csr /\ m7.csr = m.csr /\ m3.csr = m.csr /\ m8.mem = m6.mem
  BY SMTT(30), <1>1, <1>2, <1>3, <1>4, <1>5, <1>6, <1>7, <1>8 DEF Becomes
<1>10. m8.x[sp] = B /\ m8.x[a0] = B /\ m8.x[t2] = m.csr["sscratch"]
  BY <1>6, <1>7, <1>8, <1>9, <1>a DEF Becomes, IsHart, On
<1>11. m8.x[0] = m.x[0] /\ m8.x[tp] = m.x[tp]
  <2>1. m4.x[0] = m.x[0] /\ m4.x[tp] = m.x[tp]
    BY <1>1, <1>2, <1>3, <1>4, <1>a DEF Becomes, IsHart
  <2>2. m8.x[0] = m4.x[0] /\ m8.x[tp] = m4.x[tp]
    BY SMTT(30), <1>4, <1>5, <1>6, <1>7, <1>8, <1>a DEF Becomes, IsHart
  <2>3. QED
    BY Zenon, <2>1, <2>2
<1>12. M(m8, B, SlotSepc) = m.csr["sepc"]
  <2>1. M(m6, B, SlotSepc) = m5.x[t1]
    BY Zenon, <1>6, <1>b DEF Set
  <2>2. m5.x[t1] = m3.csr["sepc"]
    BY Zenon, <1>3, <1>4, <1>5 DEF Becomes, IsHart
  <2>3. QED
    BY Zenon, <2>1, <2>2, <1>9 DEF M
<1>13. Beyond(m8, m, "hstack")
  <2>1. Beyond(m2, m, "hstack")
    BY Zenon, <1>1, <1>2, <1>b DEF Stored, Becomes, Beyond
  <2>2. Beyond(m6, m2, "hstack")
    BY SMTT(30), <1>3, <1>4, <1>5, <1>6, <1>b DEF Set, Becomes, Beyond
  <2>3. QED
    BY Zenon, <2>1, <2>2, <1>9 DEF Beyond
<1>14. QED
  <2>1. Becomes(m8, m, m8.x, m.csr, m8.mem)
    BY Zenon, <1>9 DEF Becomes
  <2>2. QED
    BY Zenon, <1>0, <1>10, <1>11, <1>12, <1>13, <2>1 DEF B, AlltrapsKEffect

\* A CSR exchanged with the words of the VmCpuRegisters at from and to.
Swap(n, m, c, from, to) ==
  /\ On(n, a0, VmCpu) /\ Becomes(n, m, n.x, [m.csr EXCEPT ![c] = V(m, from)], n.mem)
  /\ \A r \in Regs \ {t1} : n.x[r] = m.x[r]
  /\ Set(n, m, VmCpu, to, m.csr[c])

\* ld, csrrw, sd: a CSR and two slots of the VmCpuRegisters.
LEMMA SwapDoes ==
  ASSUME NEW m, On(m, a0, VmCpu), NEW c \in Csrs, NEW from, NEW to
  PROVE  Swap(SwapCsr(m, c, from, to), m, c, from, to)
<1> DEFINE B == VmCpu
           m1 == m ++ Ld(t1, from, a0)
           m2 == m1 ++ Csrrw(t1, c, t1)
           m3 == m2 ++ Sd(t1, to, a0)
<1>0. m3 = SwapCsr(m, c, from, to)
  BY Zenon DEF SwapCsr
<1> HIDE DEF B, m1, m2, m3
<1> USE Named
<1>a. t1 # a0
  BY RegNumbers
<1>1. On(m1, a0, B) /\ Becomes(m1, m, [m.x EXCEPT ![t1] = M(m, B, from)], m.csr, m.mem)
  BY Zenon, <1>a, OnLd DEF m1, B
<1>2. /\ On(m2, a0, B)
      /\ Becomes(m2, m1, [m1.x EXCEPT ![t1] = m1.csr[c]], [m1.csr EXCEPT ![c] = m1.x[t1]], m1.mem)
  BY Zenon, <1>1, <1>a, OnCsrrw DEF m2
<1>3. /\ On(m3, a0, B) /\ Becomes(m3, m2, m2.x, m2.csr, m3.mem)
      /\ Set(m3, m2, B, to, m2.x[t1])
  BY Zenon, <1>2, OnSd DEF m3
<1>4. m1.x[t1] = M(m, B, from) /\ m2.x[t1] = m.csr[c]
  BY <1>1, <1>2 DEF Becomes, IsHart, On
<1>5. /\ IsHart(m3) /\ m3.pc = m.pc /\ m3.priv = m.priv /\ m3.virt = m.virt
      /\ m3.csr = [m.csr EXCEPT ![c] = M(m, B, from)] /\ m2.mem = m.mem
  BY Zenon, <1>1, <1>2, <1>3, <1>4 DEF Becomes
<1>6. ASSUME NEW r \in Regs, r # t1 PROVE m3.x[r] = m.x[r]
  BY <1>1, <1>2, <1>3, <1>6 DEF Becomes, IsHart, On
<1>7. Set(m3, m, B, to, m.csr[c])
  BY Zenon, <1>3, <1>4, <1>5 DEF Set, Beyond, M
<1>8. QED
  <2>1. Becomes(m3, m, m3.x, [m.csr EXCEPT ![c] = M(m, B, from)], m3.mem)
    BY Zenon, <1>5 DEF Becomes
  <2>2. \A r \in Regs \ {t1} : m3.x[r] = m.x[r]
    BY Zenon, <1>6
  <2>3. QED
    BY Zenon, <1>0, <1>3, <1>7, <2>1, <2>2, Zenon DEF B, V, Swap

\* The three CSRs exchanged: those of m are at u1 to u3, and those that were at
\* f1 to f3 are in effect.
Swapped(n, m, f1, f2, f3, u1, u2, u3) ==
  /\ On(n, a0, VmCpu) /\ Becomes(n, m, n.x, n.csr, n.mem)
  /\ \A r \in Regs \ {t1} : n.x[r] = m.x[r]
  /\ n.csr["sstatus"] = V(m, f1) /\ n.csr["hstatus"] = V(m, f2) /\ n.csr["scounteren"] = V(m, f3)
  /\ \A c \in Csrs \ {"sstatus", "hstatus", "scounteren"} : n.csr[c] = m.csr[c]
  /\ V(n, u1) = m.csr["sstatus"] /\ V(n, u2) = m.csr["hstatus"] /\ V(n, u3) = m.csr["scounteren"]
  /\ \A k \in Offsets(VmCpu) \ {u1, u2, u3} : V(n, k) = V(m, k)
  /\ Beyond(n, m, "vm")

\* The three CSRs that _run_guest and _guest_exit swap.
LEMMA SwapsDo ==
  ASSUME NEW m, On(m, a0, VmCpu),
         NEW f1 \in Offsets(VmCpu), NEW f2 \in Offsets(VmCpu), NEW f3 \in Offsets(VmCpu),
         NEW u1 \in Offsets(VmCpu), NEW u2 \in Offsets(VmCpu), NEW u3 \in Offsets(VmCpu),
         f2 # u1, f3 # u1, f3 # u2, u1 # u2, u1 # u3, u2 # u3
  PROVE  LET n == SwapCsr(m, "sstatus", f1, u1)
             k == SwapCsr(n, "hstatus", f2, u2)
         IN Swapped(SwapCsr(k, "scounteren", f3, u3), m, f1, f2, f3, u1, u2, u3)
<1> DEFINE m1 == SwapCsr(m, "sstatus", f1, u1)
           m2 == SwapCsr(m1, "hstatus", f2, u2)
           m3 == SwapCsr(m2, "scounteren", f3, u3)
<1> SUFFICES Swapped(m3, m, f1, f2, f3, u1, u2, u3)
  OBVIOUS
<1> HIDE DEF m1, m2, m3
<1> USE Named
<1>1. Swap(m1, m, "sstatus", f1, u1)
  BY Zenon, SwapDoes DEF m1
<1>2. Swap(m2, m1, "hstatus", f2, u2)
  <2>1. On(m1, a0, VmCpu)
    BY Zenon, <1>1 DEF Swap
  <2>2. QED
    BY Zenon, <2>1, SwapDoes DEF m2
<1>3. Swap(m3, m2, "scounteren", f3, u3)
  <2>1. On(m2, a0, VmCpu)
    BY Zenon, <1>2 DEF Swap
  <2>2. QED
    BY Zenon, <2>1, SwapDoes DEF m3
<1>4. Becomes(m3, m, m3.x, m3.csr, m3.mem)
  BY Zenon, <1>1, <1>2, <1>3 DEF Swap, Becomes
<1>5. V(m1, f2) = V(m, f2) /\ V(m2, f3) = V(m, f3)
  BY Zenon, <1>1, <1>2 DEF Swap, Set, V
<1>6. ASSUME NEW c \in Csrs
      PROVE  m3.csr[c] = IF c = "scounteren" THEN V(m, f3) ELSE IF c = "hstatus" THEN V(m, f2)
                         ELSE IF c = "sstatus" THEN V(m, f1) ELSE m.csr[c]
  BY SMTT(30), <1>1, <1>2, <1>3, <1>5 DEF Swap, Becomes, IsHart, On
<1>7. m1.csr["hstatus"] = m.csr["hstatus"] /\ m2.csr["scounteren"] = m.csr["scounteren"]
  BY <1>1, <1>2 DEF Swap, Becomes, IsHart, On
<1>8. ASSUME NEW k \in Offsets(VmCpu)
      PROVE  V(m3, k) = IF k = u3 THEN m2.csr["scounteren"] ELSE IF k = u2 THEN m1.csr["hstatus"]
                        ELSE IF k = u1 THEN m.csr["sstatus"] ELSE V(m, k)
  BY Zenon, <1>1, <1>2, <1>3 DEF Swap, Set, V
<1>9. Beyond(m3, m, "vm")
  <2>1. Beyond(m1, m, "vm") /\ Beyond(m2, m1, "vm") /\ Beyond(m3, m2, "vm")
    BY Zenon, <1>1, <1>2, <1>3, Objects DEF Swap, Set
  <2>2. QED
    BY Zenon, <2>1 DEF Beyond
<1>10. \A r \in Regs \ {t1} : m3.x[r] = m.x[r]
  BY Zenon, <1>1, <1>2, <1>3 DEF Swap
<1>11. /\ m3.csr["sstatus"] = V(m, f1) /\ m3.csr["hstatus"] = V(m, f2) /\ m3.csr["scounteren"] = V(m, f3)
       /\ \A c \in Csrs \ {"sstatus", "hstatus", "scounteren"} : m3.csr[c] = m.csr[c]
  BY Zenon, <1>6
<1>12. /\ V(m3, u1) = m.csr["sstatus"] /\ V(m3, u2) = m.csr["hstatus"] /\ V(m3, u3) = m.csr["scounteren"]
       /\ \A k \in Offsets(VmCpu) \ {u1, u2, u3} : V(m3, k) = V(m, k)
  BY Zenon, <1>7, <1>8
<1>13. QED
  BY Zenon, <1>3, <1>4, <1>9, <1>10, <1>11, <1>12 DEF Swapped, Swap

\* The layout of VmCpuRegisters in doublewords.
LEMMA Layout ==
  /\ HypCsr.sstatus = 32 /\ HypCsr.hstatus = 33 /\ HypCsr.scounteren = 34
  /\ HypCsr.stvec = 35 /\ HypCsr.sscratch = 36
  /\ DOMAIN HypCsr = {"sstatus", "hstatus", "scounteren", "stvec", "sscratch"}
  /\ GuestCsr.sstatus = 69 /\ GuestCsr.hstatus = 70 /\ GuestCsr.scounteren = 71
  /\ GuestCsr.sepc = 72
  /\ hyp_gpr_offset(0) = 0 /\ guest_gpr_offset(0) = 37 /\ guest_gpr_offset(a0) = 47
BY RegNumbers DEF HypCsr, GuestCsr, GuestRegs, hyp_gpr_offset, guest_gpr_offset

\* A block of registers stored in one of its two tables.
GprsStored(n, m, S, base) ==
  /\ On(n, a0, VmCpu) /\ Becomes(n, m, m.x, m.csr, n.mem)
  /\ \A k \in 0 .. 72 : V(n, k) = IF k - base \in S THEN m.x[k - base] ELSE V(m, k)
  /\ Beyond(n, m, "vm")

\* A table of registers stored changes its own slots and no other.
LEMMA StoreGprsDoes ==
  ASSUME NEW m, On(m, a0, VmCpu), NEW S \in SUBSET Regs, NEW base \in Int
  PROVE  GprsStored(m ++ StoreGprs(S, base), m, S, base)
<1> DEFINE n == m ++ StoreGprs(S, base)
           at == [k \in {base + r : r \in S} |-> k - base]
<1>1. /\ On(n, a0, VmCpu) /\ Becomes(n, m, m.x, m.csr, n.mem) /\ Stored(n, m, VmCpu, at)
  BY Zenon, OnSds DEF StoreGprs
<1> HIDE DEF n, at
<1>2. ASSUME NEW k \in 0 .. 72
      PROVE  V(n, k) = IF k - base \in S THEN m.x[k - base] ELSE V(m, k)
  <2>1. k \in Offsets(VmCpu)
    BY Zenon, Objects
  <2>2. V(n, k) = IF k \in DOMAIN at THEN m.x[at[k]] ELSE V(m, k)
    BY Zenon, <1>1, <2>1 DEF Stored, V
  <2>3. k \in DOMAIN at <=> k - base \in S
    BY DEF Regs, at
  <2>4. k \in DOMAIN at => at[k] = k - base
    BY Zenon DEF at
  <2>5. QED
    BY Zenon, <2>2, <2>3, <2>4
<1>3. Beyond(n, m, "vm")
  BY Zenon, <1>1, Objects DEF Stored
<1>4. QED
  BY Zenon, <1>1, <1>2, <1>3, Zenon DEF n, GprsStored

\* _run_guest, up to its sret: the caller's registers and CSRs in the one table,
\* the guest's from the other.
RunGuestEffect(n, m) ==
  /\ Becomes(n, m, n.x, n.csr, n.mem)
  /\ n.x[0] = m.x[0] /\ \A r \in Regs \ {0} : n.x[r] = V(m, 37 + r)
  /\ n.csr["sstatus"] = V(m, 69) /\ n.csr["hstatus"] = V(m, 70) /\ n.csr["scounteren"] = V(m, 71)
  /\ n.csr["sepc"] = V(m, 72) /\ n.csr["stvec"] = Sym("_guest_exit") /\ n.csr["sscratch"] = VmCpu
  /\ \A c \in {"scause", "stval", "hgatp", "htinst"} : n.csr[c] = m.csr[c]
  /\ \A r \in HypGprs : V(n, r) = m.x[r]
  /\ V(n, 32) = m.csr["sstatus"] /\ V(n, 33) = m.csr["hstatus"] /\ V(n, 34) = m.csr["scounteren"]
  /\ V(n, 35) = m.csr["stvec"] /\ V(n, 36) = m.csr["sscratch"]
  /\ \A k \in 37 .. 72 : V(n, k) = V(m, k)
  /\ Beyond(n, m, "vm")

\* _run_guest saves its caller in hyp_regs and loads the guest from guest_regs,
\* a0 last although it is the base of all the loads.
LEMMA RunGuestDoes ==
  ASSUME NEW m, On(m, a0, VmCpu)
  PROVE  RunGuestEffect(run_guest_program(m), m)
<1> DEFINE B == VmCpu
           m1 == m ++ StoreGprs(HypGprs, hyp_gpr_offset(0))
           m2 == SwapToGuest(m1)
           m3 == m2 ++ Ld(t1, GuestCsr.sepc, a0)
           m4 == m3 ++ Csrw("sepc", t1)
           m5 == m4 ++ La(t1, "_guest_exit")
           m6 == m5 ++ Csrrw(t1, "stvec", t1)
           m7 == m6 ++ Sd(t1, HypCsr.stvec, a0)
           m8 == m7 ++ Csrrw(t1, "sscratch", a0)
           m9 == m8 ++ Sd(t1, HypCsr.sscratch, a0)
           m10 == m9 ++ LoadGprs(GuestGprs, guest_gpr_offset(0))
           m11 == m10 ++ Ld(a0, guest_gpr_offset(a0), a0)
<1>0. m11 = run_guest_program(m)
  BY Zenon DEF run_guest_program
<1> HIDE DEF B, m1, m2, m3, m4, m5, m6, m7, m8, m9, m10, m11
<1> USE Named
<1>a. t1 # a0 /\ 0 # t1 /\ 0 # a0 /\ 0 \in Regs
  BY RegNumbers DEF Regs
<1>b. 0 .. 72 \subseteq Offsets(B) /\ B[1] = "vm"
  BY Zenon, Objects DEF B
<1>1. /\ On(m1, a0, B) /\ Becomes(m1, m, m.x, m.csr, m1.mem)
      /\ \A k \in 0 .. 72 : V(m1, k) = IF k - 0 \in HypGprs THEN m.x[k - 0] ELSE V(m, k)
      /\ Beyond(m1, m, "vm")
  <2>1. HypGprs \in SUBSET Regs
    BY DEF HypGprs, Regs
  <2>2. GprsStored(m1, m, HypGprs, 0)
    BY <2>1, StoreGprsDoes, Layout DEF m1
  <2>3. QED
    BY Zenon, <2>2 DEF GprsStored, B
<1>2. Swapped(m2, m1, 69, 70, 71, 32, 33, 34)
  <2>1. /\ 69 \in Offsets(VmCpu) /\ 70 \in Offsets(VmCpu) /\ 71 \in Offsets(VmCpu)
        /\ 32 \in Offsets(VmCpu) /\ 33 \in Offsets(VmCpu) /\ 34 \in Offsets(VmCpu)
    BY <1>b DEF B
  <2>2. SwapToGuest(m1) = SwapCsr(SwapCsr(SwapCsr(m1, "sstatus", 69, 32), "hstatus", 70, 33),
                                  "scounteren", 71, 34)
    BY Zenon, Layout DEF SwapToGuest
  <2>3. On(m1, a0, VmCpu)
    BY Zenon, <1>1 DEF B
  <2>4. QED
    BY <2>1, <2>2, <2>3, SwapsDo DEF m2
<1>3. On(m3, a0, B) /\ Becomes(m3, m2, [m2.x EXCEPT ![t1] = M(m2, B, 72)], m2.csr, m2.mem)
  <2>1. On(m2, a0, B)
    BY Zenon, <1>2 DEF Swapped, B
  <2>2. QED
    BY <2>1, <1>a, OnLd, Layout DEF m3
<1>4. On(m4, a0, B) /\ Becomes(m4, m3, m3.x, [m3.csr EXCEPT !["sepc"] = m3.x[t1]], m3.mem)
  BY Zenon, <1>3, OnCsrw DEF m4
<1>5. On(m5, a0, B) /\ Becomes(m5, m4, [m4.x EXCEPT ![t1] = Sym("_guest_exit")], m4.csr, m4.mem)
  <2>1. Becomes(m5, m4, [m4.x EXCEPT ![t1] = Sym("_guest_exit")], m4.csr, m4.mem)
    BY Zenon, <1>4, DoLa DEF m5, On
  <2>2. QED
    BY Zenon, <2>1, <1>4, <1>a DEF On, Becomes, IsHart
<1>6. /\ On(m6, a0, B)
      /\ Becomes(m6, m5, [m5.x EXCEPT ![t1] = m5.csr["stvec"]],
                 [m5.csr EXCEPT !["stvec"] = m5.x[t1]], m5.mem)
  BY Zenon, <1>5, <1>a, OnCsrrw DEF m6
<1>7. On(m7, a0, B) /\ Becomes(m7, m6, m6.x, m6.csr, m7.mem) /\ Set(m7, m6, B, 35, m6.x[t1])
  BY SMTT(30), <1>6, OnSd, Layout DEF m7
<1>8. /\ On(m8, a0, B)
      /\ Becomes(m8, m7, [m7.x EXCEPT ![t1] = m7.csr["sscratch"]],
                 [m7.csr EXCEPT !["sscratch"] = m7.x[a0]], m7.mem)
  BY Zenon, <1>7, <1>a, OnCsrrw DEF m8
<1>9. On(m9, a0, B) /\ Becomes(m9, m8, m8.x, m8.csr, m9.mem) /\ Set(m9, m8, B, 36, m8.x[t1])
  BY <1>8, OnSd, Layout DEF m9
<1>10. Becomes(m10, m9, Load(m9, [r \in GuestGprs |-> 37 + r], B), m9.csr, m9.mem) /\ m10.x[a0] = B
  <2>1. Becomes(m10, m9, Load(m9, [r \in GuestGprs |-> 37 + r], B), m9.csr, m9.mem)
    BY <1>9, DoLds, Layout DEF LoadGprs, m10, On
  <2>2. a0 \notin GuestGprs
    BY RegNumbers DEF GuestGprs, HypGprs
  <2>3. QED
    BY Zenon, <1>9, <2>1, <2>2 DEF On, Becomes, Load
<1>11. Becomes(m11, m10, [m10.x EXCEPT ![a0] = M(m10, B, 47)], m10.csr, m10.mem)
  BY SMTT(30), <1>10, DoLd, Layout DEF M, m11, Becomes
<1>12. Becomes(m11, m, m11.x, m11.csr, m11.mem)
  <2>1. Becomes(m2, m1, m2.x, m2.csr, m2.mem)
    BY Zenon, <1>2 DEF Swapped
  <2>2. QED
    <3>1. Becomes(m5, m2, m5.x, m5.csr, m5.mem)
      BY Zenon, <1>3, <1>4, <1>5 DEF Becomes
    <3>2. Becomes(m8, m5, m8.x, m8.csr, m8.mem)
      BY Zenon, <1>6, <1>7, <1>8 DEF Becomes
    <3>3. Becomes(m11, m8, m11.x, m11.csr, m11.mem)
      BY Zenon, <1>9, <1>10, <1>11 DEF Becomes
    <3>4. QED
      BY Zenon, <1>1, <2>1, <3>1, <3>2, <3>3 DEF Becomes
<1>13. m11.x[0] = m.x[0]
  <2>1. m2.x[0] = m.x[0]
    BY ZenonT(30), <1>1, <1>2, <1>a DEF Becomes, Swapped
  <2>2. m5.x[0] = m2.x[0]
    BY SMTT(30), <1>3, <1>4, <1>5, <1>a DEF Becomes, IsHart, On
  <2>3. m9.x[0] = m5.x[0]
    <3>1. m6.x[0] = m5.x[0] /\ m7.x[0] = m6.x[0]
      BY Zenon, <1>5, <1>6, <1>7, <1>a DEF Becomes, IsHart, On
    <3>2. m8.x[0] = m7.x[0] /\ m9.x[0] = m8.x[0]
      BY Zenon, <1>7, <1>8, <1>9, <1>a DEF Becomes, IsHart, On
    <3>3. QED
      BY Zenon, <3>1, <3>2
  <2>4. m10.x[0] = m9.x[0]
    BY SMTT(30), <1>10, <1>a DEF Becomes, Load, GuestGprs, HypGprs
  <2>5. m11.x[0] = m10.x[0]
    BY Zenon, <1>10, <1>11, <1>a DEF Becomes, IsHart
  <2>6. QED
    BY Zenon, <2>1, <2>2, <2>3, <2>4, <2>5
<1>14. m3.x[t1] = V(m2, 72) /\ m5.x[t1] = Sym("_guest_exit") /\ m6.x[t1] = m5.csr["stvec"]
       /\ m8.x[t1] = m7.csr["sscratch"] /\ m7.x[a0] = B
  <2>1. m3.x[t1] = V(m2, 72)
    BY ZenonT(30), <1>2, <1>3 DEF Becomes, IsHart, On, Swapped, V, B
  <2>2. m5.x[t1] = Sym("_guest_exit") /\ m6.x[t1] = m5.csr["stvec"]
    BY Zenon, <1>4, <1>5, <1>6 DEF Becomes, IsHart, On
  <2>3. m8.x[t1] = m7.csr["sscratch"] /\ m7.x[a0] = B
    BY Zenon, <1>7, <1>8 DEF Becomes, IsHart, On
  <2>4. QED
    BY Zenon, <2>1, <2>2, <2>3
<1>15. ASSUME NEW c \in Csrs
       PROVE  /\ m11.csr[c] = IF c = "sscratch" THEN B ELSE IF c = "stvec" THEN Sym("_guest_exit")
                              ELSE IF c = "sepc" THEN V(m2, 72) ELSE m2.csr[c]
              /\ m5.csr[c] = IF c = "sepc" THEN V(m2, 72) ELSE m2.csr[c]
              /\ m7.csr[c] = IF c = "stvec" THEN Sym("_guest_exit") ELSE m5.csr[c]
  <2>1. m5.csr[c] = IF c = "sepc" THEN V(m2, 72) ELSE m2.csr[c]
    BY SMTT(30), <1>3, <1>4, <1>5, <1>14 DEF Becomes, IsHart, On
  <2>2. m7.csr[c] = IF c = "stvec" THEN Sym("_guest_exit") ELSE m5.csr[c]
    BY SMTT(30), <1>5, <1>6, <1>7, <1>14 DEF Becomes, IsHart, On
  <2>3. m9.csr[c] = IF c = "sscratch" THEN B ELSE m7.csr[c]
    BY SMTT(30), <1>7, <1>8, <1>9, <1>14 DEF Becomes, IsHart, On
  <2>4. m11.csr[c] = m9.csr[c]
    BY Zenon, <1>10, <1>11 DEF Becomes
  <2>5. QED
    BY Zenon, <2>1, <2>2, <2>3, <2>4
<1>16. m6.x[t1] = m.csr["stvec"] /\ m8.x[t1] = m.csr["sscratch"]
  <2>1. m2.csr["stvec"] = m.csr["stvec"] /\ m2.csr["sscratch"] = m.csr["sscratch"]
    BY SMTT(30), <1>1, <1>2 DEF Swapped, Becomes
  <2>2. m5.csr["stvec"] = m2.csr["stvec"] /\ m7.csr["sscratch"] = m2.csr["sscratch"]
    BY Zenon, <1>15
  <2>3. QED
    BY Zenon, <1>14, <2>1, <2>2
<1>17. ASSUME NEW k \in 0 .. 72
       PROVE  V(m11, k) = IF k = 36 THEN m.csr["sscratch"] ELSE IF k = 35 THEN m.csr["stvec"]
                          ELSE IF k = 34 THEN m.csr["scounteren"] ELSE IF k = 33 THEN m.csr["hstatus"]
                          ELSE IF k = 32 THEN m.csr["sstatus"]
                          ELSE IF k \in HypGprs THEN m.x[k] ELSE V(m, k)
  <2>0. k \in Offsets(VmCpu) /\ k - 0 = k
    BY <1>b DEF B
  <2>1. V(m1, k) = IF k \in HypGprs THEN m.x[k] ELSE V(m, k)
    BY Zenon, <1>1, <2>0
  <2>2. V(m2, k) = IF k = 34 THEN m1.csr["scounteren"] ELSE IF k = 33 THEN m1.csr["hstatus"]
                   ELSE IF k = 32 THEN m1.csr["sstatus"] ELSE V(m1, k)
    BY Zenon, <1>2, <2>0 DEF Swapped
  <2>3. m6.mem = m2.mem /\ m8.mem = m7.mem /\ m11.mem = m9.mem /\ m1.csr = m.csr
    <3>1. m6.mem = m2.mem
      BY Zenon, <1>3, <1>4, <1>5, <1>6 DEF Becomes
    <3>2. m8.mem = m7.mem /\ m11.mem = m9.mem
      BY Zenon, <1>8, <1>10, <1>11 DEF Becomes
    <3>3. QED
      BY Zenon, <1>1, <3>1, <3>2 DEF Becomes
  <2>4. V(m7, k) = IF k = 35 THEN m.csr["stvec"] ELSE V(m2, k)
    BY Zenon, <1>7, <1>16, <2>0, <2>3 DEF Set, V, B, M
  <2>5. V(m9, k) = IF k = 36 THEN m.csr["sscratch"] ELSE V(m7, k)
    BY Zenon, <1>9, <1>16, <2>0, <2>3 DEF Set, V, B, M
  <2>6. V(m11, k) = V(m9, k)
    BY Zenon, <2>3 DEF V, M
  <2>7. QED
    BY SMTT(30), <2>1, <2>2, <2>3, <2>4, <2>5, <2>6
<1>18. Beyond(m11, m, "vm")
  <2>1. Beyond(m2, m1, "vm") /\ Beyond(m7, m6, "vm") /\ Beyond(m9, m8, "vm")
    BY SMTT(30), <1>2, <1>7, <1>9, <1>b DEF Swapped, Set
  <2>2. m6.mem = m2.mem /\ m8.mem = m7.mem /\ m11.mem = m9.mem
    BY Zenon, <1>3, <1>4, <1>5, <1>6, <1>8, <1>10, <1>11 DEF Becomes
  <2>3. ASSUME NEW a \in Addresses, a[1] # "vm" PROVE m11.mem[a] = m.mem[a]
    <3>1. m1.mem[a] = m.mem[a]
      BY Zenon, <1>1, <2>3 DEF Beyond
    <3>2. m2.mem[a] = m1.mem[a] /\ m7.mem[a] = m6.mem[a] /\ m9.mem[a] = m8.mem[a]
      BY Zenon, <2>1, <2>3 DEF Beyond
    <3>3. QED
      BY Zenon, <2>2, <3>1, <3>2
  <2>4. QED
    BY Zenon, <2>3 DEF Beyond
<1>19. ASSUME NEW r \in Regs \ {0} PROVE m11.x[r] = V(m, 37 + r)
  <2>1. 37 + r \in 38 .. 68 /\ 37 + a0 = 47
    BY RegNumbers DEF Regs
  <2>2. V(m11, 37 + r) = V(m, 37 + r)
    BY <1>17, <2>1 DEF HypGprs
  <2>3. m9.mem = m11.mem /\ m10.mem = m11.mem
    BY Zenon, <1>10, <1>11 DEF Becomes
  <2>4. CASE r = a0
    <3>1. m11.x[r] = M(m10, B, 47)
      BY Zenon, <1>10, <1>11, <2>4 DEF Becomes, IsHart
    <3>2. QED
      BY Zenon, <2>1, <2>2, <2>3, <2>4, <3>1 DEF V, M, B
  <2>5. CASE r # a0
    <3>1. r \in GuestGprs
      BY <2>5, RegNumbers DEF GuestGprs, HypGprs, Regs
    <3>2. m10.x[r] = M(m9, B, 37 + r)
      BY Zenon, <1>10, <3>1 DEF Becomes, Load, M
    <3>3. m11.x[r] = m10.x[r]
      BY Zenon, <1>10, <1>11, <2>5 DEF Becomes, IsHart
    <3>4. QED
      BY Zenon, <2>2, <2>3, <3>2, <3>3 DEF V, M, B
  <2>6. QED
    BY Zenon, <2>4, <2>5
<1>20. QED
  <2>1. /\ m2.csr["sstatus"] = V(m, 69) /\ m2.csr["hstatus"] = V(m, 70)
        /\ m2.csr["scounteren"] = V(m, 71) /\ V(m2, 72) = V(m, 72)
        /\ \A c \in Csrs \ {"sstatus", "hstatus", "scounteren"} : m2.csr[c] = m.csr[c]
    <3>1. V(m1, 69) = V(m, 69) /\ V(m1, 70) = V(m, 70) /\ V(m1, 71) = V(m, 71) /\ V(m1, 72) = V(m, 72)
      BY <1>1 DEF HypGprs
    <3>2. V(m2, 72) = V(m1, 72)
      BY <1>2, <1>b DEF Swapped, B
    <3>3. QED
      BY SMTT(30), <1>1, <1>2, <3>1, <3>2 DEF Swapped, Becomes
  <2>2. /\ m11.csr["sstatus"] = V(m, 69) /\ m11.csr["hstatus"] = V(m, 70)
        /\ m11.csr["scounteren"] = V(m, 71)
        /\ m11.csr["sepc"] = V(m, 72) /\ m11.csr["stvec"] = Sym("_guest_exit")
        /\ m11.csr["sscratch"] = VmCpu
        /\ \A c \in {"scause", "stval", "hgatp", "htinst"} : m11.csr[c] = m.csr[c]
    BY <1>15, <2>1 DEF B
  <2>3. \A r \in HypGprs : V(m11, r) = m.x[r]
    BY <1>17 DEF HypGprs
  <2>4. /\ V(m11, 32) = m.csr["sstatus"] /\ V(m11, 33) = m.csr["hstatus"]
        /\ V(m11, 34) = m.csr["scounteren"]
        /\ V(m11, 35) = m.csr["stvec"] /\ V(m11, 36) = m.csr["sscratch"]
    BY SMTT(30), <1>17
  <2>5. \A k \in 37 .. 72 : V(m11, k) = V(m, k)
    BY <1>17 DEF HypGprs
  <2>6. RunGuestEffect(m11, m)
    BY Zenon, <1>12, <1>13, <1>18, <1>19, <2>2, <2>3, <2>4, <2>5 DEF RunGuestEffect
  <2>7. QED
    BY Zenon, <1>0, <2>6

\* _guest_exit, up to its ret: the guest's registers and CSRs in the one table,
\* the caller's from the other.
GuestExitEffect(n, m) ==
  /\ Becomes(n, m, n.x, n.csr, n.mem)
  /\ n.x[0] = m.x[0] /\ \A r \in HypGprs : n.x[r] = V(m, r)
  /\ n.csr["sstatus"] = V(m, 32) /\ n.csr["hstatus"] = V(m, 33) /\ n.csr["scounteren"] = V(m, 34)
  /\ n.csr["stvec"] = V(m, 35) /\ n.csr["sscratch"] = V(m, 36)
  /\ \A c \in {"sepc", "scause", "stval", "hgatp", "htinst"} : n.csr[c] = m.csr[c]
  /\ \A r \in Regs \ {0} : V(n, 37 + r) = m.x[r]
  /\ V(n, 69) = m.csr["sstatus"] /\ V(n, 70) = m.csr["hstatus"] /\ V(n, 71) = m.csr["scounteren"]
  /\ V(n, 72) = m.csr["sepc"]
  /\ \A k \in 0 .. 37 : V(n, k) = V(m, k)
  /\ Beyond(n, m, "vm")

\* _guest_exit saves the guest in guest_regs, a0 included although it is swapped
\* with sscratch first, and loads the caller of _run_guest from hyp_regs.
LEMMA GuestExitDoes ==
  ASSUME NEW m, IsHart(m), m.csr["sscratch"] = VmCpu
  PROVE  GuestExitEffect(guest_exit_program(m), m)
<1> DEFINE B == VmCpu
           m1 == m ++ Csrrw(a0, "sscratch", a0)
           m2 == m1 ++ StoreGprs(GuestGprs, guest_gpr_offset(0))
           m3 == m2 ++ Csrr(t0, "sscratch")
           m4 == m3 ++ Sd(t0, guest_gpr_offset(a0), a0)
           m5 == SwapToHyp(m4)
           m6 == m5 ++ Ld(t1, HypCsr.stvec, a0)
           m7 == m6 ++ Csrw("stvec", t1)
           m8 == m7 ++ Ld(t1, HypCsr.sscratch, a0)
           m9 == m8 ++ Csrw("sscratch", t1)
           m10 == m9 ++ Csrr(t1, "sepc")
           m11 == m10 ++ Sd(t1, GuestCsr.sepc, a0)
           m12 == m11 ++ LoadGprs(HypGprs, hyp_gpr_offset(0))
<1>0. m12 = guest_exit_program(m)
  BY Zenon DEF guest_exit_program, SaveGuest
<1> HIDE DEF B, m1, m2, m3, m4, m5, m6, m7, m8, m9, m10, m11, m12
<1> USE Named
<1>a. t0 # a0 /\ t1 # a0 /\ 0 # t0 /\ 0 # t1 /\ 0 # a0 /\ 0 \in Regs
  BY RegNumbers DEF Regs
<1>b. 0 .. 72 \subseteq Offsets(B) /\ B[1] = "vm" /\ B[3] \in Int
  BY Objects DEF B
<1>1. /\ On(m1, a0, B)
      /\ Becomes(m1, m, [m.x EXCEPT ![a0] = B], [m.csr EXCEPT !["sscratch"] = m.x[a0]], m.mem)
  <2>1. Becomes(m1, m, [m.x EXCEPT ![a0] = B], [m.csr EXCEPT !["sscratch"] = m.x[a0]], m.mem)
    BY Zenon, DoCsrrw DEF m1, B
  <2>2. QED
    BY Zenon, <2>1, <1>b DEF On, Becomes, IsHart
<1>2. /\ On(m2, a0, B) /\ Becomes(m2, m1, m1.x, m1.csr, m2.mem)
      /\ \A k \in 0 .. 72 : V(m2, k) = IF k - 37 \in GuestGprs THEN m1.x[k - 37] ELSE V(m1, k)
      /\ Beyond(m2, m1, "vm")
  <2>1. GuestGprs \in SUBSET Regs
    BY DEF GuestGprs, HypGprs, Regs
  <2>2. On(m1, a0, VmCpu)
    BY Zenon, <1>1 DEF B
  <2>3. GprsStored(m2, m1, GuestGprs, 37)
    BY <2>1, <2>2, StoreGprsDoes, Layout DEF m2
  <2>4. QED
    BY Zenon, <2>3 DEF GprsStored, B
<1>3. On(m3, a0, B) /\ Becomes(m3, m2, [m2.x EXCEPT ![t0] = m2.csr["sscratch"]], m2.csr, m2.mem)
  BY Zenon, <1>2, <1>a, OnCsrr DEF m3
<1>4. On(m4, a0, B) /\ Becomes(m4, m3, m3.x, m3.csr, m4.mem) /\ Set(m4, m3, B, 47, m3.x[t0])
  BY <1>3, OnSd, Layout DEF m4
<1>5. Swapped(m5, m4, 32, 33, 34, 69, 70, 71)
  <2>1. /\ 69 \in Offsets(VmCpu) /\ 70 \in Offsets(VmCpu) /\ 71 \in Offsets(VmCpu)
        /\ 32 \in Offsets(VmCpu) /\ 33 \in Offsets(VmCpu) /\ 34 \in Offsets(VmCpu)
    BY <1>b DEF B
  <2>2. SwapToHyp(m4) = SwapCsr(SwapCsr(SwapCsr(m4, "sstatus", 32, 69), "hstatus", 33, 70),
                                "scounteren", 34, 71)
    BY Zenon, Layout DEF SwapToHyp
  <2>3. On(m4, a0, VmCpu)
    BY Zenon, <1>4 DEF B
  <2>4. QED
    BY <2>1, <2>2, <2>3, SwapsDo DEF m5
<1>6. On(m6, a0, B) /\ Becomes(m6, m5, [m5.x EXCEPT ![t1] = M(m5, B, 35)], m5.csr, m5.mem)
  <2>1. On(m5, a0, B)
    BY Zenon, <1>5 DEF Swapped, B
  <2>2. QED
    BY <2>1, <1>a, OnLd, Layout DEF m6
<1>7. On(m7, a0, B) /\ Becomes(m7, m6, m6.x, [m6.csr EXCEPT !["stvec"] = m6.x[t1]], m6.mem)
  BY Zenon, <1>6, OnCsrw DEF m7
<1>8. On(m8, a0, B) /\ Becomes(m8, m7, [m7.x EXCEPT ![t1] = M(m7, B, 36)], m7.csr, m7.mem)
  BY <1>7, <1>a, OnLd, Layout DEF m8
<1>9. On(m9, a0, B) /\ Becomes(m9, m8, m8.x, [m8.csr EXCEPT !["sscratch"] = m8.x[t1]], m8.mem)
  BY Zenon, <1>8, OnCsrw DEF m9
<1>10. On(m10, a0, B) /\ Becomes(m10, m9, [m9.x EXCEPT ![t1] = m9.csr["sepc"]], m9.csr, m9.mem)
  BY Zenon, <1>9, <1>a, OnCsrr DEF m10
<1>11. On(m11, a0, B) /\ Becomes(m11, m10, m10.x, m10.csr, m11.mem) /\ Set(m11, m10, B, 72, m10.x[t1])
  BY <1>10, OnSd, Layout DEF m11
<1>12. Becomes(m12, m11, Load(m11, [r \in HypGprs |-> 0 + r], B), m11.csr, m11.mem)
  BY SMTT(30), <1>11, DoLds, Layout DEF LoadGprs, m12, On
<1>13. Becomes(m12, m, m12.x, m12.csr, m12.mem)
  <2>1. Becomes(m5, m4, m5.x, m5.csr, m5.mem)
    BY Zenon, <1>5 DEF Swapped
  <2>2. Becomes(m4, m, m4.x, m4.csr, m4.mem)
    BY Zenon, <1>1, <1>2, <1>3, <1>4 DEF Becomes
  <2>3. Becomes(m8, m5, m8.x, m8.csr, m8.mem)
    BY Zenon, <1>6, <1>7, <1>8 DEF Becomes
  <2>4. Becomes(m12, m8, m12.x, m12.csr, m12.mem)
    BY Zenon, <1>9, <1>10, <1>11, <1>12 DEF Becomes
  <2>5. QED
    BY Zenon, <2>1, <2>2, <2>3, <2>4 DEF Becomes
<1>14. m12.x[0] = m.x[0]
  <2>1. m4.x[0] = m.x[0]
    <3>1. m1.x[0] = m.x[0] /\ m2.x[0] = m1.x[0]
      BY Zenon, <1>1, <1>2, <1>a DEF Becomes, IsHart, On
    <3>2. m3.x[0] = m2.x[0] /\ m4.x[0] = m3.x[0]
      BY Zenon, <1>2, <1>3, <1>4, <1>a DEF Becomes, IsHart, On
    <3>3. QED
      BY Zenon, <3>1, <3>2
  <2>2. m5.x[0] = m4.x[0]
    BY Zenon, <1>5, <1>a DEF Swapped
  <2>3. m8.x[0] = m5.x[0]
    <3>1. m6.x[0] = m5.x[0]
      BY Zenon, <1>5, <1>6, <1>a DEF Becomes, IsHart, On, Swapped
    <3>2. m7.x[0] = m6.x[0] /\ m8.x[0] = m7.x[0]
      BY Zenon, <1>6, <1>7, <1>8, <1>a DEF Becomes, IsHart, On
    <3>3. QED
      BY Zenon, <3>1, <3>2
  <2>4. m11.x[0] = m8.x[0]
    <3>1. m9.x[0] = m8.x[0] /\ m10.x[0] = m9.x[0]
      BY Zenon, <1>8, <1>9, <1>10, <1>a DEF Becomes, IsHart, On
    <3>2. m11.x[0] = m10.x[0]
      BY Zenon, <1>10, <1>11, <1>a DEF Becomes, IsHart, On
    <3>3. QED
      BY Zenon, <3>1, <3>2
  <2>5. m12.x[0] = m11.x[0]
    BY <1>12, <1>a DEF Becomes, Load, HypGprs
  <2>6. QED
    BY Zenon, <2>1, <2>2, <2>3, <2>4, <2>5
<1>15. m6.mem = m5.mem /\ m7.mem = m5.mem /\ m10.mem = m5.mem /\ m12.mem = m11.mem
       /\ m3.mem = m2.mem /\ m1.mem = m.mem
  <2>1. m6.mem = m5.mem /\ m7.mem = m5.mem /\ m8.mem = m5.mem
    BY Zenon, <1>6, <1>7, <1>8 DEF Becomes
  <2>2. m10.mem = m8.mem
    BY Zenon, <1>9, <1>10 DEF Becomes
  <2>3. m12.mem = m11.mem /\ m3.mem = m2.mem /\ m1.mem = m.mem
    BY Zenon, <1>1, <1>3, <1>12 DEF Becomes
  <2>4. QED
    BY Zenon, <2>1, <2>2, <2>3
<1>16. m6.x[t1] = V(m5, 35) /\ m8.x[t1] = V(m5, 36) /\ m10.x[t1] = m9.csr["sepc"]
       /\ m3.x[t0] = m2.csr["sscratch"]
  <2>1. m6.x[t1] = M(m5, B, 35) /\ m8.x[t1] = M(m7, B, 36)
    <3>1. t1 \in Regs
      BY RegNumbers DEF Regs
    <3>2. QED
      BY Zenon, <1>6, <1>8, <3>1 DEF Becomes, IsHart
  <2>2. m10.x[t1] = m9.csr["sepc"] /\ m3.x[t0] = m2.csr["sscratch"]
    BY Zenon, <1>2, <1>3, <1>9, <1>10 DEF Becomes, IsHart, On
  <2>3. M(m7, B, 36) = M(m5, B, 36)
    BY Zenon, <1>15 DEF M
  <2>4. QED
    BY Zenon, <2>1, <2>2, <2>3 DEF V, B
<1>17. ASSUME NEW c \in Csrs
       PROVE  /\ m12.csr[c] = IF c = "sscratch" THEN V(m5, 36) ELSE IF c = "stvec" THEN V(m5, 35)
                              ELSE m5.csr[c]
              /\ m9.csr[c] = m12.csr[c]
              /\ m4.csr[c] = IF c = "sscratch" THEN m.x[a0] ELSE m.csr[c]
              /\ m2.csr[c] = m4.csr[c]
  <2>1. m7.csr[c] = IF c = "stvec" THEN V(m5, 35) ELSE m5.csr[c]
    BY Zenon, <1>6, <1>7, <1>16 DEF Becomes, IsHart, On
  <2>2. m9.csr[c] = IF c = "sscratch" THEN V(m5, 36) ELSE m7.csr[c]
    BY Zenon, <1>8, <1>9, <1>16 DEF Becomes, IsHart, On
  <2>3. m12.csr[c] = m9.csr[c]
    BY Zenon, <1>10, <1>11, <1>12 DEF Becomes
  <2>4. m4.csr[c] = m2.csr[c]
    BY Zenon, <1>3, <1>4 DEF Becomes
  <2>5. m2.csr[c] = IF c = "sscratch" THEN m.x[a0] ELSE m.csr[c]
    BY Zenon, <1>1, <1>2 DEF Becomes, IsHart
  <2>6. QED
    BY Zenon, <2>1, <2>2, <2>3, <2>4, <2>5
<1>18. m3.x[t0] = m.x[a0] /\ m10.x[t1] = m.csr["sepc"]
  <2>1. m2.csr["sscratch"] = m.x[a0] /\ m9.csr["sepc"] = m5.csr["sepc"] /\ m4.csr["sepc"] = m.csr["sepc"]
    BY Zenon, <1>17
  <2>2. m5.csr["sepc"] = m4.csr["sepc"]
    BY Zenon, <1>5 DEF Swapped
  <2>3. QED
    BY Zenon, <1>16, <2>1, <2>2
<1>19. ASSUME NEW k \in 0 .. 72
       PROVE  V(m4, k) = IF k = 47 THEN m.x[a0] ELSE IF k - 37 \in GuestGprs THEN m1.x[k - 37] ELSE V(m, k)
  <2>0. k \in Offsets(B)
    BY Zenon, <1>b
  <2>1. V(m4, k) = IF k = 47 THEN m.x[a0] ELSE V(m2, k)
    BY Zenon, <1>4, <1>15, <1>18, <2>0 DEF Set, V, B, M
  <2>2. V(m1, k) = V(m, k)
    BY Zenon, <1>15 DEF V, M
  <2>3. QED
    BY Zenon, <1>2, <2>1, <2>2
<1>20. ASSUME NEW k \in 0 .. 72
       PROVE  V(m12, k) = IF k = 72 THEN m.csr["sepc"] ELSE IF k = 71 THEN m.csr["scounteren"]
                          ELSE IF k = 70 THEN m.csr["hstatus"] ELSE IF k = 69 THEN m.csr["sstatus"]
                          ELSE V(m4, k)
  <2>0. k \in Offsets(B)
    BY Zenon, <1>b
  <2>1. V(m11, k) = IF k = 72 THEN m.csr["sepc"] ELSE V(m5, k)
    BY Zenon, <1>11, <1>15, <1>18, <2>0 DEF Set, V, B, M
  <2>2. m4.csr["sstatus"] = m.csr["sstatus"] /\ m4.csr["hstatus"] = m.csr["hstatus"]
        /\ m4.csr["scounteren"] = m.csr["scounteren"]
    BY Zenon, <1>17
  <2>3. V(m5, k) = IF k = 71 THEN m.csr["scounteren"] ELSE IF k = 70 THEN m.csr["hstatus"]
                   ELSE IF k = 69 THEN m.csr["sstatus"] ELSE V(m4, k)
    BY Zenon, <1>5, <2>0, <2>2 DEF Swapped, B
  <2>4. V(m12, k) = V(m11, k)
    BY Zenon, <1>15 DEF V, M
  <2>5. QED
    BY <2>1, <2>3, <2>4
<1>21. Beyond(m12, m, "vm")
  <2>1. Beyond(m4, m3, "vm") /\ Beyond(m5, m4, "vm") /\ Beyond(m11, m10, "vm")
    <3>1. Beyond(m5, m4, "vm")
      BY Zenon, <1>5 DEF Swapped
    <3>2. Beyond(m4, m3, "vm") /\ Beyond(m11, m10, "vm")
      BY SMTT(30), <1>4, <1>11, <1>b DEF Set
    <3>3. QED
      BY Zenon, <3>1, <3>2
  <2>2. Beyond(m2, m1, "vm")
    BY Zenon, <1>2
  <2>3. ASSUME NEW a \in Addresses, a[1] # "vm" PROVE m12.mem[a] = m.mem[a]
    <3>1. /\ m2.mem[a] = m1.mem[a] /\ m4.mem[a] = m3.mem[a]
          /\ m5.mem[a] = m4.mem[a] /\ m11.mem[a] = m10.mem[a]
      BY Zenon, <2>1, <2>2, <2>3 DEF Beyond
    <3>2. QED
      BY Zenon, <1>15, <3>1
  <2>4. QED
    BY Zenon, <2>3 DEF Beyond
<1>22. \A k \in 0 .. 37 : V(m12, k) = V(m, k) /\ V(m5, k) = V(m, k)
  <2>1. ASSUME NEW k \in 0 .. 37 PROVE k - 37 \notin GuestGprs
    BY DEF GuestGprs, HypGprs
  <2>2. ASSUME NEW k \in 0 .. 37 PROVE V(m5, k) = V(m4, k)
    BY <1>5, <1>b DEF Swapped, B
  <2>3. QED
    BY SMTT(30), <1>19, <1>20, <2>1, <2>2
<1>23. ASSUME NEW r \in HypGprs PROVE m12.x[r] = V(m, r)
  <2>1. r \in Regs /\ r \in 0 .. 37 /\ 0 + r = r
    BY DEF HypGprs, Regs
  <2>2. m12.x[r] = M(m11, B, r)
    BY Zenon, <1>12, <2>1 DEF Becomes, Load, M
  <2>3. QED
    BY Zenon, <1>15, <1>22, <2>1, <2>2 DEF V, M, B
<1>24. ASSUME NEW r \in Regs \ {0} PROVE V(m12, 37 + r) = m.x[r]
  <2>1. 37 + r \in 38 .. 68 /\ 37 + r - 37 = r
    BY DEF Regs
  <2>2. V(m12, 37 + r) = V(m4, 37 + r)
    BY <1>20, <2>1
  <2>3. r # a0 => r \in GuestGprs /\ 37 + r # 47
    BY RegNumbers DEF GuestGprs, HypGprs, Regs
  <2>4. r = a0 => 37 + r = 47
    BY RegNumbers
  <2>5. r # a0 => m1.x[r] = m.x[r]
    BY Zenon, <1>1 DEF Becomes, IsHart
  <2>6. V(m4, 37 + r) = IF 37 + r = 47 THEN m.x[a0] ELSE IF r \in GuestGprs THEN m1.x[r] ELSE V(m, 37 + r)
    <3> DEFINE k == 37 + r
    <3>1. k \in 0 .. 72 /\ k - 37 = r
      BY DEF Regs
    <3> HIDE DEF k
    <3>2. V(m4, k) = IF k = 47 THEN m.x[a0] ELSE IF r \in GuestGprs THEN m1.x[r] ELSE V(m, k)
      BY Zenon, <1>19, <3>1
    <3>3. QED
      BY Zenon, <3>2 DEF k
  <2>7. QED
    BY Zenon, <2>2, <2>3, <2>4, <2>5, <2>6
<1>25. QED
  <2>1. /\ m5.csr["sstatus"] = V(m, 32) /\ m5.csr["hstatus"] = V(m, 33)
        /\ m5.csr["scounteren"] = V(m, 34)
    <3>1. V(m4, 32) = V(m, 32) /\ V(m4, 33) = V(m, 33) /\ V(m4, 34) = V(m, 34)
      BY <1>19 DEF GuestGprs, HypGprs
    <3>2. QED
      BY Zenon, <1>5, <3>1 DEF Swapped
  <2>2. ASSUME NEW c \in {"sepc", "scause", "stval", "hgatp", "htinst"} PROVE m12.csr[c] = m.csr[c]
    <3>1. m12.csr[c] = m5.csr[c] /\ m4.csr[c] = m.csr[c]
      BY Zenon, <1>17
    <3>2. m5.csr[c] = m4.csr[c]
      BY <1>5 DEF Swapped
    <3>3. QED
      BY Zenon, <3>1, <3>2
  <2>3. /\ m12.csr["sstatus"] = V(m, 32) /\ m12.csr["hstatus"] = V(m, 33)
        /\ m12.csr["scounteren"] = V(m, 34)
        /\ m12.csr["stvec"] = V(m, 35) /\ m12.csr["sscratch"] = V(m, 36)
    BY <1>17, <1>22, <2>1
  <2>4. /\ V(m12, 69) = m.csr["sstatus"] /\ V(m12, 70) = m.csr["hstatus"]
        /\ V(m12, 71) = m.csr["scounteren"] /\ V(m12, 72) = m.csr["sepc"]
    BY <1>20
  <2>5. \A k \in 0 .. 37 : V(m12, k) = V(m, k)
    BY Zenon, <1>22
  <2>6. GuestExitEffect(m12, m)
    BY Zenon, <1>13, <1>14, <1>21, <1>23, <1>24, <2>2, <2>3, <2>4, <2>5 DEF GuestExitEffect
  <2>7. QED
    BY Zenon, <1>0, <2>6

\* The frame of the probe's trap, below hentry's stack pointer.
ProbeFrame == Add(BootStackTop, -21)

\* The TrapFrame of on_detect_trap lies on the boot stack.
LEMMA ProbeFrameIs ==
  /\ ProbeFrame[1] = "boot_stack" /\ ProbeFrame[3] \in Int
  /\ Add(ProbeFrame, 0) = ProbeFrame /\ Add(ProbeFrame, 21) = BootStackTop
  /\ 0 .. 20 \subseteq Offsets(ProbeFrame)
<1>1. /\ ProbeFrame[1] = "boot_stack" /\ ProbeFrame[3] \in Int
      /\ Add(ProbeFrame, 0) = ProbeFrame /\ Add(ProbeFrame, 21) = BootStackTop
  BY DEF Add, BootStackTop, ProbeFrame
<1>2. ASSUME NEW k \in 0 .. 20 PROVE Add(ProbeFrame, k) \in Addresses
  <2>1. Add(ProbeFrame, k) = Add(BootStackTop, k - 21)
    BY DEF Add, BootStackTop, ProbeFrame
  <2>2. k - 21 \in -21 .. -1
    OBVIOUS
  <2>3. QED
    BY Zenon, <2>1, <2>2, Objects DEF Offsets
<1>3. QED
  BY <1>1, <1>2 DEF Offsets

\* The registers of the frame: each in one place, and those that Rust may change.
LEMMA FrameRegsAre ==
  /\ DOMAIN FrameRegs = 0 .. 16
  /\ \A k \in 0 .. 16 : FrameRegs[k] \in (CallerSaved \cup {tp}) \ {0, sp} /\ FrameRegs[k] \in Regs
  /\ \A j, k \in 0 .. 16 : FrameRegs[j] = FrameRegs[k] => j = k
  /\ \A r \in CallerSaved \cup {tp} : \E k \in 0 .. 16 : FrameRegs[k] = r
  /\ FrameRegs[1] = tp
<1>1. ASSUME NEW k \in 0 .. 16
      PROVE  FrameRegs[k] = IF k = 0 THEN 1 ELSE IF k = 1 THEN 4 ELSE IF k \in 2 .. 9 THEN 8 + k
                            ELSE IF k \in 10 .. 12 THEN k - 5 ELSE 15 + k
  BY RegNumbers DEF FrameRegs
<1>2. DOMAIN FrameRegs = 0 .. 16
  BY Zenon DEF FrameRegs
<1>3. ASSUME NEW r \in CallerSaved \cup {tp} PROVE \E k \in 0 .. 16 : FrameRegs[k] = r
  <2>1. r \in {1, 4} \cup (10 .. 17) \cup (5 .. 7) \cup (28 .. 31)
    BY Zenon, RegNumbers DEF CallerSaved
  <2>2. CASE r = 1
    BY <1>1, <2>2
  <2>3. CASE r = 4
    BY <1>1, <2>3
  <2>4. CASE r \in 10 .. 17
    <3>1. r - 8 \in 2 .. 9 /\ 8 + (r - 8) = r
      BY <2>4
    <3>2. QED
      BY <1>1, <3>1
  <2>5. CASE r \in 5 .. 7
    <3>1. r + 5 \in 10 .. 12 /\ (r + 5) - 5 = r
      BY <2>5
    <3>2. QED
      BY <1>1, <3>1
  <2>6. CASE r \in 28 .. 31
    <3>1. r - 15 \in 13 .. 16 /\ 15 + (r - 15) = r
      BY <2>6
    <3>2. QED
      BY <1>1, <3>1
  <2>7. QED
    BY Zenon, <2>1, <2>2, <2>3, <2>4, <2>5, <2>6
<1>4. \A k \in 0 .. 16 : FrameRegs[k] \in (CallerSaved \cup {tp}) \ {0, sp} /\ FrameRegs[k] \in Regs
  BY <1>1, RegNumbers DEF CallerSaved, Regs
<1>5. \A j, k \in 0 .. 16 : FrameRegs[j] = FrameRegs[k] => j = k
  BY <1>1
<1>6. FrameRegs[1] = tp
  BY <1>1, RegNumbers
<1>7. QED
  BY Zenon, <1>2, <1>3, <1>4, <1>5, <1>6

\* on_detect_trap up to its call of rust_detect_trap.
DetectEntry(n, m) ==
  /\ Becomes(n, m, n.x, m.csr, n.mem)
  /\ n.x[sp] = ProbeFrame /\ n.x[a0] = ProbeFrame
  /\ \A r \in Regs \ (CallerSaved \cup {sp}) : n.x[r] = m.x[r]
  /\ \A k \in 0 .. 16 : M(n, ProbeFrame, k) = m.x[FrameRegs[k]]
  /\ M(n, ProbeFrame, 17) = m.csr["sstatus"] /\ M(n, ProbeFrame, 18) = m.csr["sepc"]
  /\ M(n, ProbeFrame, 19) = m.csr["scause"] /\ M(n, ProbeFrame, 20) = m.csr["stval"]
  /\ Beyond(n, m, "boot_stack")

\* on_detect_trap saves the caller-saved registers and four CSRs in the frame.
LEMMA DetectEntryDoes ==
  ASSUME NEW m, IsHart(m), m.x[sp] = BootStackTop
  PROVE  DetectEntry(on_detect_trap_entry(m), m)
<1> DEFINE B == ProbeFrame
           m1 == m ++ Addi(sp, sp, -21)
           m2 == m1 ++ Sds(FrameRegs, sp)
           m3 == m2 ++ Csrr(t0, "sstatus")
           m4 == m3 ++ Sd(t0, 17, sp)
           m5 == m4 ++ Csrr(t1, "sepc")
           m6 == m5 ++ Sd(t1, 18, sp)
           m7 == m6 ++ Csrr(t2, "scause")
           m8 == m7 ++ Sd(t2, 19, sp)
           m9 == m8 ++ Csrr(t3, "stval")
           m10 == m9 ++ Sd(t3, 20, sp)
           m11 == m10 ++ Mv(a0, sp)
<1>0. m11 = on_detect_trap_entry(m)
  BY Zenon DEF on_detect_trap_entry
<1> HIDE DEF B, m1, m2, m3, m4, m5, m6, m7, m8, m9, m10, m11
<1> USE Named
<1>a. t0 # sp /\ t1 # sp /\ t2 # sp /\ t3 # sp /\ a0 # sp
  BY RegNumbers
<1>b. B[3] \in Int /\ B[1] = "boot_stack" /\ Add(B, 0) = B /\ 0 .. 20 \subseteq Offsets(B)
  BY Zenon, ProbeFrameIs DEF B
<1>1. On(m1, sp, B) /\ Becomes(m1, m, [m.x EXCEPT ![sp] = B], m.csr, m.mem)
  <2>1. Becomes(m1, m, [m.x EXCEPT ![sp] = Add(m.x[sp], -21)], m.csr, m.mem)
    BY Zenon, DoAddi DEF m1
  <2>2. QED
    BY Zenon, <2>1, <1>b DEF On, Becomes, IsHart, B, ProbeFrame
<1>2. On(m2, sp, B) /\ Becomes(m2, m1, m1.x, m1.csr, m2.mem) /\ Stored(m2, m1, B, FrameRegs)
  BY Zenon, <1>1, OnSds DEF m2
<1>3. On(m3, sp, B) /\ Becomes(m3, m2, [m2.x EXCEPT ![t0] = m2.csr["sstatus"]], m2.csr, m2.mem)
  BY Zenon, <1>2, <1>a, OnCsrr DEF m3
<1>4. On(m4, sp, B) /\ Becomes(m4, m3, m3.x, m3.csr, m4.mem) /\ Set(m4, m3, B, 17, m3.x[t0])
  BY Zenon, <1>3, OnSd DEF m4
<1>5. On(m5, sp, B) /\ Becomes(m5, m4, [m4.x EXCEPT ![t1] = m4.csr["sepc"]], m4.csr, m4.mem)
  BY Zenon, <1>4, <1>a, OnCsrr DEF m5
<1>6. On(m6, sp, B) /\ Becomes(m6, m5, m5.x, m5.csr, m6.mem) /\ Set(m6, m5, B, 18, m5.x[t1])
  BY Zenon, <1>5, OnSd DEF m6
<1>7. On(m7, sp, B) /\ Becomes(m7, m6, [m6.x EXCEPT ![t2] = m6.csr["scause"]], m6.csr, m6.mem)
  BY Zenon, <1>6, <1>a, OnCsrr DEF m7
<1>8. On(m8, sp, B) /\ Becomes(m8, m7, m7.x, m7.csr, m8.mem) /\ Set(m8, m7, B, 19, m7.x[t2])
  BY Zenon, <1>7, OnSd DEF m8
<1>9. On(m9, sp, B) /\ Becomes(m9, m8, [m8.x EXCEPT ![t3] = m8.csr["stval"]], m8.csr, m8.mem)
  BY Zenon, <1>8, <1>a, OnCsrr DEF m9
<1>10. On(m10, sp, B) /\ Becomes(m10, m9, m9.x, m9.csr, m10.mem) /\ Set(m10, m9, B, 20, m9.x[t3])
  BY Zenon, <1>9, OnSd DEF m10
<1>11. Becomes(m11, m10, [m10.x EXCEPT ![a0] = B], m10.csr, m10.mem)
  <2>1. Becomes(m11, m10, [m10.x EXCEPT ![a0] = Add(m10.x[sp], 0)], m10.csr, m10.mem)
    BY Zenon, <1>10, DoAddi DEF m11, Mv, On
  <2>2. Add(m10.x[sp], 0) = B
    BY Zenon, <1>10, <1>b DEF On
  <2>3. QED
    BY Zenon, <2>1, <2>2
<1>12. m2.csr = m.csr /\ m4.csr = m.csr /\ m6.csr = m.csr /\ m8.csr = m.csr /\ m11.csr = m.csr
  <2>1. m2.csr = m.csr /\ m4.csr = m2.csr
    BY Zenon, <1>1, <1>2, <1>3, <1>4 DEF Becomes
  <2>2. m6.csr = m4.csr /\ m8.csr = m6.csr
    BY Zenon, <1>5, <1>6, <1>7, <1>8 DEF Becomes
  <2>3. m11.csr = m8.csr
    BY Zenon, <1>9, <1>10, <1>11 DEF Becomes
  <2>4. QED
    BY Zenon, <2>1, <2>2, <2>3
<1>13. Becomes(m11, m, m11.x, m.csr, m11.mem)
  <2>1. Becomes(m4, m, m4.x, m4.csr, m4.mem)
    BY Zenon, <1>1, <1>2, <1>3, <1>4 DEF Becomes
  <2>2. Becomes(m8, m4, m8.x, m8.csr, m8.mem)
    BY Zenon, <1>5, <1>6, <1>7, <1>8 DEF Becomes
  <2>3. Becomes(m11, m8, m11.x, m11.csr, m11.mem)
    BY Zenon, <1>9, <1>10, <1>11 DEF Becomes
  <2>4. QED
    BY Zenon, <2>1, <2>2, <2>3, <1>12 DEF Becomes
<1>14. m11.x[sp] = B /\ m11.x[a0] = B
  BY Zenon, <1>10, <1>11, <1>a DEF On, Becomes, IsHart
<1>15. ASSUME NEW r \in Regs \ (CallerSaved \cup {sp}) PROVE m11.x[r] = m.x[r]
  <2>1. r # sp /\ r # t0 /\ r # t1 /\ r # t2 /\ r # t3 /\ r # a0
    BY RegNumbers DEF CallerSaved
  <2>2. m2.x[r] = m.x[r] /\ m4.x[r] = m2.x[r]
    <3>1. m2.x[r] = m.x[r]
      BY Zenon, <1>1, <1>2, <2>1 DEF Becomes, IsHart
    <3>2. m4.x[r] = m2.x[r]
      BY Zenon, <1>2, <1>3, <1>4, <2>1 DEF Becomes, IsHart
    <3>3. QED
      BY Zenon, <3>1, <3>2
  <2>3. m6.x[r] = m4.x[r]
    BY Zenon, <1>4, <1>5, <1>6, <2>1 DEF Becomes, IsHart, On
  <2>4. m8.x[r] = m6.x[r]
    BY Zenon, <1>6, <1>7, <1>8, <2>1 DEF Becomes, IsHart, On
  <2>5. m10.x[r] = m8.x[r]
    BY Zenon, <1>8, <1>9, <1>10, <2>1 DEF Becomes, IsHart, On
  <2>6. m11.x[r] = m10.x[r]
    BY Zenon, <1>10, <1>11, <2>1 DEF Becomes, IsHart, On
  <2>7. QED
    BY Zenon, <2>2, <2>3, <2>4, <2>5, <2>6
<1>16. m3.x[t0] = m.csr["sstatus"] /\ m5.x[t1] = m.csr["sepc"] /\ m7.x[t2] = m.csr["scause"]
       /\ m9.x[t3] = m.csr["stval"]
  <2>1. m3.x[t0] = m2.csr["sstatus"] /\ m5.x[t1] = m4.csr["sepc"]
    BY Zenon, <1>2, <1>3, <1>4, <1>5 DEF Becomes, IsHart, On
  <2>2. m7.x[t2] = m6.csr["scause"] /\ m9.x[t3] = m8.csr["stval"]
    BY Zenon, <1>6, <1>7, <1>8, <1>9 DEF Becomes, IsHart, On
  <2>3. QED
    BY Zenon, <1>12, <2>1, <2>2
<1>17. ASSUME NEW k \in 0 .. 20
       PROVE  M(m11, B, k) = IF k = 20 THEN m.csr["stval"] ELSE IF k = 19 THEN m.csr["scause"]
                             ELSE IF k = 18 THEN m.csr["sepc"] ELSE IF k = 17 THEN m.csr["sstatus"]
                             ELSE IF k \in 0 .. 16 THEN m1.x[FrameRegs[k]] ELSE M(m, B, k)
  <2>1. k \in Offsets(B)
    BY Zenon, <1>b
  <2>2. M(m2, B, k) = IF k \in 0 .. 16 THEN m1.x[FrameRegs[k]] ELSE M(m, B, k)
    BY SMTT(30), <1>1, <1>2, <2>1, FrameRegsAre DEF Stored, Becomes, M
  <2>3. M(m6, B, k) = IF k = 18 THEN m.csr["sepc"] ELSE IF k = 17 THEN m.csr["sstatus"] ELSE M(m2, B, k)
    <3>1. M(m4, B, k) = IF k = 17 THEN m.csr["sstatus"] ELSE M(m2, B, k)
      BY Zenon, <1>3, <1>4, <1>16, <2>1 DEF Set, Becomes, M
    <3>2. M(m6, B, k) = IF k = 18 THEN m.csr["sepc"] ELSE M(m4, B, k)
      BY Zenon, <1>5, <1>6, <1>16, <2>1 DEF Set, Becomes, M
    <3>3. QED
      BY Zenon, <3>1, <3>2
  <2>4. M(m11, B, k) = IF k = 20 THEN m.csr["stval"] ELSE IF k = 19 THEN m.csr["scause"] ELSE M(m6, B, k)
    <3>1. M(m8, B, k) = IF k = 19 THEN m.csr["scause"] ELSE M(m6, B, k)
      BY Zenon, <1>7, <1>8, <1>16, <2>1 DEF Set, Becomes, M
    <3>2. M(m10, B, k) = IF k = 20 THEN m.csr["stval"] ELSE M(m8, B, k)
      BY Zenon, <1>9, <1>10, <1>16, <2>1 DEF Set, Becomes, M
    <3>3. M(m11, B, k) = M(m10, B, k)
      BY Zenon, <1>11 DEF Becomes, M
    <3>4. QED
      BY Zenon, <3>1, <3>2, <3>3
  <2>5. QED
    BY Zenon, <2>2, <2>3, <2>4
<1>18. Beyond(m11, m, "boot_stack")
  <2>1. Beyond(m2, m, "boot_stack")
    BY Zenon, <1>1, <1>2, <1>b DEF Stored, Becomes, Beyond
  <2>2. Beyond(m6, m2, "boot_stack")
    <3>1. Beyond(m4, m2, "boot_stack")
      BY Zenon, <1>3, <1>4, <1>b DEF Set, Becomes, Beyond
    <3>2. Beyond(m6, m4, "boot_stack")
      BY Zenon, <1>5, <1>6, <1>b DEF Set, Becomes, Beyond
    <3>3. QED
      BY Zenon, <3>1, <3>2 DEF Beyond
  <2>3. Beyond(m11, m6, "boot_stack")
    <3>1. Beyond(m8, m6, "boot_stack")
      BY Zenon, <1>7, <1>8, <1>b DEF Set, Becomes, Beyond
    <3>2. Beyond(m10, m8, "boot_stack")
      BY Zenon, <1>9, <1>10, <1>b DEF Set, Becomes, Beyond
    <3>3. m11.mem = m10.mem
      BY Zenon, <1>11 DEF Becomes
    <3>4. QED
      BY Zenon, <3>1, <3>2, <3>3 DEF Beyond
  <2>4. QED
    BY Zenon, <2>1, <2>2, <2>3 DEF Beyond
<1>19. \A k \in 0 .. 16 : m1.x[FrameRegs[k]] = m.x[FrameRegs[k]]
  <2>1. ASSUME NEW k \in 0 .. 16 PROVE m1.x[FrameRegs[k]] = m.x[FrameRegs[k]]
    <3>1. FrameRegs[k] \in Regs /\ FrameRegs[k] # sp
      BY Zenon, FrameRegsAre
    <3>2. QED
      BY Zenon, <1>1, <3>1 DEF Becomes, IsHart
  <2>2. QED
    BY Zenon, <2>1
<1>20. QED
  <2>1. \A k \in 0 .. 16 : M(m11, B, k) = m.x[FrameRegs[k]]
    BY SMTT(30), <1>17, <1>19
  <2>2. /\ M(m11, B, 17) = m.csr["sstatus"] /\ M(m11, B, 18) = m.csr["sepc"]
        /\ M(m11, B, 19) = m.csr["scause"] /\ M(m11, B, 20) = m.csr["stval"]
    BY <1>17
  <2>3. DetectEntry(m11, m)
    BY Zenon, <1>13, <1>14, <1>15, <1>18, <2>1, <2>2 DEF DetectEntry, B
  <2>4. QED
    BY Zenon, <1>0, <2>3

\* The csrr is four bytes long, whether or not stval reports it.
LEMMA InsnBits ==
  ASSUME NEW rd \in Regs
  PROVE  /\ riscv_illegal_insn_bits(LowerHalf(0)) = 0
         /\ riscv_illegal_insn_bits(LowerHalf(InsnHalf(rd))) = 4
         /\ riscv_illegal_insn_bits(InsnHalf(rd)) = 4
<1> DEFINE n == InsnHalf(rd)
<1>1. n \in Nat /\ n > 0 /\ n = 4 * (28 + 32 * (rd + 64)) + 3 /\ n < 256 * 256
  BY DEF InsnHalf, Regs
<1>2. 28 + 32 * (rd + 64) \in Nat /\ 28 + 32 * (rd + 64) = 8 * (3 + 4 * (rd + 64)) + 4
  BY DEF Regs
<1> HIDE DEF n
<1>3. n % 4 = 3 /\ n \div 4 = 28 + 32 * (rd + 64)
  BY <1>1, <1>2
<1>4. (n \div 4) % 8 = 4
  BY <1>2, <1>3 DEF Regs
<1>5. LowerHalf(n) = n /\ LowerHalf(0) = 0
  BY <1>1 DEF LowerHalf
<1>6. riscv_illegal_insn_bits(n) = 4 /\ riscv_illegal_insn_bits(0) = 0
  BY <1>1, <1>3, <1>4 DEF riscv_illegal_insn_bits
<1>7. QED
  BY Zenon, <1>5, <1>6 DEF n

\* rust_detect_trap: the cause in the place of tp, and the pc moved on by four.
RustDetect(n, m) ==
  /\ Becomes(n, m, n.x, m.csr, n.mem)
  /\ \A r \in Regs \ CallerSaved : n.x[r] = m.x[r]
  /\ \A k \in 0 .. 20 : M(n, ProbeFrame, k) = IF k = 1 THEN M(m, ProbeFrame, 19)
                                              ELSE IF k = 18 THEN Add(M(m, ProbeFrame, 18), 4)
                                              ELSE M(m, ProbeFrame, k)
  /\ Beyond(n, m, "boot_stack")

\* rust_detect_trap changes two words of the frame: tp's, the answer, and sepc's,
\* past the csrr whether stval reports it or not.
LEMMA RustDetectDoes ==
  ASSUME NEW m, IsHart(m), m.x[a0] = ProbeFrame, probe.rd \in Regs,
         M(m, ProbeFrame, 20) \in {Num(0), Num(InsnHalf(probe.rd))}
  PROVE  RustDetect(rust_detect_trap(m), m)
<1> DEFINE F(k) == Add(ProbeFrame, k)
           m1 == Clobber(m, CallerSaved)
           mem1 == [m.mem EXCEPT ![F(1)] = M(m, ProbeFrame, 19)]
           mem2 == [mem1 EXCEPT ![F(18)] = Add(mem1[F(18)], 4)]
           m3 == [m1 EXCEPT !.mem = mem2]
<1>1. rust_detect_trap(m) = m3
  <2> DEFINE v == M(m, ProbeFrame, 20)[2]
  <2>1. v = 0 \/ v = InsnHalf(probe.rd)
    BY DEF Num
  <2> HIDE DEF v
  <2>2. (IF riscv_illegal_insn_bits(LowerHalf(v)) # 0 THEN riscv_illegal_insn_bits(LowerHalf(v))
         ELSE riscv_illegal_insn_bits(InsnHalf(probe.rd))) = 4
    BY Zenon, <2>1, InsnBits
  <2>3. rust_detect_trap(m) =
          [m1 EXCEPT !.mem = [m.mem EXCEPT ![F(1)] = M(m, ProbeFrame, 19), ![F(18)] = Add(@, 4)]]
    BY Zenon, <2>2 DEF rust_detect_trap, M, v
  <2>4. QED
    BY <2>3
<1>2. Becomes(m1, m, m1.x, m.csr, m.mem) /\ \A r \in Regs \ CallerSaved : m1.x[r] = m.x[r]
  BY Zenon DEF Clobber, Becomes, IsHart
<1> HIDE DEF m1
<1>6. ASSUME NEW a \in Addresses
      PROVE  mem2[a] = IF a = F(18) THEN Add(mem1[a], 4) ELSE mem1[a]
  BY Zenon DEF IsHart
<1>7. ASSUME NEW a \in Addresses
      PROVE  mem1[a] = IF a = F(1) THEN M(m, ProbeFrame, 19) ELSE m.mem[a]
  BY Zenon DEF IsHart
<1>3. DOMAIN mem2 = Addresses
  BY Zenon DEF IsHart
<1> HIDE DEF mem1, mem2
<1>4. Becomes(m3, m1, m1.x, m1.csr, mem2)
  BY Zenon, <1>2, <1>3 DEF Becomes, IsHart
<1> HIDE DEF m3
<1>5. /\ Becomes(m3, m, m3.x, m.csr, m3.mem) /\ m3.mem = mem2
      /\ \A r \in Regs \ CallerSaved : m3.x[r] = m.x[r]
  BY Zenon, <1>2, <1>4 DEF Becomes
<1>8. ASSUME NEW j \in 0 .. 20, NEW k \in 0 .. 20, F(j) = F(k) PROVE j = k
  BY <1>8, AddParts, ProbeFrameIs
<1>9. \A k \in 0 .. 20 : F(k) \in Addresses /\ F(k)[1] = "boot_stack"
  BY Zenon, AddParts, ProbeFrameIs DEF Offsets
<1> HIDE DEF F
<1>10. ASSUME NEW k \in 0 .. 20
       PROVE  m3.mem[F(k)] = IF k = 1 THEN M(m, ProbeFrame, 19)
                             ELSE IF k = 18 THEN Add(m.mem[F(18)], 4) ELSE m.mem[F(k)]
  BY SMTT(30), <1>5, <1>6, <1>7, <1>8, <1>9
<1>11. \A k \in 0 .. 20 : M(m3, ProbeFrame, k) = IF k = 1 THEN M(m, ProbeFrame, 19)
                                                 ELSE IF k = 18 THEN Add(M(m, ProbeFrame, 18), 4)
                                                 ELSE M(m, ProbeFrame, k)
  BY Zenon, <1>10 DEF M, F
<1>12. Beyond(m3, m, "boot_stack")
  BY SMTT(30), <1>5, <1>6, <1>7, <1>9 DEF Beyond
<1>13. QED
  BY Zenon, <1>1, <1>5, <1>11, <1>12 DEF RustDetect

\* on_detect_trap from the return of rust_detect_trap to its sret.
DetectExit(n, m) ==
  /\ Becomes(n, m, n.x, n.csr, m.mem)
  /\ n.x[sp] = BootStackTop
  /\ \A k \in 0 .. 16 : n.x[FrameRegs[k]] = M(m, ProbeFrame, k)
  /\ \A r \in Regs \ (CallerSaved \cup {tp, sp}) : n.x[r] = m.x[r]
  /\ n.csr["sstatus"] = M(m, ProbeFrame, 17) /\ n.csr["sepc"] = M(m, ProbeFrame, 18)
  /\ n.csr["scause"] = M(m, ProbeFrame, 19) /\ n.csr["stval"] = M(m, ProbeFrame, 20)
  /\ \A c \in Csrs \ {"sstatus", "sepc", "scause", "stval"} : n.csr[c] = m.csr[c]

\* on_detect_trap restores from the frame what it saved.
LEMMA DetectExitDoes ==
  ASSUME NEW m, IsHart(m), m.x[sp] = ProbeFrame
  PROVE  DetectExit(on_detect_trap_exit(m), m)
<1> DEFINE B == ProbeFrame
           m1 == m ++ Ld(t0, 17, sp)
           m2 == m1 ++ Csrw("sstatus", t0)
           m3 == m2 ++ Ld(t1, 18, sp)
           m4 == m3 ++ Csrw("sepc", t1)
           m5 == m4 ++ Ld(t2, 19, sp)
           m6 == m5 ++ Csrw("scause", t2)
           m7 == m6 ++ Ld(t3, 20, sp)
           m8 == m7 ++ Csrw("stval", t3)
           m9 == m8 ++ FrameLoad(17)
           m10 == m9 ++ Addi(sp, sp, 21)
           from == [r \in {FrameRegs[k] : k \in 0 .. 16} |-> CHOOSE k \in 0 .. 16 : FrameRegs[k] = r]
<1>0. m10 = on_detect_trap_exit(m)
  BY Zenon DEF on_detect_trap_exit
<1>x. FrameLoad(17) = Lds(from, sp)
  BY DEF FrameLoad
<1> HIDE DEF B, m1, m2, m3, m4, m5, m6, m7, m8, m9, m10
<1> USE Named
<1>a. t0 # sp /\ t1 # sp /\ t2 # sp /\ t3 # sp
  BY RegNumbers
<1>b. B[3] \in Int
  BY Zenon, ProbeFrameIs DEF B
<1>c. /\ \A k \in 0 .. 16 : FrameRegs[k] \in DOMAIN from /\ from[FrameRegs[k]] = k
      /\ \A r \in DOMAIN from : r \in CallerSaved \cup {tp} /\ r # sp
  BY SMTT(30), FrameRegsAre
<1> HIDE DEF from
<1>1. On(m1, sp, B) /\ Becomes(m1, m, [m.x EXCEPT ![t0] = M(m, B, 17)], m.csr, m.mem)
  <2>1. On(m, sp, B)
    BY Zenon, <1>b DEF On, B
  <2>2. QED
    BY Zenon, <2>1, <1>a, OnLd DEF m1
<1>2. On(m2, sp, B) /\ Becomes(m2, m1, m1.x, [m1.csr EXCEPT !["sstatus"] = m1.x[t0]], m1.mem)
  BY Zenon, <1>1, OnCsrw DEF m2
<1>3. On(m3, sp, B) /\ Becomes(m3, m2, [m2.x EXCEPT ![t1] = M(m2, B, 18)], m2.csr, m2.mem)
  BY Zenon, <1>2, <1>a, OnLd DEF m3
<1>4. On(m4, sp, B) /\ Becomes(m4, m3, m3.x, [m3.csr EXCEPT !["sepc"] = m3.x[t1]], m3.mem)
  BY Zenon, <1>3, OnCsrw DEF m4
<1>5. On(m5, sp, B) /\ Becomes(m5, m4, [m4.x EXCEPT ![t2] = M(m4, B, 19)], m4.csr, m4.mem)
  BY Zenon, <1>4, <1>a, OnLd DEF m5
<1>6. On(m6, sp, B) /\ Becomes(m6, m5, m5.x, [m5.csr EXCEPT !["scause"] = m5.x[t2]], m5.mem)
  BY Zenon, <1>5, OnCsrw DEF m6
<1>7. On(m7, sp, B) /\ Becomes(m7, m6, [m6.x EXCEPT ![t3] = M(m6, B, 20)], m6.csr, m6.mem)
  BY Zenon, <1>6, <1>a, OnLd DEF m7
<1>8. On(m8, sp, B) /\ Becomes(m8, m7, m7.x, [m7.csr EXCEPT !["stval"] = m7.x[t3]], m7.mem)
  BY Zenon, <1>7, OnCsrw DEF m8
<1>9. Becomes(m9, m8, Load(m8, from, B), m8.csr, m8.mem) /\ m9.x[sp] = B
  <2>1. Becomes(m9, m8, Load(m8, from, B), m8.csr, m8.mem)
    BY Zenon, <1>8, <1>x, DoLds DEF m9, On
  <2>2. QED
    BY Zenon, <1>8, <1>c, <2>1 DEF On, Becomes, Load
<1>10. Becomes(m10, m9, [m9.x EXCEPT ![sp] = BootStackTop], m9.csr, m9.mem)
  <2>1. Becomes(m10, m9, [m9.x EXCEPT ![sp] = Add(m9.x[sp], 21)], m9.csr, m9.mem)
    BY SMTT(30), <1>9, DoAddi DEF m10, Becomes
  <2>2. Add(m9.x[sp], 21) = BootStackTop
    BY Zenon, <1>9, ProbeFrameIs DEF B
  <2>3. QED
    BY Zenon, <2>1, <2>2
<1>11. m2.mem = m.mem /\ m4.mem = m.mem /\ m6.mem = m.mem /\ m8.mem = m.mem /\ m10.mem = m.mem
  <2>1. m2.mem = m.mem /\ m4.mem = m2.mem
    BY Zenon, <1>1, <1>2, <1>3, <1>4 DEF Becomes
  <2>2. m6.mem = m4.mem /\ m8.mem = m6.mem
    BY Zenon, <1>5, <1>6, <1>7, <1>8 DEF Becomes
  <2>3. m10.mem = m8.mem
    BY Zenon, <1>9, <1>10 DEF Becomes
  <2>4. QED
    BY Zenon, <2>1, <2>2, <2>3
<1>12. Becomes(m10, m, m10.x, m10.csr, m.mem)
  <2>1. Becomes(m4, m, m4.x, m4.csr, m4.mem)
    BY Zenon, <1>1, <1>2, <1>3, <1>4 DEF Becomes
  <2>2. Becomes(m8, m4, m8.x, m8.csr, m8.mem)
    BY Zenon, <1>5, <1>6, <1>7, <1>8 DEF Becomes
  <2>3. Becomes(m10, m8, m10.x, m10.csr, m10.mem)
    BY Zenon, <1>9, <1>10 DEF Becomes
  <2>4. QED
    BY Zenon, <2>1, <2>2, <2>3, <1>11 DEF Becomes
<1>13. /\ m1.x[t0] = M(m, B, 17) /\ m3.x[t1] = M(m, B, 18)
       /\ m5.x[t2] = M(m, B, 19) /\ m7.x[t3] = M(m, B, 20)
  <2>1. m1.x[t0] = M(m, B, 17) /\ m3.x[t1] = M(m2, B, 18)
    BY Zenon, <1>1, <1>2, <1>3 DEF Becomes, IsHart, On
  <2>2. m5.x[t2] = M(m4, B, 19) /\ m7.x[t3] = M(m6, B, 20)
    BY Zenon, <1>4, <1>5, <1>6, <1>7 DEF Becomes, IsHart, On
  <2>3. QED
    BY Zenon, <2>1, <2>2, <1>11 DEF M
<1>14. ASSUME NEW c \in Csrs
       PROVE  m10.csr[c] = IF c = "stval" THEN M(m, B, 20) ELSE IF c = "scause" THEN M(m, B, 19)
                           ELSE IF c = "sepc" THEN M(m, B, 18) ELSE IF c = "sstatus" THEN M(m, B, 17)
                           ELSE m.csr[c]
  <2>1. m4.csr[c] = IF c = "sepc" THEN M(m, B, 18) ELSE IF c = "sstatus" THEN M(m, B, 17) ELSE m.csr[c]
    <3>1. m2.csr[c] = IF c = "sstatus" THEN M(m, B, 17) ELSE m.csr[c]
      BY Zenon, <1>1, <1>2, <1>13 DEF Becomes, IsHart, On
    <3>2. m4.csr[c] = IF c = "sepc" THEN M(m, B, 18) ELSE m2.csr[c]
      BY Zenon, <1>3, <1>4, <1>13 DEF Becomes, IsHart
    <3>3. QED
      BY Zenon, <3>1, <3>2
  <2>2. m8.csr[c] = IF c = "stval" THEN M(m, B, 20) ELSE IF c = "scause" THEN M(m, B, 19) ELSE m4.csr[c]
    <3>1. m6.csr[c] = IF c = "scause" THEN M(m, B, 19) ELSE m4.csr[c]
      BY Zenon, <1>5, <1>6, <1>13 DEF Becomes, IsHart
    <3>2. m8.csr[c] = IF c = "stval" THEN M(m, B, 20) ELSE m6.csr[c]
      BY Zenon, <1>7, <1>8, <1>13 DEF Becomes, IsHart
    <3>3. QED
      BY Zenon, <3>1, <3>2
  <2>3. m10.csr[c] = m8.csr[c]
    BY Zenon, <1>9, <1>10 DEF Becomes
  <2>4. QED
    BY Zenon, <2>1, <2>2, <2>3
<1>15. ASSUME NEW k \in 0 .. 16 PROVE m10.x[FrameRegs[k]] = M(m, B, k)
  <2>1. FrameRegs[k] \in Regs /\ FrameRegs[k] # sp
    BY Zenon, FrameRegsAre
  <2>2. m9.x[FrameRegs[k]] = M(m8, B, k)
    BY <1>9, <1>c, <2>1 DEF Becomes, Load, M
  <2>3. m10.x[FrameRegs[k]] = m9.x[FrameRegs[k]]
    BY Zenon, <1>9, <1>10, <2>1 DEF Becomes, IsHart
  <2>4. QED
    BY Zenon, <2>2, <2>3, <1>11 DEF M
<1>16. ASSUME NEW r \in Regs \ (CallerSaved \cup {tp, sp}) PROVE m10.x[r] = m.x[r]
  <2>1. r # sp /\ r # t0 /\ r # t1 /\ r # t2 /\ r # t3
    BY RegNumbers DEF CallerSaved
  <2>2. m4.x[r] = m.x[r]
    <3>1. m1.x[r] = m.x[r] /\ m2.x[r] = m1.x[r]
      BY Zenon, <1>1, <1>2, <2>1 DEF Becomes, IsHart, On
    <3>2. m3.x[r] = m2.x[r] /\ m4.x[r] = m3.x[r]
      BY Zenon, <1>2, <1>3, <1>4, <2>1 DEF Becomes, IsHart
    <3>3. QED
      BY Zenon, <3>1, <3>2
  <2>3. m8.x[r] = m4.x[r]
    <3>1. m5.x[r] = m4.x[r] /\ m6.x[r] = m5.x[r]
      BY Zenon, <1>4, <1>5, <1>6, <2>1 DEF Becomes, IsHart
    <3>2. m7.x[r] = m6.x[r] /\ m8.x[r] = m7.x[r]
      BY Zenon, <1>6, <1>7, <1>8, <2>1 DEF Becomes, IsHart
    <3>3. QED
      BY Zenon, <3>1, <3>2
  <2>4. m9.x[r] = m8.x[r]
    BY Zenon, <1>9, <1>c DEF Becomes, Load
  <2>5. m10.x[r] = m9.x[r]
    BY Zenon, <1>9, <1>10, <2>1 DEF Becomes, IsHart
  <2>6. QED
    BY Zenon, <2>2, <2>3, <2>4, <2>5
<1>17. m10.x[sp] = BootStackTop
  BY Zenon, <1>9, <1>10 DEF Becomes, IsHart
<1>18. QED
  <2>1. /\ m10.csr["sstatus"] = M(m, B, 17) /\ m10.csr["sepc"] = M(m, B, 18)
        /\ m10.csr["scause"] = M(m, B, 19) /\ m10.csr["stval"] = M(m, B, 20)
        /\ \A c \in Csrs \ {"sstatus", "sepc", "scause", "stval"} : m10.csr[c] = m.csr[c]
    BY Zenon, <1>14
  <2>2. DetectExit(m10, m)
    BY Zenon, <1>12, <1>15, <1>16, <1>17, <2>1 DEF DetectExit, B
  <2>3. QED
    BY Zenon, <1>0, <2>2

\* The probe's trap as a whole, up to the sret: nothing but tp, which answers 2,
\* and the pc, behind the csrr, is other than at the trap.
DetectEffect(n, m) ==
  /\ Becomes(n, m, n.x, n.csr, n.mem)
  /\ \A r \in Regs \ {tp} : n.x[r] = m.x[r]
  /\ n.x[tp] = m.csr["scause"] /\ n.csr["sepc"] = Add(m.csr["sepc"], 4)
  /\ \A c \in Csrs \ {"sepc"} : n.csr[c] = m.csr[c]
  /\ Beyond(n, m, "boot_stack")

\* The trap handler of the probe as a whole: tp takes the cause, sepc goes past
\* the csrr, every other register and CSR is as it was.
LEMMA DetectTrapDoes ==
  ASSUME NEW m, IsHart(m), m.x[sp] = BootStackTop, probe.rd \in Regs,
         m.csr["stval"] \in {Num(0), Num(InsnHalf(probe.rd))}
  PROVE  DetectEffect(on_detect_trap_exit(rust_detect_trap(on_detect_trap_entry(m))), m)
<1> DEFINE m1 == on_detect_trap_entry(m)
           m2 == rust_detect_trap(m1)
           m3 == on_detect_trap_exit(m2)
<1> SUFFICES DetectEffect(m3, m)
  OBVIOUS
<1> HIDE DEF m1, m2, m3
<1>a. sp \notin CallerSaved /\ sp # tp /\ tp \notin CallerSaved /\ tp \in Regs /\ sp \in Regs
  BY RegNumbers DEF CallerSaved, Regs
<1>1. DetectEntry(m1, m)
  BY Zenon, DetectEntryDoes DEF m1
<1>2. RustDetect(m2, m1)
  <2>1. IsHart(m1) /\ m1.x[a0] = ProbeFrame /\ M(m1, ProbeFrame, 20) = m.csr["stval"]
    BY Zenon, <1>1 DEF DetectEntry, Becomes
  <2>2. QED
    BY Zenon, <2>1, RustDetectDoes DEF m2
<1>3. DetectExit(m3, m2)
  <2>1. IsHart(m2) /\ m2.x[sp] = ProbeFrame
    BY Zenon, <1>1, <1>2, <1>a DEF RustDetect, DetectEntry, Becomes
  <2>2. QED
    BY Zenon, <2>1, DetectExitDoes DEF m3
<1>4. Becomes(m3, m, m3.x, m3.csr, m3.mem)
  BY Zenon, <1>1, <1>2, <1>3 DEF DetectEntry, RustDetect, DetectExit, Becomes
<1>5. ASSUME NEW k \in 0 .. 16
      PROVE  m3.x[FrameRegs[k]] = IF k = 1 THEN m.csr["scause"] ELSE m.x[FrameRegs[k]]
  <2>1. m3.x[FrameRegs[k]] = M(m2, ProbeFrame, k)
    BY Zenon, <1>3 DEF DetectExit
  <2>2. M(m2, ProbeFrame, k) = IF k = 1 THEN M(m1, ProbeFrame, 19) ELSE M(m1, ProbeFrame, k)
    BY <1>2 DEF RustDetect
  <2>3. M(m1, ProbeFrame, k) = m.x[FrameRegs[k]] /\ M(m1, ProbeFrame, 19) = m.csr["scause"]
    BY Zenon, <1>1 DEF DetectEntry
  <2>4. QED
    BY Zenon, <2>1, <2>2, <2>3
<1>6. ASSUME NEW r \in Regs, r # tp PROVE m3.x[r] = m.x[r]
  <2>1. CASE r \in CallerSaved
    <3>1. PICK k \in 0 .. 16 : FrameRegs[k] = r
      BY Zenon, <2>1, FrameRegsAre
    <3>2. k # 1
      BY Zenon, <3>1, <1>6, FrameRegsAre
    <3>3. QED
      BY Zenon, <1>5, <3>1, <3>2
  <2>2. CASE r = sp
    BY Zenon, <1>3, <2>2 DEF DetectExit
  <2>3. CASE r \notin CallerSaved /\ r # sp
    BY Zenon, <1>1, <1>2, <1>3, <1>6, <2>3 DEF DetectEntry, RustDetect, DetectExit
  <2>4. QED
    BY Zenon, <2>1, <2>2, <2>3
<1>7. m3.x[tp] = m.csr["scause"]
  BY SMTT(30), <1>5, FrameRegsAre
<1>8. /\ M(m2, ProbeFrame, 17) = m.csr["sstatus"] /\ M(m2, ProbeFrame, 18) = Add(m.csr["sepc"], 4)
      /\ M(m2, ProbeFrame, 19) = m.csr["scause"] /\ M(m2, ProbeFrame, 20) = m.csr["stval"]
  <2>1. \A k \in 0 .. 20 : M(m2, ProbeFrame, k) = IF k = 1 THEN M(m1, ProbeFrame, 19)
                                                ELSE IF k = 18 THEN Add(M(m1, ProbeFrame, 18), 4)
                                                ELSE M(m1, ProbeFrame, k)
    BY Zenon, <1>2 DEF RustDetect
  <2>2. /\ M(m2, ProbeFrame, 17) = M(m1, ProbeFrame, 17)
        /\ M(m2, ProbeFrame, 18) = Add(M(m1, ProbeFrame, 18), 4)
        /\ M(m2, ProbeFrame, 19) = M(m1, ProbeFrame, 19)
        /\ M(m2, ProbeFrame, 20) = M(m1, ProbeFrame, 20)
    BY <2>1
  <2>3. QED
    BY Zenon, <1>1, <2>2 DEF DetectEntry
<1>9. ASSUME NEW c \in Csrs
      PROVE  m3.csr[c] = IF c = "sepc" THEN Add(m.csr["sepc"], 4) ELSE m.csr[c]
  <2>1. m2.csr = m.csr
    BY Zenon, <1>1, <1>2 DEF DetectEntry, RustDetect, Becomes
  <2>2. QED
    BY Zenon, <1>3, <1>8, <2>1 DEF DetectExit
<1>10. Beyond(m3, m, "boot_stack")
  <2>1. Beyond(m1, m, "boot_stack") /\ Beyond(m2, m1, "boot_stack") /\ m3.mem = m2.mem
    BY Zenon, <1>1, <1>2, <1>3 DEF DetectEntry, RustDetect, DetectExit, Becomes
  <2>2. QED
    BY Zenon, <2>1 DEF Beyond
<1>11. QED
  BY Zenon, <1>4, <1>6, <1>7, <1>9, <1>10, Named DEF DetectEffect

=============================================================================
