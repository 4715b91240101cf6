------------------------------- MODULE Filter -------------------------------
(***************************************************************************)
(* The seccomp program (sandbox/filter.rs) and the dispatch of what it     *)
(* notifies (handle_notification in supervisor/run.rs).  A system call is  *)
(* the words of seccomp_data the program loads; the kernel's interpreter   *)
(* takes one instruction per step, then the supervisor picks a handler.    *)
(***************************************************************************)
EXTENDS Integers, Sequences, SequencesExt

CONSTANT Calls  \* the system calls tried: records of the words in Word

\* The loaded words: the number, the architecture, the two halves of the fifth
\* argument.
Word == {"NR", "ARCH", "SENDTO_DEST_LO", "SENDTO_DEST_HI"}

\* 0xc000003e without its two flag bits, which exceed TLC's integers.
AUDIT_ARCH_X86_64 == 62
X32_SYSCALL_BIT == 2^30

\* The numbers of filter.rs, by the family the supervisor handles them in.
FsNumbers ==
    << 2, 85, 257, 437,                                      \* path-introducing
       76, 82, 83, 84, 86, 87, 88, 90, 92, 258, 260, 263,    \* mutation
       264, 265, 266, 268, 316 >>
CLONES == <<56, 57, 58>>
EXECVE == 59
EXECVEAT == 322
CLONE3 == 435
CrossProcess == <<101, 310, 311>>
CONNECT == 42
SENDTO == 44
BIND == 49

MEDIATED ==
    FsNumbers \o CLONES \o <<EXECVE, EXECVEAT, CLONE3>> \o CrossProcess
        \o <<CONNECT, SENDTO, BIND>>
DENIED_RECORDED == <<438, 425, 426, 427>>

Tabled == MEDIATED \o DENIED_RECORDED

-----------------------------------------------------------------------------
(***************************************************************************)
(* build_filter.  Program counters start at 0; an offset is a byte and     *)
(* counts from the next instruction.                                       *)
(***************************************************************************)

Instr(code, jt, jf, k) == [code |-> code, jt |-> jt, jf |-> jf, k |-> k]
Load(word) == Instr("ld", 0, 0, word)
Return(value) == Instr("ret", 0, 0, value)

\* The four instructions of the header, one for each number, four more for
\* sendto, the two returns.
len == 4 + Len(Tabled) + 4 + 2
allow_pc == len - 2
notif_pc == len - 1
jump_to_notif(from_pc) == (notif_pc - from_pc - 1) % 256
jump_to_allow(from_pc) == (allow_pc - from_pc - 1) % 256

\* The counter of the i-th number's first instruction.
SendtoAt == CHOOSE j \in DOMAIN Tabled : Tabled[j] = SENDTO
PcOf(i) == 4 + (i - 1) + IF i > SendtoAt THEN 4 ELSE 0

\* Mutant of SendtoBlock: a call without the number is sent past one
\* instruction too few.
SendtoBlockShort(pc) ==
    << Instr("jeq", 0, 3, SENDTO),
       Load("SENDTO_DEST_LO"), Instr("jeq", 0, jump_to_notif(pc + 2), 0),
       Load("SENDTO_DEST_HI"),
       Instr("jeq", jump_to_allow(pc + 4), jump_to_notif(pc + 4), 0) >>

\* A sendto on a connected socket has a null destination, both halves of it.
SendtoBlock(pc) ==
    << Instr("jeq", 0, 4, SENDTO),
       Load("SENDTO_DEST_LO"), Instr("jeq", 0, jump_to_notif(pc + 2), 0),
       Load("SENDTO_DEST_HI"),
       Instr("jeq", jump_to_allow(pc + 4), jump_to_notif(pc + 4), 0) >>

Block(i) ==
    IF Tabled[i] = SENDTO THEN SendtoBlock(PcOf(i))
    ELSE <<Instr("jeq", jump_to_notif(PcOf(i)), 0, Tabled[i])>>

Header ==
    << Load("ARCH"), Instr("jeq", 0, jump_to_notif(1), AUDIT_ARCH_X86_64),
       Load("NR"), Instr("jset", jump_to_notif(3), 0, X32_SYSCALL_BIT) >>

\* The number whose block the instruction at a counter belongs to.
Owner(pc) ==
    CHOOSE i \in DOMAIN Tabled : PcOf(i) <= pc /\ pc < PcOf(i) + Len(Block(i))

\* Header, blocks and returns, one after the other.
build_filter ==
    [n \in 1 .. len |->
        IF n <= 4 THEN Header[n]
        ELSE IF n <= allow_pc THEN Block(Owner(n - 1))[n - PcOf(Owner(n - 1))]
        ELSE <<Return("allow"), Return("notif")>>[n - allow_pc]]

-----------------------------------------------------------------------------
(***************************************************************************)
(* handle_notification: the tables are consulted in this order.            *)
(***************************************************************************)

HasBit(nr, bit) == (nr \div bit) % 2 = 1

\* Mutant of is_network: a bind is not one.
NetworkNoBind(nr) == nr \in {CONNECT, SENDTO}

is_network(nr) == nr \in {CONNECT, SENDTO, BIND}
is_process_creation(nr) == nr \in ToSet(CLONES) \cup {CLONE3}
is_cross_process(nr) == nr \in ToSet(CrossProcess)

\* fs_shape: the numbers with a filesystem shape.
fs_shape(nr) == nr \in ToSet(FsNumbers)

\* A sendto without a destination is let through unrecorded (handle_network).
DestIsNull(data) == data.SENDTO_DEST_LO = 0 /\ data.SENDTO_DEST_HI = 0

handle_notification(data) ==
    LET nr == data.NR
    IN  IF data.ARCH # AUDIT_ARCH_X86_64 \/ HasBit(nr, X32_SYSCALL_BIT) THEN "foreign_abi"
        ELSE IF nr \in ToSet(DENIED_RECORDED) THEN "denied_recorded"
        ELSE IF fs_shape(nr) THEN "fs"
        ELSE IF nr \in {EXECVE, EXECVEAT} THEN "exec"
        ELSE IF is_process_creation(nr) THEN "process"
        ELSE IF is_network(nr)
             THEN IF nr = SENDTO /\ DestIsNull(data) THEN "unrecorded" ELSE "network"
        ELSE IF is_cross_process(nr) THEN "cross_process"
        ELSE "unrecorded"

-----------------------------------------------------------------------------

VARIABLES
    program,  \* the installed filter
    run       \* data, pc, acc, ret ("none" until a return), handler

vars == <<program, run>>

\* A system call enters the kernel.
Start(data) == [data |-> data, pc |-> 0, acc |-> 0, ret |-> "none", handler |-> "none"]

Init == program = build_filter /\ run \in {Start(data) : data \in Calls}

\* One instruction.
Step ==
    /\ run.ret = "none"
    /\ LET instr == program[run.pc + 1]
           Jump(taken) == [run EXCEPT !.pc = @ + 1 + IF taken THEN instr.jt ELSE instr.jf]
       IN  run' = CASE instr.code = "ld"   -> [run EXCEPT !.pc = @ + 1,
                                                          !.acc = run.data[instr.k]]
                    [] instr.code = "jeq"  -> Jump(run.acc = instr.k)
                    [] instr.code = "jset" -> Jump(HasBit(run.acc, instr.k))
                    [] instr.code = "ret"  -> [run EXCEPT !.ret = instr.k]
    /\ UNCHANGED program

\* The supervisor receives the notification.
Dispatch ==
    /\ run.ret = "notif" /\ run.handler = "none"
    /\ run' = [run EXCEPT !.handler = handle_notification(run.data)]
    /\ UNCHANGED program

Next == Step \/ Dispatch
=============================================================================
