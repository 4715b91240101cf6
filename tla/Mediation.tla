----------------------------- MODULE Mediation -----------------------------
(***************************************************************************)
(* What the notify loop promises, without how: a monitor keeps a ledger of *)
(* decisions and lets decided calls act.                                   *)
(*                                                                         *)
(*   - The ledger only grows, one entry per call, in the order in which    *)
(*     the calls were made ("decision order", docs/design/trace.md).       *)
(*   - A call acts only after an entry that permits it, and once.          *)
(*   - It acts on the operands of its entry, unless it was handed back to  *)
(*     the kernel, which reads its arguments again, or goes by a name that *)
(*     somebody else has moved in the meantime.                            *)
(*   - A monitor that has halted decides nothing more.                     *)
(***************************************************************************)
EXTENDS Naturals, Sequences

VARIABLES
    ledger,    \* entries: id, permits, operands, named (acts by name),
               \* delegated (handed back)
    acts,      \* what took effect, in order: id, operands, moved (the name was)
    halted

vars == <<ledger, acts, halted>>

Init == ledger = <<>> /\ acts = <<>> /\ halted = FALSE

\* One element is added at the end.
Grows(old, new) == Len(new) = Len(old) + 1 /\ SubSeq(new, 1, Len(old)) = old
Newest(s) == s[Len(s)]

Decide ==
    /\ ~halted
    /\ Grows(ledger, ledger')
    /\ \A i \in DOMAIN ledger : ledger[i].id < Newest(ledger').id
    /\ UNCHANGED <<acts, halted>>

\* The entry covers the act.
Covers(entry, act) ==
    /\ entry.id = act.id /\ entry.permits
    /\ \/ entry.operands = act.operands
       \/ entry.delegated
       \/ entry.named /\ act.moved

Act ==
    /\ Grows(acts, acts')
    /\ \E i \in DOMAIN ledger : Covers(ledger[i], Newest(acts'))
    /\ \A i \in DOMAIN acts : acts[i].id # Newest(acts').id
    /\ UNCHANGED <<ledger, halted>>

Halt == ~halted /\ halted' = TRUE /\ UNCHANGED <<ledger, acts>>

Next == Decide \/ Act \/ Halt

Spec == Init /\ [][Next]_vars
=============================================================================
