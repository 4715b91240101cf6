------------------------------ MODULE ChildMem ------------------------------
(***************************************************************************)
(* Bounded reads of the child's memory (supervisor/mem.rs): the string     *)
(* read of paths, read_cstr_capped, and the fixed-size read of structures  *)
(* and payloads, read_exact_capped.  A byte is zero or not.  The memory is *)
(* the child's: another of its threads may take its pages away at any step.*)
(***************************************************************************)
EXTENDS Integers, Sequences, FiniteSets, FiniteSetsExt

CONSTANTS
    PAGE,      \* bytes of a page
    Pages,     \* bound: pages of the child's memory
    Caps       \* the caps and the lengths tried

Bytes == 0 .. PAGE * Pages - 1
PageOf(pos) == pos \div PAGE

VARIABLES
    memory,    \* the bytes, each 0 or 1
    mapped,    \* the pages that are there
    read       \* kind, addr, cap; out: bytes kept; want, got: the current chunk; pc; result

vars == <<memory, mapped, read>>

Start(kind, addr, cap) ==
    [kind |-> kind, addr |-> addr, cap |-> cap, out |-> 0, want |-> 0, got |-> 0,
     pc |-> "loop", result |-> "none"]

Init ==
    /\ memory \in [Bytes -> {0, 1}] /\ mapped \in SUBSET (0 .. Pages - 1)
    /\ \E kind \in {"cstr", "exact"}, addr \in 0 .. PAGE, cap \in Caps :
          read = Start(kind, addr, cap)

End(result) == read' = [read EXCEPT !.pc = "done", !.result = result]

\* The bytes of the current chunk that have arrived, up to the first zero.
ChunkStart == read.addr + read.out
Zeros == {i \in 0 .. read.got - 1 : memory[ChunkStart + i] = 0}

-----------------------------------------------------------------------------
(***************************************************************************)
(* read_cstr_capped.  A chunk ends at the page or at the cap.              *)
(***************************************************************************)

\* Mutant of ChunkSize: the rest of the cap is asked for at once.
ChunkWhole == read.cap - read.out

ChunkSize ==
    LET to_page == PAGE - (ChunkStart % PAGE)
        left    == read.cap - read.out
    IN  IF to_page < left THEN to_page ELSE left

\* The next turn of the outer loop; at the cap there was no nul.
NextChunk ==
    /\ read.kind = "cstr" /\ read.pc = "loop"
    /\ IF read.out < read.cap
       THEN read' = [read EXCEPT !.pc = "fill", !.want = ChunkSize, !.got = 0]
       ELSE End("error")
    /\ UNCHANGED <<memory, mapped>>

\* read_exact_capped has one chunk, all of it.
WholeChunk ==
    /\ read.kind = "exact" /\ read.pc = "loop"
    /\ read' = [read EXCEPT !.pc = "fill", !.want = read.cap]
    /\ UNCHANGED <<memory, mapped>>

\* One read_at, external: it delivers some of the bytes asked for, or fails when
\* one of them is not mapped.  A child that is gone has no page left; a read of
\* length 0 then ends as a failure does.
Readable(pos) == pos \in Bytes /\ PageOf(pos) \in mapped
Asked == ChunkStart + read.got .. ChunkStart + read.want - 1

Deliver ==
    /\ read.pc = "fill" /\ read.got < read.want
    /\ \E n \in 1 .. read.want - read.got :
          /\ \A pos \in ChunkStart + read.got .. ChunkStart + read.got + n - 1 : Readable(pos)
          /\ read' = [read EXCEPT !.got = @ + n]
    /\ UNCHANGED <<memory, mapped>>

\* What has arrived is scanned before the failure is surfaced.
Fail ==
    /\ read.pc = "fill" /\ read.got < read.want
    /\ \E pos \in Asked : ~Readable(pos)
    /\ IF read.kind = "cstr" /\ Zeros # {}
       THEN read' = [read EXCEPT !.pc = "done", !.result = "ok", !.out = @ + Min(Zeros)]
       ELSE End("error")
    /\ UNCHANGED <<memory, mapped>>

\* The chunk is full: the nul is in it, or it is kept and the loop goes on.
Filled ==
    /\ read.pc = "fill" /\ read.got = read.want
    /\ read' = IF read.kind = "exact"
               THEN [read EXCEPT !.pc = "done", !.result = "ok", !.out = read.got]
               ELSE IF Zeros # {}
               THEN [read EXCEPT !.pc = "done", !.result = "ok", !.out = @ + Min(Zeros)]
               ELSE [read EXCEPT !.pc = "loop", !.out = @ + read.got]
    /\ UNCHANGED <<memory, mapped>>

\* Another thread of the child unmaps pages, or the child dies.
Unmap ==
    /\ read.pc # "done"
    /\ mapped' \in SUBSET mapped /\ mapped' # mapped
    /\ UNCHANGED <<memory, read>>

Next == NextChunk \/ WholeChunk \/ Deliver \/ Fail \/ Filled \/ Unmap
=============================================================================
