------------------------------ MODULE MCLeaves ------------------------------
(***************************************************************************)
(* The routines at the leaves of the notify loop, each as a machine of its *)
(* own, against what the loop takes for granted of them: the seccomp       *)
(* program that sorts the calls and the dispatch of what it notifies, the  *)
(* reads of the child's memory, the walk of the process tree, the prompt,  *)
(* and the glob matcher of the policy's rules, whose patterns Landlock's   *)
(* hull is built from too.  A behaviour runs one of them; the others keep  *)
(* still.                                                                  *)
(***************************************************************************)
EXTENDS Integers, Sequences, FiniteSets, SequencesExt

CONSTANTS
    SysCalls,                                   \* Filter
    PAGE, Pages, Caps,                          \* ChildMem
    Pids, root, Outsiders, MaxHops,             \* ProcessTree
    Timeout, MAX_ANSWER,                        \* AskPrompt
    Inputs, Workspace, Home,                    \* Glob
    Leaves                                      \* the machines that run

ASSUME LeavesAssumption ==
    /\ PAGE \in Nat \ {0} /\ Pages \in Nat /\ Caps \subseteq Nat
    /\ Pids \subseteq Nat \ {0, 1} /\ root \in Pids
    /\ Outsiders \subseteq Pids \ {root} /\ Outsiders # {}
    /\ MaxHops \in Nat \ {0}
    /\ Timeout \in Nat /\ MAX_ANSWER \in Nat \ {0}

VARIABLES
    leaf,                                       \* the one that runs
    program, run,                               \* Filter
    memory, mapped, read,                       \* ChildMem
    parent, born, used, walk,                   \* ProcessTree
    prompt, terminal,                           \* AskPrompt
    raw, path, pattern, segments, text,         \* Glob
    pc, outer, inner, result

\* Every number around the tables, on both architectures, as x32 or not, with
\* every shape of a destination pointer.
MCCalls ==
    {[NR |-> n, ARCH |-> 62, SENDTO_DEST_LO |-> 1, SENDTO_DEST_HI |-> 0] : n \in 0 .. 450}
    \cup {[NR |-> n, ARCH |-> a, SENDTO_DEST_LO |-> lo, SENDTO_DEST_HI |-> hi] :
             n \in {44, 45, 2^30 + 44}, a \in {62, 3}, lo \in {0, 1}, hi \in {0, 1}}

Filter == INSTANCE Filter WITH Calls <- SysCalls
Mem == INSTANCE ChildMem
Tree == INSTANCE ProcessTree
Ask == INSTANCE AskPrompt
Glob == INSTANCE Glob
Landlock == INSTANCE Landlock

\* The words of a call are words; patterns and paths are texts, and the tokens
\* stand for absolute paths.
ASSUME InputsAssumption ==
    /\ SysCalls \subseteq [Filter!Word -> Nat]
    /\ Inputs \subseteq Seq(STRING) \X Seq(STRING)
    /\ \A dir \in {Workspace, Home} : dir \in Seq(STRING) /\ dir # <<>> /\ dir[1] = "/"

\* Every short pattern against every short path, for the compiler and the loop
\* over characters.  Bounds: their length.
MaxPattern == 4
MaxPath == 3

ShortPatterns ==
    SeqOf({"a", "*", "?", "/"}, MaxPattern)
        \cup {<<"[", "a">>, <<"!", "a">>, <<"a", "!">>}
ShortPaths == SeqOf({"a", "b", "/"}, MaxPath)

\* Pieces joined by separators, for the loop over components with several double
\* stars.  Bounds: the segments of a pattern, the components of a path.
MaxSegments == 4
MaxComponents == 4

Join(pieces) ==
    Tail(FoldSeq(LAMBDA piece, s : s \o <<"/">> \o piece, <<>>, pieces))
Joined(pieces, n) == {Join(s) : s \in SeqOf(pieces, n) \ {<<>>}}

LongPatterns ==
    Joined({<<"*", "*">>, <<"a">>, <<"a", "*">>}, MaxSegments)
LongPaths == Joined({<<"a">>, <<"b">>, <<"a", "b">>}, MaxComponents)

MCWorkspace == <<"/", "a">>
MCHome == <<"/", "b">>

\* A token with every short rest, against the short paths below the two
\* directories and beside them.
TokenPatterns ==
    {<<t>> \o rest : t \in {"{workspace}", "~"},
                     rest \in SeqOf({"a", "*", "/", "{workspace}", "~"}, 3)}
        \cup {<<"a", "{workspace}">>, <<"/", "~">>}
TokenPaths ==
    {p \o rest : p \in {MCWorkspace, MCHome}, rest \in SeqOf({"a", "b", "/", "~"}, 2)}

MCInputs ==
    (ShortPatterns \X ShortPaths) \cup (LongPatterns \X LongPaths)
        \cup (TokenPatterns \X TokenPaths)

filterVars == <<program, run>>
memVars == <<memory, mapped, read>>
treeVars == <<parent, born, used, walk>>
askVars == <<prompt, terminal>>
globVars == <<raw, path, pattern, segments, text, pc, outer, inner, result>>
vars == <<leaf, filterVars, memVars, treeVars, askVars, globVars>>

NoCall == Filter!Start([w \in Filter!Word |-> 0])
FilterIdle == program = <<>> /\ run = NoCall
MemIdle ==
    /\ memory = <<>> /\ mapped = {} /\ read = Mem!Start("cstr", 0, 0)
TreeIdle == parent = <<>> /\ born = {} /\ used = {} /\ walk = Tree!Idle
AskIdle == prompt = Ask!Failed /\ terminal = "none"
GlobIdle ==
    /\ raw = <<>> /\ path = <<>> /\ pattern = <<>> /\ segments = <<>> /\ text = <<>>
    /\ pc = "idle" /\ outer = Glob!Start /\ inner = Glob!Start /\ result = FALSE

Init ==
    /\ leaf \in Leaves
    /\ IF leaf = "filter" THEN Filter!Init ELSE FilterIdle
    /\ IF leaf = "mem" THEN Mem!Init ELSE MemIdle
    /\ IF leaf = "tree" THEN Tree!Init ELSE TreeIdle
    /\ IF leaf = "ask" THEN Ask!Init ELSE AskIdle
    /\ IF leaf = "glob" THEN Glob!Init ELSE GlobIdle

\* The machine that runs has come to its end.
Ended ==
    \/ leaf = "filter" /\ (run.ret = "allow" \/ run.handler # "none")
    \/ leaf = "mem" /\ read.pc = "done"
    \/ leaf = "tree" /\ walk.pc = "done"
    \/ leaf = "ask" /\ prompt.pc = "done"
    \/ leaf = "glob" /\ pc \in {"rejected", "done"}

Next ==
    \/ leaf = "filter" /\ Filter!Next /\ UNCHANGED <<leaf, memVars, treeVars, askVars, globVars>>
    \/ leaf = "mem" /\ Mem!Next /\ UNCHANGED <<leaf, filterVars, treeVars, askVars, globVars>>
    \/ leaf = "tree" /\ Tree!Next /\ UNCHANGED <<leaf, filterVars, memVars, askVars, globVars>>
    \/ leaf = "ask" /\ Ask!Next /\ UNCHANGED <<leaf, filterVars, memVars, treeVars, globVars>>
    \/ leaf = "glob" /\ Glob!Next /\ UNCHANGED <<leaf, filterVars, memVars, treeVars, askVars>>
    \/ Ended /\ UNCHANGED vars

\* The supervisor's thread runs its loops and time passes; that a signal, an
\* answer or an error ever comes is not assumed.
Spec ==
    /\ Init /\ [][Next]_vars
    /\ WF_askVars(Ask!Loop) /\ WF_askVars(Ask!Tick)
    /\ WF_globVars(Glob!Next)

-----------------------------------------------------------------------------

\* The program sorts every call as the tables say: on every path through its
\* byte-sized jumps a tabled number, an x32 number and a foreign architecture
\* are notified, a sendto only when one half of its destination pointer is not
\* zero, and nothing else is (build_filter; syscalls.md sections 3 and 5).
RoutedAsTabled ==
    (leaf = "filter" /\ run.ret # "none") =>
        LET call == run.data
        IN  (run.ret = "notif") <=>
                \/ call.ARCH # Filter!AUDIT_ARCH_X86_64
                \/ Filter!HasBit(call.NR, Filter!X32_SYSCALL_BIT)
                \/ /\ \E i \in DOMAIN Filter!Tabled : Filter!Tabled[i] = call.NR
                   /\ call.NR = Filter!SENDTO => ~Filter!DestIsNull(call)

\* What the program notifies is decided: no notified call falls through the
\* tables of handle_notification to a CONTINUE that no event records, and a
\* number of another ABI is never read against the x86-64 tables
\* (handle_notification, fs_shape; syscalls.md section 5).
NotifiedIsDecided ==
    run.handler # "none" =>
        /\ run.handler # "unrecorded"
        /\ run.handler = "foreign_abi" <=>
              \/ run.data.ARCH # Filter!AUDIT_ARCH_X86_64
              \/ Filter!HasBit(run.data.NR, Filter!X32_SYSCALL_BIT)

\* A read delivers the value or an error, never a part: a string is what stands
\* before the first nul and is delivered exactly when the nul comes within the
\* cap and everything before it can be read, however close to the end of a
\* mapping or to the cap; a fixed-size value is delivered whole.  A read that
\* ends in an error names a value that cannot be read at that moment, although
\* pages are taken away meanwhile (read_cstr_capped, read_exact_capped).
ReadIsExact ==
    (leaf = "mem" /\ read.pc = "done") =>
        LET Clear(n) == \A k \in 0 .. n - 1 : memory[read.addr + k] # 0
            lengths  == {n \in 0 .. read.cap - 1 :
                            /\ read.addr + n \in Mem!Bytes
                            /\ memory[read.addr + n] = 0 /\ Clear(n)}
            value    == IF read.kind = "exact" THEN {read.cap} ELSE lengths
            last     == IF read.kind = "exact" THEN read.cap - 1 ELSE Min(lengths)
        IN  /\ read.result = "ok" => read.out \in value
            /\ read.result = "error" =>
                  \/ value = {}
                  \/ \E k \in 0 .. last : ~Mem!Readable(read.addr + k)

\* The lines of k parents from a process to the root.
Lineages(p, k) ==
    {line \in [0 .. k -> Pids] :
        /\ line[0] = p /\ line[k] = root
        /\ \A i \in 0 .. k - 1 : parent[line[i]] = line[i + 1]}

\* The walk never takes a stranger for a member, however processes fork, exit
\* and are handed to init between two of its reads; and while nothing changes
\* it finds every member that is not deeper than its bound
\* (process_in_tree; handle_cross_process lets a member's call through).
TreeWalkIsSound ==
    (leaf = "tree" /\ walk.pc = "done") =>
        /\ walk.result => walk.target \in born
        /\ (walk.quiet /\ \E k \in 0 .. MaxHops - 1 : Lineages(walk.target, k) # {})
              => walk.result

\* ask.rs: "the timeout must never deny a hair early".  A prompt is stamped
\* timed out only when its deadline has passed, although poll counts whole
\* milliseconds (read_line).
TimeoutNotEarly == prompt.result = "timed_out" => prompt.left = 0

AskEnds == <>(leaf = "ask" => prompt.pc = "done")

\* ask.rs: "the timeout is a deadline, not a per-read budget, so a signal stream
\* cannot stretch the wait".  The prompt ends whatever signals come and however
\* little is answered, unless its read is left without the input that poll had
\* announced (read_line).
PromptEnds == []~(prompt.pc = "read" /\ terminal = "none") => AskEnds

\* ask.rs: "the timeout is what bounds the whole-tree stall (ADR-0011)": the
\* prompt ends (read_line).
TimeoutBoundsStall == AskEnds

-----------------------------------------------------------------------------

\* Going back to the last star only, at both levels, loses no match and
\* invents none: is_match answers what the pattern means (match_segments and
\* units_match, which remember one star each).
MatchIsMeaning == pc = "done" => (result <=> Glob!Means(segments, text))

\* The matcher is total: on every pattern that compiles it returns, whatever
\* the path, although it goes back (glob.rs: "it is total").
Total == <>(pc \in {"idle", "rejected", "done"})

\* Checking the runs of stars before splitting is enough: once a pattern is
\* accepted, two adjacent stars are a segment of their own, so reading a bare
\* double star as DoubleStar is unambiguous (Glob::compile).
DoubleStarStandsAlone ==
    pc \notin {"idle", "compile", "rejected"} =>
        \A k \in DOMAIN segments : segments[k] # Glob!DoubleStar =>
            \A i \in 1 .. Len(segments[k]) - 1 :
                segments[k][i] # "*" \/ segments[k][i + 1] # "*"

Absolute(s) == s # <<>> /\ s[1] = Glob!Separator

\* A path at or below a directory: the components of the one are the first
\* components of the other.
Beneath(dir, p) == IsPrefix(Glob!Split(dir), Glob!Split(p))

\* The hull covers the glob: an absolute path that a pattern matches lies at or
\* beneath the hierarchy root Landlock is given for that pattern, wherever in a
\* component its first metacharacter is (hierarchy_root_from_glob; policy.md
\* section 6: the hull "is a superset").
RootCoversMatches ==
    (pc = "done" /\ result /\ Absolute(path)) =>
        LET hull == Landlock!hierarchy_root_from_glob(pattern)
        IN  Absolute(hull) /\ (hull = <<Glob!Separator>> \/ Beneath(hull, path))

\* A pattern written with a token matches nothing outside the directory the
\* token stands for, and a name that merely starts like one is refused, not
\* expanded (expand).  The two directories hold no metacharacter here.
TokenStaysBeneath ==
    (pc = "done" /\ result /\ raw[1] \in {Glob!WS, "~"}) =>
        Beneath(IF raw[1] = Glob!WS THEN Workspace ELSE Home, path)
=============================================================================
