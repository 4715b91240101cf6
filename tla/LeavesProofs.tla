---------------------------- MODULE LeavesProofs ----------------------------
(***************************************************************************)
(* Proofs about the routines at the leaves of the notify loop, for every   *)
(* memory layout, process table and deadline, and about the seccomp        *)
(* program, for every system call.                                         *)
(***************************************************************************)
EXTENDS MCLeaves, TLAPS, WellFoundedInduction, SequenceTheorems

-----------------------------------------------------------------------------
(***************************************************************************)
(* The prompt.                                                             *)
(***************************************************************************)

\* The fields of a prompt.
Prompts ==
    [left : Nat, budget : Nat, pc : {"check", "poll", "read", "done"}, size : Nat,
     text : Ask!Text, result : {"none", "approved", "denied", "timed_out"}]

\* A poll that has used up its budget is past the deadline: the budget was the
\* rest of the time, rounded up.
Rounded ==
    /\ prompt \in Prompts
    /\ prompt.pc = "poll" => prompt.left <= prompt.budget
    /\ prompt.result = "timed_out" => prompt.pc = "done" /\ prompt.left = 0

\* Every step of the prompt, and none of another leaf, keeps the budget above
\* the time that is left (read_line).
LEMMA RoundedStep ==
    ASSUME Rounded, [Next]_vars
    PROVE  Rounded'
<1>1. CASE UNCHANGED prompt
    BY <1>1 DEF Rounded
<1>a. /\ prompt \in Prompts /\ prompt.left \in Nat /\ prompt.budget \in Nat /\ prompt.size \in Nat
      /\ prompt.pc = "poll" => prompt.left <= prompt.budget
      /\ prompt.result = "timed_out" => prompt.pc = "done" /\ prompt.left = 0
    BY DEF Rounded, Prompts
<1>2. CASE Ask!Tick
    <2> DEFINE left == IF prompt.left = 0 THEN 0 ELSE prompt.left - 1
               budget == IF prompt.pc # "poll" \/ prompt.budget = 0
                         THEN prompt.budget ELSE prompt.budget - 1
    <2>1. prompt' = [prompt EXCEPT !.left = left, !.budget = budget] /\ prompt.pc # "done"
        BY <1>2 DEF Ask!Tick, Ask!Pending
    <2>2. left \in Nat /\ budget \in Nat /\ (prompt.pc = "poll" => left <= budget)
        BY <1>a
    <2> HIDE DEF left, budget
    <2>3. /\ prompt' \in Prompts /\ prompt'.left = left /\ prompt'.budget = budget
          /\ prompt'.pc = prompt.pc /\ prompt'.result = prompt.result
        BY <1>a, <2>1, <2>2 DEF Prompts
    <2> QED
        BY <1>a, <2>1, <2>2, <2>3 DEF Rounded
<1>3. CASE Ask!Type \/ Ask!Steal
    BY <1>3 DEF Ask!Type, Ask!Steal, Rounded
<1>b. ASSUME NEW answer \in {"none", "approved", "denied", "timed_out"},
             Ask!Resolve(answer), answer = "timed_out" => prompt.left = 0
      PROVE  Rounded'
    <2>1. /\ prompt' \in Prompts /\ prompt'.left = prompt.left
          /\ prompt'.pc = "done" /\ prompt'.result = answer
        BY <1>a, <1>b DEF Ask!Resolve, Prompts
    <2> QED
        BY <1>b, <2>1 DEF Rounded
<1>c. ASSUME NEW next \in {"check", "read"}, prompt' = [prompt EXCEPT !.pc = next],
             prompt.pc # "done"
      PROVE  Rounded'
    <2>1. /\ prompt' \in Prompts /\ prompt'.pc = next /\ prompt'.result = prompt.result
        BY <1>a, <1>c DEF Prompts
    <2> QED
        BY <1>a, <1>c, <2>1 DEF Rounded
<1>4. CASE Ask!Check
    <2>1. CASE prompt.left = 0
        BY <1>4, <1>b, <2>1 DEF Ask!Check
    <2>2. CASE prompt.left # 0
        <3> DEFINE budget == 2 * Ask!PollMillis(prompt.left)
        <3>1. prompt' = [prompt EXCEPT !.pc = "poll", !.budget = budget] /\ prompt.pc = "check"
            BY <1>4, <2>2 DEF Ask!Check
        <3>2. budget \in Nat /\ prompt.left <= budget
            BY <1>a DEF Ask!PollMillis
        <3> HIDE DEF budget
        <3>3. /\ prompt' \in Prompts /\ prompt'.left = prompt.left /\ prompt'.budget = budget
              /\ prompt'.pc = "poll" /\ prompt'.result = prompt.result
            BY <1>a, <3>1, <3>2 DEF Prompts
        <3> QED
            BY <1>a, <3>1, <3>2, <3>3 DEF Rounded
    <2> QED
        BY <2>1, <2>2
<1>5. CASE Ask!PollReturns
    <2>1. prompt.budget = 0 /\ prompt.pc = "poll" => prompt.left = 0
        BY <1>a
    <2> QED
        BY <1>5, <1>b, <1>c, <2>1 DEF Ask!PollReturns
<1>6. CASE Ask!Read
    <2>1. CASE Ask!Resolve(Ask!parse_answer(prompt.text))
        <3>1. Ask!parse_answer(prompt.text) \in {"approved", "denied"}
            BY DEF Ask!parse_answer
        <3> QED
            BY <1>b, <2>1, <3>1
    <2>2. CASE ~Ask!Resolve(Ask!parse_answer(prompt.text))
        <3>1. PICK n \in 1 .. MAX_ANSWER, words \in Ask!Text, next \in {"done", "check"},
                   answer \in {prompt.result, "approved", "denied"} :
                 prompt' = [prompt EXCEPT !.size = prompt.size + n, !.text = words,
                                          !.pc = next, !.result = answer]
            BY <1>6, <2>2 DEF Ask!Read, Ask!parse_answer
        <3>2. prompt.pc = "read" /\ prompt.size + n \in Nat
            <4>1. prompt.pc = "read"
                BY <1>6 DEF Ask!Read
            <4>2. prompt.size + n \in Nat
                BY <1>a, LeavesAssumption
            <4> QED
                BY <4>1, <4>2
        <3>3. answer \in {"none", "approved", "denied", "timed_out"} /\ answer # "timed_out"
            BY <1>a, <3>2 DEF Prompts
        <3>4. prompt' \in Prompts /\ prompt'.pc = next /\ prompt'.result = answer
            BY <1>a, <3>1, <3>2, <3>3 DEF Prompts
        <3> QED
            BY <3>3, <3>4 DEF Rounded
    <2> QED
        BY <2>1, <2>2
<1>7. CASE Ask!Interrupted \/ Ask!IoError
    BY <1>7, <1>b, <1>c DEF Ask!Interrupted, Ask!IoError
<1> QED
    BY <1>1, <1>2, <1>3, <1>4, <1>5, <1>6, <1>7
    DEF Next, vars, askVars, Ask!Next, Ask!Loop

\* A prompt is stamped timed out only once its deadline has passed, for every
\* timeout and whatever signals and pieces of an answer come (read_line).
THEOREM NoEarlyTimeout == Spec => []TimeoutNotEarly
<1>1. Init => Rounded
    <2> SUFFICES ASSUME Init PROVE Rounded
        OBVIOUS
    <2>1. prompt \in {Ask!Start, Ask!Failed}
        BY DEF Init, Ask!Init, AskIdle
    <2>2. Ask!Start \in Prompts /\ Ask!Start.pc = "check" /\ Ask!Start.result = "none"
        BY LeavesAssumption DEF Ask!Start, Prompts, Ask!Text
    <2>3. Ask!Failed \in Prompts /\ Ask!Failed.pc = "done" /\ Ask!Failed.result = "denied"
        BY <2>2 DEF Ask!Failed, Prompts
    <2> QED
        BY <2>1, <2>2, <2>3 DEF Rounded
<1>2. Rounded /\ [Next]_vars => Rounded'
    BY RoundedStep
<1>3. Rounded => TimeoutNotEarly
    BY DEF Rounded, TimeoutNotEarly
<1> QED
    BY <1>1, <1>2, <1>3, PTL DEF Spec
-----------------------------------------------------------------------------
(***************************************************************************)
(* The walk of the process tree.                                           *)
(***************************************************************************)

\* The process table: an id whose parent was forked by the root's tree was
\* itself, and an id nobody has had is nobody's parent.
TreeInv ==
    /\ parent \in [Pids -> Pids \cup {Tree!None, Tree!INIT}]
    /\ born \subseteq used /\ used \subseteq Pids /\ root \in born
    /\ \A p \in Pids : parent[p] \in born => p \in born
    /\ \A p \in Pids : parent[p] # Tree!None => p \in used
    /\ \A p \in Pids : parent[p] \in Pids => parent[p] \in used

\* The fields of a walk.
Walks ==
    [target : Pids \cup {Tree!None, Tree!INIT}, current : Pids \cup {Tree!None, Tree!INIT},
     hops : Nat, pc : {"idle", "walk", "done"}, result : BOOLEAN, quiet : BOOLEAN]

\* Where the walk stands: a current that is in the tree shows that the target is.
WalkSound ==
    /\ walk \in Walks
    /\ walk.current \in born => walk.target \in born
    /\ walk.current \in Pids \ {walk.target} => walk.current \in used
    /\ walk.result => walk.pc = "done" /\ walk.target \in born

\* While nothing changes the walk is on every line from the target to the root,
\* and does not leave it before the end.
WalkComplete ==
    walk.quiet =>
        \A k \in 0 .. MaxHops - 1 : \A line \in Lineages(walk.target, k) :
            /\ walk.pc = "walk" => walk.hops <= k /\ walk.current = line[walk.hops]
            /\ walk.pc = "done" => walk.result

\* A step of the processes keeps the table in order, and the ids that are in the
\* tree stay in it.
LEMMA TreeStep ==
    ASSUME TreeInv, Tree!Fork \/ Tree!Exit
    PROVE  /\ TreeInv' /\ walk' = [walk EXCEPT !.quiet = FALSE] /\ walk.pc # "done"
           /\ \/ born' = born /\ used' = used
              \/ \E c \in Pids \ used :
                    born' \in {born, born \cup {c}} /\ used' = used \cup {c}
<1> USE LeavesAssumption DEF TreeInv, Tree!None, Tree!INIT
<1>1. CASE Tree!Fork
    <2>1. PICK p \in Pids, c \in Pids \ used :
             /\ Tree!Live(p) /\ parent' = [parent EXCEPT ![c] = p]
             /\ born' = IF p \in born THEN born \cup {c} ELSE born
             /\ used' = used \cup {c}
        BY <1>1 DEF Tree!Fork
    <2>2. walk' = [walk EXCEPT !.quiet = FALSE] /\ walk.pc # "done"
        BY <1>1 DEF Tree!Fork, Tree!Disturb
    <2>3. p \in used /\ c \notin born /\ c # p
        BY <2>1 DEF Tree!Live
    <2>4. \A q \in Pids : parent'[q] = IF q = c THEN p ELSE parent[q]
        BY <2>1
    <2>5. parent' \in [Pids -> Pids \cup {Tree!None, Tree!INIT}]
        BY <2>1
    <2>6. born' \subseteq used' /\ used' \subseteq Pids /\ root \in born'
        BY <2>1
    <2>7. \A q \in Pids : parent'[q] \in born' => q \in born'
        BY <2>1, <2>3, <2>4
    <2>8. \A q \in Pids : /\ parent'[q] # Tree!None => q \in used'
                          /\ parent'[q] \in Pids => parent'[q] \in used'
        BY <2>1, <2>3, <2>4
    <2>9. TreeInv'
        BY <2>5, <2>6, <2>7, <2>8
    <2> QED
        BY <2>1, <2>2, <2>9
<1>2. CASE Tree!Exit
    <2>1. PICK p \in Pids \ {root} :
             parent' = [q \in Pids |-> IF q = p THEN Tree!None
                                       ELSE IF parent[q] = p THEN Tree!INIT ELSE parent[q]]
        BY <1>2 DEF Tree!Exit
    <2>2. walk' = [walk EXCEPT !.quiet = FALSE] /\ walk.pc # "done" /\ UNCHANGED <<born, used>>
        BY <1>2 DEF Tree!Exit, Tree!Disturb
    <2> QED
        BY <2>1, <2>2
<1> QED
    BY <1>1, <1>2

\* A step of a process during the walk spoils no conclusion: a current that was
\* read as a parent has an id in use, which no fork hands out again.
LEMMA DisturbedWalk ==
    ASSUME TreeInv, WalkSound, WalkComplete, Tree!Fork \/ Tree!Exit
    PROVE  TreeInv' /\ WalkSound' /\ WalkComplete'
<1>1. /\ TreeInv' /\ walk' = [walk EXCEPT !.quiet = FALSE] /\ walk.pc # "done"
      /\ \/ born' = born /\ used' = used
         \/ \E c \in Pids \ used :
               born' \in {born, born \cup {c}} /\ used' = used \cup {c}
    BY TreeStep
<1>2. /\ walk \in Walks /\ ~walk.result
      /\ walk.current \in born => walk.target \in born
      /\ walk.current \in Pids \ {walk.target} => walk.current \in used
    BY <1>1 DEF WalkSound
<1>3. /\ walk' \in Walks /\ walk'.quiet = FALSE /\ walk'.result = walk.result
      /\ walk'.current = walk.current /\ walk'.target = walk.target
    BY <1>1, <1>2 DEF Walks
<1>4. WalkSound'
    BY <1>1, <1>2, <1>3 DEF WalkSound, TreeInv
<1>5. WalkComplete'
    BY <1>3 DEF WalkComplete
<1> QED
    BY <1>1, <1>4, <1>5

\* A step of the walk itself, with the processes at rest: a line from the target
\* to the root leads it on.
LEMMA WalkStep ==
    ASSUME TreeInv, WalkSound, WalkComplete, Tree!Ask \/ Tree!Climb
    PROVE  TreeInv' /\ WalkSound' /\ WalkComplete'
<1> USE LeavesAssumption DEF Tree!None, Tree!INIT
<1>1. UNCHANGED <<parent, born, used>>
    BY DEF Tree!Ask, Tree!Climb
<1>2. TreeInv'
    BY <1>1 DEF TreeInv
<1>3. \A t, k : Lineages(t, k)' = Lineages(t, k)
    BY <1>1 DEF Lineages
<1>4. \A t : \A k \in 0 .. MaxHops - 1 : \A line \in Lineages(t, k) :
         /\ line[0] = t /\ line[k] = root /\ \A i \in 0 .. k : line[i] \in Pids
         /\ \A i \in 0 .. k - 1 : parent[line[i]] = line[i + 1]
    BY DEF Lineages
<1>5. CASE Tree!Ask
    <2>1. PICK t \in Pids \cup {Tree!INIT} :
             walk' = [Tree!Idle EXCEPT !.target = t, !.current = t, !.pc = "walk"]
        BY <1>5 DEF Tree!Ask
    <2>2. /\ walk' \in Walks /\ walk'.target = t /\ walk'.current = t /\ walk'.hops = 0
          /\ walk'.pc = "walk" /\ walk'.result = FALSE
        BY <2>1 DEF Tree!Idle, Walks
    <2>3. WalkSound'
        BY <2>2 DEF WalkSound
    <2>4. WalkComplete'
        BY <1>3, <1>4, <2>2 DEF WalkComplete
    <2> QED
        BY <1>2, <2>3, <2>4
<1>6. CASE Tree!Climb
    <2>1. /\ walk \in Walks /\ walk.pc = "walk" /\ walk.hops \in Nat
          /\ walk.current \in born => walk.target \in born
          /\ walk.current \in Pids \ {walk.target} => walk.current \in used
        BY <1>6 DEF Tree!Climb, WalkSound, Walks
    <2>2. walk.quiet => \A k \in 0 .. MaxHops - 1 : \A line \in Lineages(walk.target, k) :
             walk.hops <= k /\ walk.current = line[walk.hops]
        BY <2>1 DEF WalkComplete
    <2>3. ASSUME NEW answer \in BOOLEAN, Tree!Answer(answer),
                 answer => walk.target \in born,
                 \/ answer
                 \/ walk.quiet => \A k \in 0 .. MaxHops - 1 : Lineages(walk.target, k) = {}
          PROVE  WalkSound' /\ WalkComplete'
        <3>1. /\ walk' \in Walks /\ walk'.target = walk.target /\ walk'.current = walk.current
              /\ walk'.pc = "done" /\ walk'.result = answer /\ walk'.quiet = walk.quiet
            BY <2>1, <2>3 DEF Tree!Answer, Walks
        <3>2. WalkSound'
            BY <1>1, <2>1, <2>3, <3>1 DEF WalkSound
        <3>3. WalkComplete'
            BY <1>3, <2>3, <3>1 DEF WalkComplete
        <3> QED
            BY <3>2, <3>3
    <2>4. CASE walk.hops = MaxHops
        <3>1. Tree!Answer(FALSE)
            BY <1>6, <2>4 DEF Tree!Climb
        <3>2. walk.quiet => \A k \in 0 .. MaxHops - 1 : Lineages(walk.target, k) = {}
            BY <2>2, <2>4
        <3> QED
            BY <1>2, <2>3, <3>1, <3>2
    <2>5. CASE walk.hops # MaxHops /\ walk.current = root
        <3>1. Tree!Answer(TRUE)
            BY <1>6, <2>5 DEF Tree!Climb
        <3>2. walk.target \in born
            BY <2>1, <2>5 DEF TreeInv
        <3> QED
            BY <1>2, <2>3, <3>1, <3>2
    <2>6. CASE walk.hops # MaxHops /\ walk.current # root /\ walk.current <= Tree!INIT
        <3>1. Tree!Answer(FALSE)
            BY <1>6, <2>6 DEF Tree!Climb
        <3>2. walk.quiet => \A k \in 0 .. MaxHops - 1 : Lineages(walk.target, k) = {}
            <4> SUFFICES ASSUME walk.quiet, NEW k \in 0 .. MaxHops - 1,
                                NEW line \in Lineages(walk.target, k)
                         PROVE  FALSE
                OBVIOUS
            <4>1. walk.hops \in 0 .. k /\ walk.current = line[walk.hops]
                BY <2>1, <2>2
            <4>2. walk.current \in Pids
                BY <1>4, <4>1
            <4>3. \A p \in Pids : p \in Nat /\ ~(p <= Tree!INIT)
                OBVIOUS
            <4> QED
                BY <2>6, <4>2, <4>3
        <3> QED
            BY <1>2, <2>3, <3>1, <3>2
    <2>7. CASE walk.hops # MaxHops /\ walk.current # root /\ ~(walk.current <= Tree!INIT)
        <3> DEFINE up == Tree!parent_pid(walk.current)
        <3>1. walk' = [walk EXCEPT !.current = up, !.hops = walk.hops + 1]
            BY <1>6, <2>7 DEF Tree!Climb
        <3>2. walk.current \in Pids
            BY <2>1, <2>7 DEF Walks
        <3>3. /\ up \in Pids \cup {Tree!None, Tree!INIT}
              /\ up \in born => walk.current \in born
              /\ up \in Pids => up \in used
            BY <3>2 DEF TreeInv, Tree!parent_pid, Tree!Live
        <3>4. \A q \in Pids : parent[walk.current] = q => up = q
            BY <3>2 DEF Tree!parent_pid, Tree!Live
        <3> HIDE DEF up
        <3>a. PICK n \in Nat : n = walk.hops + 1
            BY <2>1
        <3>b. PICK u \in Pids \cup {Tree!None, Tree!INIT} : u = up
            BY <3>3
        <3>c. walk' = [walk EXCEPT !.current = u, !.hops = n]
            BY <3>1, <3>a, <3>b
        <3>d. /\ walk' \in Walks /\ walk'.target = walk.target /\ walk'.current = u
              /\ walk'.hops = n /\ walk'.pc = walk.pc
              /\ walk'.result = walk.result /\ walk'.quiet = walk.quiet
            BY <2>1, <3>c DEF Walks
        <3>5. /\ walk' \in Walks /\ walk'.target = walk.target /\ walk'.current = up
              /\ walk'.hops = walk.hops + 1 /\ walk'.pc = "walk"
              /\ walk'.result = walk.result /\ walk'.quiet = walk.quiet
            BY <2>1, <3>a, <3>b, <3>d, Zenon
        <3>6. WalkSound'
            BY <1>1, <2>1, <3>3, <3>5 DEF WalkSound
        <3>7. WalkComplete'
            <4> SUFFICES ASSUME walk.quiet, NEW k \in 0 .. MaxHops - 1,
                                NEW line \in Lineages(walk.target, k)
                         PROVE  walk.hops + 1 <= k /\ up = line[walk.hops + 1]
                BY <1>3, <3>5 DEF WalkComplete
            <4>1. walk.hops <= k /\ walk.current = line[walk.hops]
                BY <2>2
            <4>2. walk.hops # k
                BY <1>4, <2>7, <4>1
            <4>3. walk.hops \in 0 .. k - 1 /\ walk.hops + 1 \in 0 .. k
                BY <2>1, <4>1, <4>2
            <4>4. parent[walk.current] = line[walk.hops + 1] /\ line[walk.hops + 1] \in Pids
                BY <1>4, <4>1, <4>3
            <4>5. up = line[walk.hops + 1]
                BY <3>4, <4>4, Zenon
            <4>6. walk.hops + 1 <= k
                BY <4>3
            <4> QED
                BY <4>5, <4>6
        <3> QED
            BY <1>2, <3>6, <3>7
    <2> QED
        BY <2>4, <2>5, <2>6, <2>7
<1> QED
    BY <1>5, <1>6

\* The walk of the process tree takes no stranger for a member, whatever forks
\* and exits between its reads, and while nothing changes finds every member
\* within its bound: for every number of processes and every bound
\* (process_in_tree, parent_pid).
THEOREM TreeWalkSound == Spec => []TreeWalkIsSound
<1> DEFINE Inv == leaf = "tree" => TreeInv /\ WalkSound /\ WalkComplete
<1>1. Init => Inv
    <2> SUFFICES ASSUME Init, leaf = "tree" PROVE TreeInv /\ WalkSound /\ WalkComplete
        OBVIOUS
    <2>1. Tree!Init
        BY DEF Init
    <2>2. \A p \in Pids : /\ p \in Outsiders => parent[p] = Tree!INIT
                          /\ p = root => parent[p] \in Outsiders
                          /\ p \notin Outsiders \cup {root} => parent[p] = Tree!None
        BY <2>1 DEF Tree!Init
    <2>3. /\ parent \in [Pids -> {Tree!None, Tree!INIT} \cup Outsiders]
          /\ born = {root} /\ used = Outsiders \cup {root} /\ walk = Tree!Idle
        BY <2>1 DEF Tree!Init
    <2>4. TreeInv
        BY <2>2, <2>3, LeavesAssumption DEF TreeInv, Tree!None, Tree!INIT
    <2>5. walk \in Walks /\ walk.current = walk.target /\ walk.pc = "idle" /\ walk.result = FALSE
        BY <2>3 DEF Tree!Idle, Walks
    <2>6. WalkSound /\ WalkComplete
        BY <2>5 DEF WalkSound, WalkComplete
    <2> QED
        BY <2>4, <2>6
<1>2. Inv /\ [Next]_vars => Inv'
    <2> SUFFICES ASSUME Inv, [Next]_vars, leaf' = "tree"
                 PROVE  TreeInv' /\ WalkSound' /\ WalkComplete'
        OBVIOUS
    <2>1. leaf' = leaf /\ (Tree!Next \/ UNCHANGED treeVars)
        BY DEF Next, vars
    <2>2. TreeInv /\ WalkSound /\ WalkComplete
        BY <2>1
    <2>3. CASE Tree!Fork \/ Tree!Exit
        BY <2>2, <2>3, DisturbedWalk
    <2>4. CASE Tree!Ask \/ Tree!Climb
        BY <2>2, <2>4, WalkStep
    <2>5. CASE UNCHANGED treeVars
        <3>1. \A t, k : Lineages(t, k)' = Lineages(t, k)
            BY <2>5 DEF treeVars, Lineages
        <3> QED
            BY <2>2, <2>5, <3>1 DEF treeVars, TreeInv, WalkSound, WalkComplete
    <2> QED
        BY <2>1, <2>3, <2>4, <2>5 DEF Tree!Next
<1>3. Inv => TreeWalkIsSound
    <2> SUFFICES ASSUME Inv, leaf = "tree", walk.pc = "done"
                 PROVE  /\ walk.result => walk.target \in born
                        /\ (walk.quiet /\ \E k \in 0 .. MaxHops - 1 : Lineages(walk.target, k) # {})
                              => walk.result
        BY DEF TreeWalkIsSound
    <2>1. walk.result => walk.target \in born
        BY DEF WalkSound
    <2>2. (walk.quiet /\ \E k \in 0 .. MaxHops - 1 : Lineages(walk.target, k) # {}) => walk.result
        BY DEF WalkComplete
    <2> QED
        BY <2>1, <2>2
<1> QED
    BY <1>1, <1>2, <1>3, PTL DEF Spec

-----------------------------------------------------------------------------
(***************************************************************************)
(* The reads of the child's memory.                                        *)
(***************************************************************************)

\* Bytes up to the end of a page are on that page.
LEMMA SamePage ==
    ASSUME NEW P \in Nat \ {0}, NEW a \in Nat, NEW i \in Nat, i < P - (a % P)
    PROVE  (a + i) \div P = a \div P
<1> DEFINE q == a \div P
           r == a % P
<1>1. q \in Nat /\ r \in 0 .. P - 1 /\ a = P * q + r
    OBVIOUS
<1>2. r + i \in 0 .. P - 1 /\ a + i = P * q + (r + i)
    BY <1>1
<1>3. \A m, s \in Nat : s < P => (P * m + s) \div P = m
    OBVIOUS
<1> QED
    BY <1>1, <1>2, <1>3

\* A byte is in the memory exactly when its page is.
LEMMA PageInMemory ==
    ASSUME NEW P \in Nat \ {0}, NEW g \in Nat, NEW a \in Nat
    PROVE  a \in 0 .. P * g - 1 <=> a \div P < g
<1> DEFINE q == a \div P
           r == a % P
<1>1. q \in Nat /\ r \in 0 .. P - 1 /\ a = P * q + r /\ P * q \in Nat /\ P * g \in Nat
    OBVIOUS
<1> HIDE DEF q, r
<1>2. CASE q < g
    <2>1. PICK d \in Nat : g = q + 1 + d
        BY <1>1, <1>2
    <2>2. P * g = P * q + P + P * d /\ P * d \in Nat
        BY <1>1, <2>1
    <2> QED
        BY <1>1, <1>2, <2>2 DEF q
<1>3. CASE ~(q < g)
    <2>1. PICK d \in Nat : q = g + d
        BY <1>1, <1>3
    <2>2. P * q = P * g + P * d /\ P * d \in Nat
        BY <1>1, <2>1
    <2> QED
        BY <1>1, <1>3, <2>2 DEF q
<1> QED
    BY <1>2, <1>3

\* Min picks the least element of a non-empty set of positions.
LEMMA LeastPosition ==
    ASSUME NEW S \in SUBSET Nat, S # {}
    PROVE  Mem!Min(S) \in S /\ \A j \in S : Mem!Min(S) <= j
<1>1. PICK m \in S : \A j \in S : ~(<<j, m>> \in OpToRel(<, Nat))
    BY NatLessThanWellFounded, WFMin
<1>2. ASSUME NEW j \in S, j < m
      PROVE  FALSE
    <2>1. <<j, m>> \in {ss \in Nat \X Nat : ss[1] < ss[2]}
        BY <1>2
    <2>2. <<j, m>> \in OpToRel(<, Nat)
        BY <2>1, Zenon DEF OpToRel
    <2> QED
        BY <1>1, <2>2
<1>3. \A j \in S : m <= j
    BY <1>2
<1> QED
    BY <1>3 DEF Mem!Min

\* The fields of a read.
Reads ==
    [kind : {"cstr", "exact"}, addr : Nat, cap : Nat, out : Nat, want : Nat, got : Nat,
     pc : {"loop", "fill", "done"}, result : {"none", "ok", "error"}]

\* The lengths the string may have: that of the text before the first nul.
Lengths ==
    {n \in 0 .. read.cap - 1 :
        /\ read.addr + n \in Mem!Bytes
        /\ memory[read.addr + n] = 0
        /\ \A k \in 0 .. n - 1 : memory[read.addr + k] # 0}

\* What is kept of a read under way: bytes of the memory within the cap, of a
\* string none of them the nul.
KeptOK ==
    /\ read.out <= read.cap /\ (read.kind = "exact" => read.out = 0)
    /\ \A k \in Nat : k < read.out =>
          read.addr + k \in Mem!Bytes /\ memory[read.addr + k] # 0

\* The current chunk: within the cap, in part arrived, of a string on one page.
ChunkOK ==
    /\ read.got <= read.want /\ read.out + read.want <= read.cap
    /\ read.kind = "exact" => read.want = read.cap
    /\ \A k \in Nat : k < read.got => read.addr + (read.out + k) \in Mem!Bytes
    /\ read.kind = "cstr" => \A k \in Nat : k < read.want =>
          Mem!PageOf(read.addr + (read.out + k)) = Mem!PageOf(read.addr + read.out)

\* What a finished read says.
AnswerOK ==
    /\ (read.result = "ok" /\ read.kind = "exact") => read.out = read.cap
    /\ (read.result = "ok" /\ read.kind = "cstr") => read.out \in Lengths
    /\ (read.result = "error" /\ read.kind = "exact") =>
          \E k \in 0 .. read.cap - 1 : ~Mem!Readable(read.addr + k)
    /\ (read.result = "error" /\ read.kind = "cstr") =>
          \A n \in Lengths : \E k \in 0 .. n : ~Mem!Readable(read.addr + k)

\* The invariant of a read (read_cstr_capped, read_exact_capped).
ReadInv ==
    /\ memory \in [Mem!Bytes -> {0, 1}] /\ read \in Reads
    /\ read.pc # "done" => KeptOK
    /\ (read.pc = "loop" /\ read.kind = "exact") => read.got = 0
    /\ read.pc = "fill" => ChunkOK
    /\ read.pc = "done" => AnswerOK

\* A new chunk of a string ends at the page or at the cap (read_cstr_capped).
LEMMA NextChunkStep ==
    ASSUME ReadInv, Mem!NextChunk
    PROVE  ReadInv'
<1>1. /\ read \in Reads /\ read.pc = "loop" /\ read.kind = "cstr" /\ KeptOK
      /\ memory \in [Mem!Bytes -> {0, 1}] /\ UNCHANGED <<memory, mapped>>
      /\ read.addr \in Nat /\ read.cap \in Nat /\ read.out \in Nat
    BY DEF ReadInv, Mem!NextChunk, Reads
<1>2. CASE read.out < read.cap
    <2> DEFINE at == read.addr + read.out
    <2>1. at \in Nat /\ PAGE \in Nat \ {0} /\ at % PAGE \in 0 .. PAGE - 1
        BY <1>1, LeavesAssumption
    <2>2. PICK w \in Nat : w = Mem!ChunkSize /\ w <= PAGE - (at % PAGE) /\ read.out + w <= read.cap
        BY <1>1, <1>2, <2>1 DEF Mem!ChunkSize, Mem!ChunkStart
    <2>3. read' = [read EXCEPT !.pc = "fill", !.want = w, !.got = 0]
        BY <1>2, <2>2 DEF Mem!NextChunk
    <2>4. /\ read' \in Reads /\ read'.pc = "fill" /\ read'.want = w /\ read'.got = 0
          /\ read'.kind = "cstr" /\ read'.addr = read.addr /\ read'.cap = read.cap
          /\ read'.out = read.out
        BY <1>1, <2>3 DEF Reads
    <2>5. KeptOK'
        BY <1>1, <2>4 DEF KeptOK
    <2>6. \A k \in Nat : k < w => (at + k) \div PAGE = at \div PAGE
        BY <2>1, <2>2, SamePage
    <2>7. \A k \in Nat : k < w => Mem!PageOf(read.addr + (read.out + k)) = Mem!PageOf(at)
        <3> TAKE k \in Nat
        <3>1. read.addr + (read.out + k) = at + k
            BY <1>1
        <3> QED
            BY <2>6, <3>1 DEF Mem!PageOf
    <2>8. ChunkOK'
        BY <1>1, <2>2, <2>4, <2>7 DEF ChunkOK, Mem!PageOf
    <2> QED
        BY <1>1, <2>4, <2>5, <2>8 DEF ReadInv
<1>3. CASE ~(read.out < read.cap)
    <2>1. read' = [read EXCEPT !.pc = "done", !.result = "error"]
        BY <1>3 DEF Mem!NextChunk, Mem!End
    <2>2. /\ read' \in Reads /\ read'.pc = "done" /\ read'.result = "error"
          /\ read'.kind = "cstr" /\ read'.addr = read.addr /\ read'.cap = read.cap
        BY <1>1, <2>1 DEF Reads
    <2>3. Lengths' = {}
        BY <1>1, <1>3, <2>2 DEF KeptOK, Lengths
    <2>4. AnswerOK'
        BY <2>2, <2>3 DEF AnswerOK
    <2> QED
        BY <1>1, <2>2, <2>4 DEF ReadInv
<1> QED
    BY <1>2, <1>3

\* The fixed-size read asks for all of it (read_exact_capped).
LEMMA WholeChunkStep ==
    ASSUME ReadInv, Mem!WholeChunk
    PROVE  ReadInv'
<1>1. /\ read \in Reads /\ read.pc = "loop" /\ read.kind = "exact" /\ KeptOK
      /\ memory \in [Mem!Bytes -> {0, 1}] /\ UNCHANGED <<memory, mapped>>
    BY DEF ReadInv, Mem!WholeChunk
<1>2. PICK w \in Nat : w = read.cap
    BY <1>1 DEF Reads
<1>3. read' = [read EXCEPT !.pc = "fill", !.want = w]
    BY <1>2 DEF Mem!WholeChunk
<1>4. /\ read' \in Reads /\ read'.pc = "fill" /\ read'.want = read.cap /\ read'.got = read.got
      /\ read'.kind = "exact" /\ read'.addr = read.addr /\ read'.cap = read.cap
      /\ read'.out = read.out
    BY <1>1, <1>2, <1>3 DEF Reads
<1>5. KeptOK'
    BY <1>1, <1>4 DEF KeptOK
<1>6. ChunkOK'
    <2>1. read.got = 0 /\ read.out = 0
        BY <1>1 DEF KeptOK, ReadInv
    <2> QED
        BY <1>1, <1>2, <1>4, <2>1 DEF ChunkOK
<1> QED
    BY <1>1, <1>4, <1>5, <1>6 DEF ReadInv

\* Bytes that arrive are bytes of the memory (read_at).
LEMMA DeliverStep ==
    ASSUME ReadInv, Mem!Deliver
    PROVE  ReadInv'
<1>1. /\ read \in Reads /\ read.pc = "fill" /\ KeptOK /\ ChunkOK
      /\ memory \in [Mem!Bytes -> {0, 1}] /\ UNCHANGED <<memory, mapped>>
      /\ read.addr \in Nat /\ read.out \in Nat /\ read.want \in Nat /\ read.got \in Nat
    BY DEF ReadInv, Mem!Deliver, Reads
<1>2. PICK n \in 1 .. read.want - read.got :
         /\ \A pos \in read.addr + read.out + read.got .. read.addr + read.out + read.got + n - 1 :
               Mem!Readable(pos)
         /\ read' = [read EXCEPT !.got = read.got + n]
    BY DEF Mem!Deliver, Mem!ChunkStart
<1>3. PICK g \in Nat : g = read.got + n /\ g <= read.want
    BY <1>1, <1>2
<1>4. read' = [read EXCEPT !.got = g]
    BY <1>2, <1>3
<1>5. /\ read' \in Reads /\ read'.pc = "fill" /\ read'.want = read.want /\ read'.got = g
      /\ read'.kind = read.kind /\ read'.addr = read.addr /\ read'.cap = read.cap
      /\ read'.out = read.out
    BY <1>1, <1>4 DEF Reads
<1>6. KeptOK'
    BY <1>1, <1>5 DEF KeptOK
<1>7. \A k \in Nat : k < g => read.addr + (read.out + k) \in Mem!Bytes
    <2> SUFFICES ASSUME NEW k \in Nat, k < g, ~(k < read.got)
                 PROVE  read.addr + (read.out + k) \in Mem!Bytes
        BY <1>1 DEF ChunkOK
    <2>1. read.addr + (read.out + k)
             \in read.addr + read.out + read.got .. read.addr + read.out + read.got + n - 1
        BY <1>1, <1>3
    <2> QED
        BY <1>2, <2>1 DEF Mem!Readable
<1>8. ChunkOK'
    BY <1>1, <1>3, <1>5, <1>7 DEF ChunkOK, Mem!PageOf
<1> QED
    BY <1>1, <1>5, <1>6, <1>8 DEF ReadInv

\* The first nul of what has arrived ends the string (read_cstr_capped).
LEMMA NulFound ==
    ASSUME ReadInv, read.pc = "fill", read.kind = "cstr", Mem!Zeros # {},
           UNCHANGED <<memory, mapped>>,
           read' = [read EXCEPT !.pc = "done", !.result = "ok",
                                !.out = read.out + Mem!Min(Mem!Zeros)]
    PROVE  ReadInv'
<1>1. /\ read \in Reads /\ KeptOK /\ ChunkOK /\ memory \in [Mem!Bytes -> {0, 1}]
      /\ read.addr \in Nat /\ read.out \in Nat /\ read.want \in Nat /\ read.got \in Nat
      /\ read.cap \in Nat
    BY DEF ReadInv, Reads
<1>2. Mem!Zeros \in SUBSET Nat
    BY <1>1 DEF Mem!Zeros
<1>3. PICK m \in Mem!Zeros : m = Mem!Min(Mem!Zeros) /\ \A j \in Mem!Zeros : m <= j
    BY <1>2, LeastPosition
<1>4. /\ m \in Nat /\ m < read.got /\ memory[read.addr + (read.out + m)] = 0
      /\ \A j \in Nat : (j < read.got /\ memory[read.addr + (read.out + j)] = 0) => m <= j
    <2>1. \A j \in Nat : read.addr + read.out + j = read.addr + (read.out + j)
        BY <1>1
    <2>2. \A j \in Nat : j \in Mem!Zeros <=>
                           (j < read.got /\ memory[read.addr + (read.out + j)] = 0)
        BY <1>1, <2>1 DEF Mem!Zeros, Mem!ChunkStart
    <2> QED
        BY <1>2, <1>3, <2>2
<1>5. PICK n \in Nat : n = read.out + m
    BY <1>1, <1>4
<1>6. read' = [read EXCEPT !.pc = "done", !.result = "ok", !.out = n]
    BY <1>3, <1>5
<1>7. /\ read' \in Reads /\ read'.pc = "done" /\ read'.result = "ok" /\ read'.out = n
      /\ read'.kind = "cstr" /\ read'.addr = read.addr /\ read'.cap = read.cap
    BY <1>1, <1>6 DEF Reads
<1>8. n \in 0 .. read.cap - 1 /\ read.addr + n \in Mem!Bytes /\ memory[read.addr + n] = 0
    BY <1>1, <1>4, <1>5 DEF ChunkOK
<1>9. ASSUME NEW k \in 0 .. n - 1
      PROVE  memory[read.addr + k] # 0
    <2>1. CASE k < read.out
        BY <1>1, <2>1 DEF KeptOK
    <2>2. CASE ~(k < read.out)
        <3>1. PICK j \in Nat : j = k - read.out
            BY <1>1, <2>2
        <3>2. k = read.out + j /\ j < m /\ j < read.got
            BY <1>1, <1>4, <1>5, <3>1
        <3> QED
            BY <1>4, <3>2
    <2> QED
        BY <2>1, <2>2
<1>10. n \in Lengths'
    BY <1>7, <1>8, <1>9 DEF Lengths, Mem!Bytes
<1>11. AnswerOK'
    BY <1>7, <1>10 DEF AnswerOK
<1> QED
    BY <1>1, <1>7, <1>11 DEF ReadInv

\* A failed read of a string fails on the whole rest of its page, so before any
\* nul that has not arrived (read_cstr_capped).
LEMMA FailStep ==
    ASSUME ReadInv, Mem!Fail
    PROVE  ReadInv'
<1>1. /\ read \in Reads /\ read.pc = "fill" /\ KeptOK /\ ChunkOK
      /\ memory \in [Mem!Bytes -> {0, 1}] /\ UNCHANGED <<memory, mapped>>
      /\ read.addr \in Nat /\ read.out \in Nat /\ read.want \in Nat /\ read.got \in Nat
      /\ read.cap \in Nat /\ read.kind \in {"cstr", "exact"} /\ read.got < read.want
    BY DEF ReadInv, Mem!Fail, Reads
<1>2. CASE read.kind = "cstr" /\ Mem!Zeros # {}
    BY <1>1, <1>2, NulFound DEF Mem!Fail
<1>3. CASE ~(read.kind = "cstr" /\ Mem!Zeros # {})
    <2>1. read' = [read EXCEPT !.pc = "done", !.result = "error"]
        BY <1>3 DEF Mem!Fail, Mem!End
    <2>2. /\ read' \in Reads /\ read'.pc = "done" /\ read'.result = "error"
          /\ read'.kind = read.kind /\ read'.addr = read.addr /\ read'.cap = read.cap
        BY <1>1, <2>1 DEF Reads
    <2>3. PICK i \in Nat : /\ read.got <= i /\ i < read.want
                          /\ ~Mem!Readable(read.addr + (read.out + i))
        <3>1. PICK pos \in read.addr + read.out + read.got .. read.addr + read.out + read.want - 1 :
                 ~Mem!Readable(pos)
            BY DEF Mem!Fail, Mem!Asked, Mem!ChunkStart
        <3>2. PICK j \in Nat : j = pos - (read.addr + read.out)
            BY <1>1, <3>1
        <3>3. pos = read.addr + (read.out + j) /\ read.got <= j /\ j < read.want
            BY <1>1, <3>1, <3>2
        <3> QED
            BY <3>1, <3>3
    <2>4. CASE read.kind = "exact"
        <3>1. read.out + i \in 0 .. read.cap - 1
            BY <1>1, <2>3 DEF ChunkOK
        <3>2. AnswerOK'
            BY <1>1, <2>2, <2>3, <2>4, <3>1 DEF AnswerOK, Mem!Readable, Mem!Bytes, Mem!PageOf
        <3> QED
            BY <1>1, <2>2, <3>2 DEF ReadInv
    <2>5. CASE read.kind = "cstr"
        <3>1. ~Mem!Readable(read.addr + (read.out + read.got))
            <4>1. Mem!PageOf(read.addr + (read.out + i))
                    = Mem!PageOf(read.addr + (read.out + read.got))
                BY <1>1, <2>3, <2>5 DEF ChunkOK
            <4>2. ASSUME read.addr + (read.out + read.got) \in Mem!Bytes
                  PROVE  read.addr + (read.out + i) \in Mem!Bytes
                <5>1. /\ read.addr + (read.out + i) \in Nat
                      /\ read.addr + (read.out + read.got) \in Nat
                    BY <1>1, <2>3
                <5>2. \A a \in Nat : a \in 0 .. PAGE * Pages - 1 <=> a \div PAGE < Pages
                    BY LeavesAssumption, PageInMemory
                <5> QED
                    BY <4>1, <4>2, <5>1, <5>2 DEF Mem!PageOf, Mem!Bytes
            <4> QED
                BY <2>3, <4>1, <4>2 DEF Mem!Readable
        <3>2. \A j \in Nat : j < read.got => memory[read.addr + (read.out + j)] # 0
            <4>1. \A j \in Nat : read.addr + read.out + j = read.addr + (read.out + j)
                BY <1>1
            <4>2. \A j \in 0 .. read.got - 1 : memory[read.addr + read.out + j] # 0
                BY <1>3, <2>5 DEF Mem!Zeros, Mem!ChunkStart
            <4> QED
                BY <1>1, <4>1, <4>2
        <3>3. ASSUME NEW n \in Lengths
              PROVE  read.out + read.got <= n
            <4>1. n \in Nat /\ memory[read.addr + n] = 0
                BY <1>1 DEF Lengths
            <4>2. ~(n < read.out)
                BY <1>1, <4>1 DEF KeptOK
            <4>3. CASE n < read.out + read.got
                <5>1. PICK j \in Nat : j = n - read.out
                    BY <1>1, <4>1, <4>2
                <5>2. n = read.out + j /\ j < read.got
                    BY <1>1, <4>1, <4>3, <5>1
                <5> QED
                    BY <3>2, <4>1, <5>2
            <4> QED
                BY <1>1, <4>1, <4>3
        <3>4. \A n \in Lengths : \E k \in 0 .. n : ~Mem!Readable(read.addr + k)
            <4> TAKE n \in Lengths
            <4>1. n \in Nat
                BY <1>1 DEF Lengths
            <4>2. read.out + read.got \in 0 .. n
                BY <1>1, <3>3, <4>1
            <4> QED
                BY <3>1, <4>2
        <3>5. Lengths' = Lengths /\ \A p : Mem!Readable(p)' = Mem!Readable(p)
            BY <1>1, <2>2 DEF Lengths, Mem!Readable, Mem!Bytes, Mem!PageOf
        <3>6. AnswerOK'
            BY <2>2, <2>5, <3>4, <3>5 DEF AnswerOK
        <3> QED
            BY <1>1, <2>2, <3>6 DEF ReadInv
    <2> QED
        BY <1>1, <2>4, <2>5
<1> QED
    BY <1>2, <1>3

\* A full chunk is the value, holds the nul, or is kept (read_cstr_capped,
\* read_exact_capped).
LEMMA FilledStep ==
    ASSUME ReadInv, Mem!Filled
    PROVE  ReadInv'
<1>1. /\ read \in Reads /\ read.pc = "fill" /\ KeptOK /\ ChunkOK
      /\ memory \in [Mem!Bytes -> {0, 1}] /\ UNCHANGED <<memory, mapped>>
      /\ read.addr \in Nat /\ read.out \in Nat /\ read.want \in Nat /\ read.got \in Nat
      /\ read.cap \in Nat /\ read.kind \in {"cstr", "exact"} /\ read.got = read.want
    BY DEF ReadInv, Mem!Filled, Reads
<1>2. CASE read.kind = "exact"
    <2>1. PICK n \in Nat : n = read.got
        BY <1>1
    <2>2. read' = [read EXCEPT !.pc = "done", !.result = "ok", !.out = n]
        BY <1>2, <2>1 DEF Mem!Filled
    <2>3. /\ read' \in Reads /\ read'.pc = "done" /\ read'.result = "ok" /\ read'.out = n
          /\ read'.kind = "exact" /\ read'.cap = read.cap
        BY <1>1, <1>2, <2>2 DEF Reads
    <2>4. n = read.cap
        BY <1>1, <1>2, <2>1 DEF ChunkOK
    <2>5. AnswerOK'
        BY <2>3, <2>4 DEF AnswerOK
    <2> QED
        BY <1>1, <2>3, <2>5 DEF ReadInv
<1>3. CASE read.kind = "cstr" /\ Mem!Zeros # {}
    BY <1>1, <1>3, NulFound DEF Mem!Filled
<1>4. CASE read.kind = "cstr" /\ Mem!Zeros = {}
    <2>1. PICK n \in Nat : n = read.out + read.got
        BY <1>1
    <2>2. read' = [read EXCEPT !.pc = "loop", !.out = n]
        BY <1>4, <2>1 DEF Mem!Filled
    <2>3. /\ read' \in Reads /\ read'.pc = "loop" /\ read'.out = n
          /\ read'.kind = "cstr" /\ read'.cap = read.cap /\ read'.addr = read.addr
        BY <1>1, <1>4, <2>2 DEF Reads
    <2>4. ASSUME NEW k \in Nat, k < n
          PROVE  read.addr + k \in Mem!Bytes /\ memory[read.addr + k] # 0
        <3>1. CASE k < read.out
            BY <1>1, <3>1 DEF KeptOK
        <3>2. CASE ~(k < read.out)
            <4>1. PICK j \in Nat : j = k - read.out
                BY <1>1, <3>2
            <4>2. k = read.out + j /\ j < read.got
                BY <1>1, <2>1, <2>4, <4>1
            <4>3. read.addr + (read.out + j) \in Mem!Bytes
                BY <1>1, <4>2 DEF ChunkOK
            <4>4. memory[read.addr + read.out + j] # 0
                BY <1>1, <1>4, <4>2 DEF Mem!Zeros, Mem!ChunkStart
            <4>5. read.addr + read.out + j = read.addr + (read.out + j)
                BY <1>1
            <4> QED
                BY <4>2, <4>3, <4>4, <4>5
        <3> QED
            BY <3>1, <3>2
    <2>5. n <= read.cap
        BY <1>1, <2>1 DEF ChunkOK
    <2>6. KeptOK'
        BY <1>1, <2>3, <2>4, <2>5 DEF KeptOK, Mem!Bytes
    <2> QED
        BY <1>1, <2>3, <2>6 DEF ReadInv
<1> QED
    BY <1>1, <1>2, <1>3, <1>4

\* Pages that are taken away while a read is under way change nothing of what it
\* has kept (read_cstr_capped over /proc/pid/mem).
LEMMA UnmapStep ==
    ASSUME ReadInv, Mem!Unmap
    PROVE  ReadInv'
<1>1. read.pc # "done" /\ UNCHANGED <<memory, read>>
    BY DEF Mem!Unmap
<1> QED
    BY <1>1 DEF ReadInv, KeptOK, ChunkOK, Mem!Bytes, Mem!PageOf

\* A read of the child's memory delivers the value or an error, never a part, for
\* every page size, memory and cap and whatever pages vanish under it
\* (read_cstr_capped, read_exact_capped).
THEOREM ReadsAreExact == Spec => []ReadIsExact
<1> DEFINE Inv == leaf = "mem" => ReadInv
<1>1. Init => Inv
    <2> SUFFICES ASSUME Init, leaf = "mem" PROVE ReadInv
        OBVIOUS
    <2>1. Mem!Init
        BY DEF Init
    <2>2. PICK kind \in {"cstr", "exact"}, addr \in 0 .. PAGE, cap \in Caps :
             read = Mem!Start(kind, addr, cap)
        BY <2>1 DEF Mem!Init
    <2>3. /\ read \in Reads /\ read.pc = "loop" /\ read.out = 0 /\ read.got = 0
          /\ read.cap \in Nat /\ memory \in [Mem!Bytes -> {0, 1}]
        BY <2>1, <2>2, LeavesAssumption DEF Mem!Init, Mem!Start, Reads
    <2>4. KeptOK
        BY <2>3 DEF KeptOK
    <2> QED
        BY <2>3, <2>4 DEF ReadInv
<1>2. Inv /\ [Next]_vars => Inv'
    <2> SUFFICES ASSUME Inv, [Next]_vars, leaf' = "mem" PROVE ReadInv'
        OBVIOUS
    <2>1. leaf' = leaf /\ (Mem!Next \/ UNCHANGED memVars)
        BY DEF Next, vars
    <2>2. ReadInv
        BY <2>1
    <2>3. CASE UNCHANGED memVars
        BY <2>2, <2>3 DEF memVars, ReadInv, KeptOK, ChunkOK, AnswerOK, Lengths, Mem!Bytes,
                          Mem!PageOf, Mem!Readable
    <2> QED
        BY <2>1, <2>2, <2>3, NextChunkStep, WholeChunkStep, DeliverStep, FailStep, FilledStep,
           UnmapStep DEF Mem!Next
<1>3. Inv => ReadIsExact
    <2> SUFFICES ASSUME ReadInv, leaf = "mem", read.pc = "done" PROVE ReadIsExact
        BY DEF ReadIsExact
    <2>1. AnswerOK /\ read \in Reads /\ read.cap \in Nat /\ read.kind \in {"cstr", "exact"}
        BY DEF ReadInv, Reads
    <2>2. CASE read.kind = "exact"
        BY <2>1, <2>2 DEF AnswerOK, ReadIsExact
    <2>3. CASE read.kind = "cstr"
        <3>1. \A n, m \in Lengths : n = m
            BY <2>1 DEF Lengths
        <3>2. Lengths # {} => Min(Lengths) \in Lengths
            <4>1. \A n \in Lengths : \A m \in Lengths : n <= m
                BY <2>1, <3>1 DEF Lengths
            <4> QED
                BY <4>1 DEF Min
        <3>3. read.result = "ok" => read.out \in Lengths
            BY <2>1, <2>3 DEF AnswerOK
        <3>4. read.result = "error" =>
                 Lengths = {} \/ \E k \in 0 .. Min(Lengths) : ~Mem!Readable(read.addr + k)
            BY <2>1, <2>3, <3>2 DEF AnswerOK
        <3> QED
            BY <2>3, <3>3, <3>4 DEF ReadIsExact, Lengths
    <2> QED
        BY <2>1, <2>2, <2>3
<1> QED
    BY <1>1, <1>2, <1>3, PTL DEF Spec

-----------------------------------------------------------------------------
(***************************************************************************)
(* The tables of the filter.                                               *)
(***************************************************************************)

Among(x, s) == \E i \in DOMAIN s : s[i] = x

\* What is in two tables put together.
LEMMA AmongConcat ==
    ASSUME NEW s \in Seq(Nat), NEW t \in Seq(Nat)
    PROVE  /\ s \o t \in Seq(Nat) /\ Len(s \o t) = Len(s) + Len(t)
           /\ \A x : Among(x, s \o t) <=> Among(x, s) \/ Among(x, t)
           /\ \A i \in 1 .. Len(s) : (s \o t)[i] = s[i]
           /\ \A i \in 1 .. Len(t) : (s \o t)[Len(s) + i] = t[i]
<1>. DEFINE a == Len(s)
            b == Len(t)
            u == s \o t
<1>0. a \in Nat /\ b \in Nat /\ DOMAIN s = 1 .. a /\ DOMAIN t = 1 .. b
  BY LenProperties
<1>1. /\ u \in Seq(Nat) /\ Len(u) = a + b
      /\ \A i \in 1 .. a + b : u[i] = IF i <= a THEN s[i] ELSE t[i - a]
  BY ConcatProperties
<1>2. DOMAIN u = 1 .. a + b
  BY <1>1, LenProperties
<1>. HIDE DEF a, b, u
<1>3. \A i \in 1 .. a : i \in 1 .. a + b /\ u[i] = s[i]
  BY <1>0, <1>1
<1>4. \A i \in 1 .. b : a + i \in 1 .. a + b /\ u[a + i] = t[i]
  <2>1. \A i \in 1 .. b : a + i \in 1 .. a + b /\ ~(a + i <= a) /\ (a + i) - a = i
    BY <1>0
  <2>. QED
    BY <1>1, <2>1
<1>5. \A i \in 1 .. a + b : i \in 1 .. a \/ (i - a \in 1 .. b /\ a + (i - a) = i)
  BY <1>0
<1>6. \A x : Among(x, u) <=> Among(x, s) \/ Among(x, t)
  <2>. SUFFICES ASSUME NEW x PROVE Among(x, u) <=> Among(x, s) \/ Among(x, t)
    OBVIOUS
  <2>1. ASSUME Among(x, u) PROVE Among(x, s) \/ Among(x, t)
    <3>1. PICK i \in 1 .. a + b : u[i] = x
      BY <1>2, <2>1 DEF Among
    <3>2. CASE i \in 1 .. a
      BY <1>0, <1>3, <3>1, <3>2 DEF Among
    <3>3. CASE i - a \in 1 .. b /\ a + (i - a) = i
      <4>1. t[i - a] = x
        BY <1>4, <3>1, <3>3
      <4>. QED
        BY <1>0, <3>3, <4>1 DEF Among
    <3>. QED
      BY <1>5, <3>2, <3>3
  <2>2. ASSUME Among(x, s) PROVE Among(x, u)
    BY <1>0, <1>2, <1>3, <2>2 DEF Among
  <2>3. ASSUME Among(x, t) PROVE Among(x, u)
    BY <1>0, <1>2, <1>4, <2>3 DEF Among
  <2>. QED
    BY <2>1, <2>2, <2>3
<1>. QED
  BY <1>1, <1>3, <1>4, <1>6 DEF a, b, u

\* The parts of the table.
LEMMA Parts ==
    /\ Filter!FsNumbers \in Seq(Nat) /\ Len(Filter!FsNumbers) = 21
    /\ Filter!CLONES \in Seq(Nat) /\ Len(Filter!CLONES) = 3
    /\ <<Filter!EXECVE, Filter!EXECVEAT, Filter!CLONE3>> \in Seq(Nat)
    /\ Len(<<Filter!EXECVE, Filter!EXECVEAT, Filter!CLONE3>>) = 3
    /\ Filter!CrossProcess \in Seq(Nat) /\ Len(Filter!CrossProcess) = 3
    /\ <<Filter!CONNECT, Filter!SENDTO, Filter!BIND>> \in Seq(Nat)
    /\ Len(<<Filter!CONNECT, Filter!SENDTO, Filter!BIND>>) = 3
    /\ Filter!DENIED_RECORDED \in Seq(Nat) /\ Len(Filter!DENIED_RECORDED) = 4
<1>1. Filter!FsNumbers \in Seq(Nat) /\ Len(Filter!FsNumbers) = 21
  BY DEF Filter!FsNumbers
<1>2. Filter!CLONES \in Seq(Nat) /\ Len(Filter!CLONES) = 3
  BY DEF Filter!CLONES
<1>3. /\ <<Filter!EXECVE, Filter!EXECVEAT, Filter!CLONE3>> \in Seq(Nat)
      /\ Len(<<Filter!EXECVE, Filter!EXECVEAT, Filter!CLONE3>>) = 3
  BY DEF Filter!EXECVE, Filter!EXECVEAT, Filter!CLONE3
<1>4. Filter!CrossProcess \in Seq(Nat) /\ Len(Filter!CrossProcess) = 3
  BY DEF Filter!CrossProcess
<1>5. /\ <<Filter!CONNECT, Filter!SENDTO, Filter!BIND>> \in Seq(Nat)
      /\ Len(<<Filter!CONNECT, Filter!SENDTO, Filter!BIND>>) = 3
  BY DEF Filter!CONNECT, Filter!SENDTO, Filter!BIND
<1>6. Filter!DENIED_RECORDED \in Seq(Nat) /\ Len(Filter!DENIED_RECORDED) = 4
  BY DEF Filter!DENIED_RECORDED
<1>. QED
  BY <1>1, <1>2, <1>3, <1>4, <1>5, <1>6

\* The table is its parts, and sendto stands in it once.
LEMMA Table ==
    /\ Filter!Tabled \in Seq(Nat) /\ Len(Filter!Tabled) = 37 /\ DOMAIN Filter!Tabled = 1 .. 37
    /\ \A x : Among(x, Filter!Tabled) <=>
                 \/ Among(x, Filter!FsNumbers) \/ Among(x, Filter!CLONES)
                 \/ x \in {Filter!EXECVE, Filter!EXECVEAT, Filter!CLONE3}
                 \/ Among(x, Filter!CrossProcess)
                 \/ x \in {Filter!CONNECT, Filter!SENDTO, Filter!BIND}
                 \/ Among(x, Filter!DENIED_RECORDED)
    /\ \A i \in 1 .. 37 : Filter!Tabled[i] = Filter!SENDTO <=> i = 32
<1>. DEFINE e == <<Filter!EXECVE, Filter!EXECVEAT, Filter!CLONE3>>
            n == <<Filter!CONNECT, Filter!SENDTO, Filter!BIND>>
            a1 == Filter!FsNumbers \o Filter!CLONES
            a2 == a1 \o e
            a3 == a2 \o Filter!CrossProcess
            a4 == a3 \o n
            a5 == a4 \o Filter!DENIED_RECORDED
<1>a. e \in Seq(Nat) /\ Len(e) = 3 /\ n \in Seq(Nat) /\ Len(n) = 3
  BY Parts
<1>. HIDE DEF e, n, a1, a2, a3, a4, a5
<1>1. /\ a1 \in Seq(Nat) /\ Len(a1) = 24
      /\ \A x : Among(x, a1) <=> Among(x, Filter!FsNumbers) \/ Among(x, Filter!CLONES)
  <2>1. Filter!FsNumbers \in Seq(Nat) /\ Len(Filter!FsNumbers) = 21 /\ Filter!CLONES \in Seq(Nat) /\ Len(Filter!CLONES) = 3
    BY <1>a, Parts
  <2>2. /\ a1 \in Seq(Nat) /\ Len(a1) = Len(Filter!FsNumbers) + Len(Filter!CLONES)
        /\ \A x : Among(x, a1) <=> Among(x, Filter!FsNumbers) \/ Among(x, Filter!CLONES)
        /\ \A i \in 1 .. Len(Filter!FsNumbers) : a1[i] = Filter!FsNumbers[i]
        /\ \A i \in 1 .. Len(Filter!CLONES) : a1[Len(Filter!FsNumbers) + i] = Filter!CLONES[i]
    BY <2>1, AmongConcat DEF a1
  <2>. QED
    BY <2>1, <2>2
<1>2. /\ a2 \in Seq(Nat) /\ Len(a2) = 27
      /\ \A x : Among(x, a2) <=> Among(x, a1) \/ Among(x, e)
  <2>1. a1 \in Seq(Nat) /\ Len(a1) = 24 /\ e \in Seq(Nat) /\ Len(e) = 3
    BY <1>a, <1>1, Parts
  <2>2. /\ a2 \in Seq(Nat) /\ Len(a2) = Len(a1) + Len(e)
        /\ \A x : Among(x, a2) <=> Among(x, a1) \/ Among(x, e)
        /\ \A i \in 1 .. Len(a1) : a2[i] = a1[i]
        /\ \A i \in 1 .. Len(e) : a2[Len(a1) + i] = e[i]
    BY <2>1, AmongConcat DEF a2
  <2>. QED
    BY <2>1, <2>2
<1>3. /\ a3 \in Seq(Nat) /\ Len(a3) = 30
      /\ \A x : Among(x, a3) <=> Among(x, a2) \/ Among(x, Filter!CrossProcess)
  <2>1. a2 \in Seq(Nat) /\ Len(a2) = 27 /\ Filter!CrossProcess \in Seq(Nat) /\ Len(Filter!CrossProcess) = 3
    BY <1>a, <1>2, Parts
  <2>2. /\ a3 \in Seq(Nat) /\ Len(a3) = Len(a2) + Len(Filter!CrossProcess)
        /\ \A x : Among(x, a3) <=> Among(x, a2) \/ Among(x, Filter!CrossProcess)
        /\ \A i \in 1 .. Len(a2) : a3[i] = a2[i]
        /\ \A i \in 1 .. Len(Filter!CrossProcess) : a3[Len(a2) + i] = Filter!CrossProcess[i]
    BY <2>1, AmongConcat DEF a3
  <2>. QED
    BY <2>1, <2>2
<1>4. /\ a4 \in Seq(Nat) /\ Len(a4) = 33
      /\ \A x : Among(x, a4) <=> Among(x, a3) \/ Among(x, n)
      /\ \A i \in 1 .. 30 : a4[i] = a3[i]
      /\ \A i \in 1 .. 3 : a4[30 + i] = n[i]
  <2>1. a3 \in Seq(Nat) /\ Len(a3) = 30 /\ n \in Seq(Nat) /\ Len(n) = 3
    BY <1>a, <1>3, Parts
  <2>2. /\ a4 \in Seq(Nat) /\ Len(a4) = Len(a3) + Len(n)
        /\ \A x : Among(x, a4) <=> Among(x, a3) \/ Among(x, n)
        /\ \A i \in 1 .. Len(a3) : a4[i] = a3[i]
        /\ \A i \in 1 .. Len(n) : a4[Len(a3) + i] = n[i]
    BY <2>1, AmongConcat DEF a4
  <2>. QED
    BY <2>1, <2>2
<1>5. /\ a5 \in Seq(Nat) /\ Len(a5) = 37
      /\ \A x : Among(x, a5) <=> Among(x, a4) \/ Among(x, Filter!DENIED_RECORDED)
      /\ \A i \in 1 .. 33 : a5[i] = a4[i]
      /\ \A i \in 1 .. 4 : a5[33 + i] = Filter!DENIED_RECORDED[i]
  <2>1. a4 \in Seq(Nat) /\ Len(a4) = 33 /\ Filter!DENIED_RECORDED \in Seq(Nat) /\ Len(Filter!DENIED_RECORDED) = 4
    BY <1>a, <1>4, Parts
  <2>2. /\ a5 \in Seq(Nat) /\ Len(a5) = Len(a4) + Len(Filter!DENIED_RECORDED)
        /\ \A x : Among(x, a5) <=> Among(x, a4) \/ Among(x, Filter!DENIED_RECORDED)
        /\ \A i \in 1 .. Len(a4) : a5[i] = a4[i]
        /\ \A i \in 1 .. Len(Filter!DENIED_RECORDED) : a5[Len(a4) + i] = Filter!DENIED_RECORDED[i]
    BY <2>1, AmongConcat DEF a5
  <2>. QED
    BY <2>1, <2>2
<1>6. Filter!Tabled = a5
  BY DEF Filter!Tabled, Filter!MEDIATED, a1, a2, a3, a4, a5, e, n
<1>7. DOMAIN a5 = 1 .. 37
  BY <1>5, LenProperties
<1>8. \A x : Among(x, e) <=> x \in {Filter!EXECVE, Filter!EXECVEAT, Filter!CLONE3}
  BY DEF Among, e
<1>9. \A x : Among(x, n) <=> x \in {Filter!CONNECT, Filter!SENDTO, Filter!BIND}
  BY DEF Among, n
<1>10. /\ ~Among(44, Filter!FsNumbers) /\ ~Among(44, Filter!CLONES) /\ ~Among(44, e)
       /\ ~Among(44, Filter!CrossProcess) /\ ~Among(44, Filter!DENIED_RECORDED)
  <2>1. ~Among(44, Filter!FsNumbers)
    BY DEF Among, Filter!FsNumbers
  <2>2. ~Among(44, Filter!CLONES)
    BY DEF Among, Filter!CLONES
  <2>3. ~Among(44, e)
    BY DEF Among, e, Filter!EXECVE, Filter!EXECVEAT, Filter!CLONE3
  <2>4. ~Among(44, Filter!CrossProcess)
    BY DEF Among, Filter!CrossProcess
  <2>5. ~Among(44, Filter!DENIED_RECORDED)
    BY DEF Among, Filter!DENIED_RECORDED
  <2>. QED
    BY <2>1, <2>2, <2>3, <2>4, <2>5
<1>11. ~Among(44, a3)
  BY <1>1, <1>2, <1>3, <1>10
<1>12. \A i \in 1 .. 37 : a5[i] = Filter!SENDTO <=> i = 32
  <2>. SUFFICES ASSUME NEW i \in 1 .. 37 PROVE a5[i] = 44 <=> i = 32
    BY DEF Filter!SENDTO
  <2>1. CASE i \in 1 .. 30
    <3>1. a5[i] = a3[i] /\ i \in DOMAIN a3
      <4>1. i \in 1 .. 33
        BY <2>1
      <4>2. DOMAIN a3 = 1 .. 30
        BY <1>3, LenProperties
      <4>. QED
        BY <1>4, <1>5, <2>1, <4>1, <4>2
    <3>2. a5[i] # 44
      BY <1>11, <3>1 DEF Among
    <3>. QED
      BY <2>1, <3>2
  <2>2. CASE i \in 31 .. 33
    <3>1. a5[i] = n[i - 30]
      <4>1. i \in 1 .. 33 /\ i - 30 \in 1 .. 3 /\ 30 + (i - 30) = i
        BY <2>2
      <4>2. a5[i] = a4[i]
        BY <1>5, <4>1
      <4>3. a4[30 + (i - 30)] = n[i - 30]
        BY <1>4, <4>1
      <4>. QED
        BY <4>1, <4>2, <4>3
    <3>2. n[1] = 42 /\ n[2] = 44 /\ n[3] = 49
      BY DEF n, Filter!CONNECT, Filter!SENDTO, Filter!BIND
    <3>3. i = 31 \/ i = 32 \/ i = 33
      BY <2>2
    <3>. QED
      BY <3>1, <3>2, <3>3
  <2>3. CASE i \in 34 .. 37
    <3>1. a5[i] = Filter!DENIED_RECORDED[i - 33] /\ i - 33 \in DOMAIN Filter!DENIED_RECORDED
      <4>1. i - 33 \in 1 .. 4 /\ 33 + (i - 33) = i
        BY <2>3
      <4>2. DOMAIN Filter!DENIED_RECORDED = 1 .. 4
        BY Parts, LenProperties
      <4>. QED
        BY <1>5, <4>1, <4>2
    <3>2. a5[i] # 44
      BY <1>10, <3>1 DEF Among
    <3>. QED
      BY <2>3, <3>2
  <2>. QED
    BY <2>1, <2>2, <2>3
<1>13. \A x : Among(x, a5) <=>
         \/ Among(x, Filter!FsNumbers) \/ Among(x, Filter!CLONES)
         \/ x \in {Filter!EXECVE, Filter!EXECVEAT, Filter!CLONE3}
         \/ Among(x, Filter!CrossProcess)
         \/ x \in {Filter!CONNECT, Filter!SENDTO, Filter!BIND}
         \/ Among(x, Filter!DENIED_RECORDED)
  BY <1>1, <1>2, <1>3, <1>4, <1>5, <1>8, <1>9
<1>. QED
  BY <1>5, <1>6, <1>7, <1>12, <1>13

-----------------------------------------------------------------------------
(***************************************************************************)
(* The layout of the program: 37 numbers, sendto the 32nd of them.         *)
(***************************************************************************)

\* Lengths, offsets of the blocks and jump distances of build_filter.
LEMMA Sizes ==
    /\ Filter!len = 47 /\ Filter!allow_pc = 45 /\ Filter!notif_pc = 46
    /\ Filter!SendtoAt = 32
    /\ \A i \in 1 .. 37 : Filter!PcOf(i) = IF i > 32 THEN i + 7 ELSE i + 3
    /\ \A at \in 0 .. 45 : Filter!jump_to_notif(at) = 45 - at
    /\ \A at \in 0 .. 44 : Filter!jump_to_allow(at) = 44 - at
<1>1. Filter!len = 47 /\ Filter!allow_pc = 45 /\ Filter!notif_pc = 46
  BY Table DEF Filter!len, Filter!allow_pc, Filter!notif_pc
<1>2. Filter!SendtoAt = 32
  <2>1. 32 \in DOMAIN Filter!Tabled /\ Filter!Tabled[32] = Filter!SENDTO
    BY Table
  <2>2. Filter!SendtoAt \in DOMAIN Filter!Tabled /\ Filter!Tabled[Filter!SendtoAt] = Filter!SENDTO
    BY <2>1, Zenon DEF Filter!SendtoAt
  <2>. QED
    BY <2>2, Table
<1>3. \A i \in 1 .. 37 : Filter!PcOf(i) = IF i > 32 THEN i + 7 ELSE i + 3
  BY <1>2 DEF Filter!PcOf
<1>4. \A at \in 0 .. 45 : Filter!jump_to_notif(at) = 45 - at
  BY <1>1 DEF Filter!jump_to_notif
<1>5. \A at \in 0 .. 44 : Filter!jump_to_allow(at) = 44 - at
  BY <1>1 DEF Filter!jump_to_allow
<1>. QED
  BY <1>1, <1>2, <1>3, <1>4, <1>5

\* The block of a number other than sendto is one instruction, that of sendto five.
LEMMA Blocks ==
    /\ \A i \in 1 .. 37 :
          i # 32 => Filter!Block(i) = <<Filter!Instr("jeq", 45 - Filter!PcOf(i), 0, Filter!Tabled[i])>>
    /\ Filter!Block(32) =
          << Filter!Instr("jeq", 0, 4, Filter!SENDTO),
             Filter!Load("SENDTO_DEST_LO"), Filter!Instr("jeq", 0, 8, 0),
             Filter!Load("SENDTO_DEST_HI"), Filter!Instr("jeq", 5, 6, 0) >>
<1>1. ASSUME NEW i \in 1 .. 37, i # 32
      PROVE  Filter!Block(i) = <<Filter!Instr("jeq", 45 - Filter!PcOf(i), 0, Filter!Tabled[i])>>
  <2>1. Filter!Tabled[i] # Filter!SENDTO
    BY <1>1, Table
  <2>2. Filter!PcOf(i) \in 0 .. 45
    BY Sizes
  <2>3. Filter!jump_to_notif(Filter!PcOf(i)) = 45 - Filter!PcOf(i)
    BY <2>2, Sizes
  <2>. QED
    BY <2>1, <2>3 DEF Filter!Block
<1>2. Filter!Block(32) = Filter!SendtoBlock(35)
  <2>1. Filter!Tabled[32] = Filter!SENDTO
    BY Table
  <2>2. Filter!PcOf(32) = 35
    BY Sizes
  <2>. QED
    BY <2>1, <2>2 DEF Filter!Block
<1>3. /\ Filter!jump_to_notif(37) = 8 /\ Filter!jump_to_notif(39) = 6
      /\ Filter!jump_to_allow(39) = 5
  BY Sizes
<1>4. Filter!SendtoBlock(35) =
          << Filter!Instr("jeq", 0, 4, Filter!SENDTO),
             Filter!Load("SENDTO_DEST_LO"), Filter!Instr("jeq", 0, 8, 0),
             Filter!Load("SENDTO_DEST_HI"), Filter!Instr("jeq", 5, 6, 0) >>
  <2>1. 35 + 2 = 37 /\ 35 + 4 = 39
    OBVIOUS
  <2>. QED
    BY <1>3, <2>1 DEF Filter!SendtoBlock
<1>. QED
  BY <1>1, <1>2, <1>4

\* Each number has one instruction, sendto five (filter.rs build_filter).
LEMMA BlockSizes ==
    \A i \in 1 .. 37 : Len(Filter!Block(i)) = IF i = 32 THEN 5 ELSE 1
<1>. SUFFICES ASSUME NEW i \in 1 .. 37 PROVE Len(Filter!Block(i)) = IF i = 32 THEN 5 ELSE 1
  OBVIOUS
<1>1. CASE i = 32
  BY <1>1, Blocks
<1>2. CASE i # 32
  BY <1>2, Blocks
<1>. QED
  BY <1>1, <1>2

\* An instruction belongs to one block.
LEMMA Owners ==
    ASSUME NEW i \in 1 .. 37, NEW at \in Nat,
           Filter!PcOf(i) <= at, at < Filter!PcOf(i) + Len(Filter!Block(i))
    PROVE  Filter!Owner(at) = i
<1>1. DOMAIN Filter!Tabled = 1 .. 37
  BY Table
<1>2. /\ Filter!Owner(at) \in 1 .. 37
      /\ Filter!PcOf(Filter!Owner(at)) <= at
      /\ at < Filter!PcOf(Filter!Owner(at)) + Len(Filter!Block(Filter!Owner(at)))
  <2>1. \E j \in DOMAIN Filter!Tabled :
           Filter!PcOf(j) <= at /\ at < Filter!PcOf(j) + Len(Filter!Block(j))
    BY <1>1
  <2>. QED
    BY <1>1, <2>1, Zenon DEF Filter!Owner
<1>3. ASSUME NEW j \in 1 .. 37, Filter!PcOf(j) <= at, at < Filter!PcOf(j) + Len(Filter!Block(j))
      PROVE  j = i
  <2>1. /\ Filter!PcOf(j) = IF j > 32 THEN j + 7 ELSE j + 3
        /\ Filter!PcOf(i) = IF i > 32 THEN i + 7 ELSE i + 3
    BY Sizes
  <2>2. /\ Len(Filter!Block(j)) = IF j = 32 THEN 5 ELSE 1
        /\ Len(Filter!Block(i)) = IF i = 32 THEN 5 ELSE 1
    BY BlockSizes
  <2>. QED
    BY <1>3, <2>1, <2>2
<1>. QED
  BY <1>2, <1>3

\* The instruction at a counter.
At(at) == Filter!build_filter[at + 1]

\* The program is the header, the blocks one after the other and the returns
\* (build_filter).
LEMMA Program ==
    /\ At(0) = Filter!Load("ARCH")
    /\ At(1) = Filter!Instr("jeq", 0, 44, Filter!AUDIT_ARCH_X86_64)
    /\ At(2) = Filter!Load("NR")
    /\ At(3) = Filter!Instr("jset", 42, 0, Filter!X32_SYSCALL_BIT)
    /\ \A i \in 1 .. 37 : i # 32 =>
          At(Filter!PcOf(i)) = Filter!Instr("jeq", 45 - Filter!PcOf(i), 0, Filter!Tabled[i])
    /\ At(35) = Filter!Instr("jeq", 0, 4, Filter!SENDTO)
    /\ At(36) = Filter!Load("SENDTO_DEST_LO")
    /\ At(37) = Filter!Instr("jeq", 0, 8, 0)
    /\ At(38) = Filter!Load("SENDTO_DEST_HI")
    /\ At(39) = Filter!Instr("jeq", 5, 6, 0)
    /\ At(45) = Filter!Return("allow") /\ At(46) = Filter!Return("notif")
<1>1. Filter!build_filter =
        [n \in 1 .. 47 |->
            IF n <= 4 THEN Filter!Header[n]
            ELSE IF n <= 45
            THEN Filter!Block(Filter!Owner(n - 1))[n - Filter!PcOf(Filter!Owner(n - 1))]
            ELSE <<Filter!Return("allow"), Filter!Return("notif")>>[n - 45]]
  BY Sizes DEF Filter!build_filter
<1>2. /\ \A n \in 1 .. 4 : Filter!build_filter[n] = Filter!Header[n]
      /\ \A n \in 5 .. 45 : Filter!build_filter[n] =
            Filter!Block(Filter!Owner(n - 1))[n - Filter!PcOf(Filter!Owner(n - 1))]
      /\ \A n \in 46 .. 47 : Filter!build_filter[n] =
            <<Filter!Return("allow"), Filter!Return("notif")>>[n - 45]
  BY <1>1
<1>3. /\ At(0) = Filter!Load("ARCH")
      /\ At(1) = Filter!Instr("jeq", 0, 44, Filter!AUDIT_ARCH_X86_64)
      /\ At(2) = Filter!Load("NR")
      /\ At(3) = Filter!Instr("jset", 42, 0, Filter!X32_SYSCALL_BIT)
  <2>1. At(0) = Filter!Header[1] /\ At(1) = Filter!Header[2]
           /\ At(2) = Filter!Header[3] /\ At(3) = Filter!Header[4]
    BY <1>2 DEF At
  <2>2. Filter!jump_to_notif(1) = 44 /\ Filter!jump_to_notif(3) = 42
    BY Sizes
  <2>. QED
    BY <2>1, <2>2 DEF Filter!Header
<1>4. ASSUME NEW i \in 1 .. 37, NEW d \in 0 .. 4, d < Len(Filter!Block(i))
      PROVE  At(Filter!PcOf(i) + d) = Filter!Block(i)[d + 1]
  <2>. DEFINE c == Filter!PcOf(i)
              size == Len(Filter!Block(i))
              at == c + d
  <2>1. c = IF i > 32 THEN i + 7 ELSE i + 3
    BY Sizes
  <2>2. size = IF i = 32 THEN 5 ELSE 1
    BY BlockSizes
  <2>3. d < size
    BY <1>4
  <2>. HIDE DEF c, size
  <2>4. /\ at \in Nat /\ c <= at /\ at < c + size
        /\ (at + 1) - c = d + 1 /\ (at + 1) - 1 = at /\ at + 1 \in 5 .. 45
    <3>1. c \in Nat
      BY <2>1
    <3>2. c + d \in Nat /\ c <= c + d /\ c + d < c + size
      BY <2>2, <2>3, <3>1
    <3>3. (c + d + 1) - c = d + 1 /\ (c + d + 1) - 1 = c + d
      BY <3>1
    <3>4. c + d + 1 \in 5 .. 45
      BY <2>1, <2>2, <2>3
    <3>. QED
      BY <3>2, <3>3, <3>4
  <2>. HIDE DEF at
  <2>5. Filter!Owner(at) = i
    BY <2>4, Owners DEF c, size
  <2>6. At(at) = Filter!Block(Filter!Owner((at + 1) - 1))[(at + 1) - Filter!PcOf(Filter!Owner((at + 1) - 1))]
    BY <1>2, <2>4 DEF At
  <2>7. At(at) = Filter!Block(i)[(at + 1) - c]
    BY <2>4, <2>5, <2>6 DEF c
  <2>8. At(at) = Filter!Block(i)[d + 1]
    BY <2>4, <2>7
  <2>. QED
    BY <2>8 DEF at, c
<1>b. \A i \in 1 .. 37 : \A d \in 0 .. 4 :
         d < Len(Filter!Block(i)) => At(Filter!PcOf(i) + d) = Filter!Block(i)[d + 1]
  BY <1>4
<1>5. ASSUME NEW i \in 1 .. 37, i # 32
      PROVE  At(Filter!PcOf(i)) = Filter!Instr("jeq", 45 - Filter!PcOf(i), 0, Filter!Tabled[i])
  <2>1. Len(Filter!Block(i)) = 1
    BY <1>5, BlockSizes
  <2>2. At(Filter!PcOf(i) + 0) = Filter!Block(i)[0 + 1]
    <3>1. 0 \in 0 .. 4 /\ 0 < 1
      OBVIOUS
    <3>. QED
      BY <1>b, <2>1, <3>1, Zenon
  <2>3. Filter!PcOf(i) + 0 = Filter!PcOf(i)
    BY Sizes
  <2>4. Filter!Block(i) = <<Filter!Instr("jeq", 45 - Filter!PcOf(i), 0, Filter!Tabled[i])>>
    BY <1>5, Blocks
  <2>. QED
    BY <2>2, <2>3, <2>4
<1>6. /\ At(35) = Filter!Block(32)[1] /\ At(36) = Filter!Block(32)[2]
      /\ At(37) = Filter!Block(32)[3] /\ At(38) = Filter!Block(32)[4]
      /\ At(39) = Filter!Block(32)[5]
  <2>1. Filter!PcOf(32) = 35 /\ Len(Filter!Block(32)) = 5
    BY Sizes, BlockSizes
  <2>2. \A d \in 0 .. 4 : At(35 + d) = Filter!Block(32)[d + 1]
    <3>. SUFFICES ASSUME NEW d \in 0 .. 4 PROVE At(35 + d) = Filter!Block(32)[d + 1]
      OBVIOUS
    <3>1. 32 \in 1 .. 37 /\ d < 5
      OBVIOUS
    <3>. QED
      BY <1>b, <2>1, <3>1, Zenon
  <2>3. /\ 35 + 0 = 35 /\ 35 + 1 = 36 /\ 35 + 2 = 37 /\ 35 + 3 = 38 /\ 35 + 4 = 39
        /\ 0 + 1 = 1 /\ 1 + 1 = 2 /\ 2 + 1 = 3 /\ 3 + 1 = 4 /\ 4 + 1 = 5
    OBVIOUS
  <2>. QED
    BY <2>2, <2>3
<1>7. /\ At(35) = Filter!Instr("jeq", 0, 4, Filter!SENDTO)
      /\ At(36) = Filter!Load("SENDTO_DEST_LO")
      /\ At(37) = Filter!Instr("jeq", 0, 8, 0)
      /\ At(38) = Filter!Load("SENDTO_DEST_HI")
      /\ At(39) = Filter!Instr("jeq", 5, 6, 0)
  BY <1>6, Blocks
<1>8. At(45) = Filter!Return("allow") /\ At(46) = Filter!Return("notif")
  BY <1>2 DEF At
<1>. QED
  BY <1>3, <1>5, <1>7, <1>8


-----------------------------------------------------------------------------
(***************************************************************************)
(* What the program knows of a call when it is at a counter.               *)
(***************************************************************************)

Foreign(call) ==
    \/ call.ARCH # Filter!AUDIT_ARCH_X86_64
    \/ Filter!HasBit(call.NR, Filter!X32_SYSCALL_BIT)

\* The calls the tables notify.
ToNotify(call) ==
    \/ Foreign(call)
    \/ /\ Among(call.NR, Filter!Tabled)
       /\ call.NR = Filter!SENDTO => ~Filter!DestIsNull(call)

\* A call of this ABI that is none of the first i - 1 numbers.
Sought(call, i) == ~Foreign(call) /\ \A j \in 1 .. i - 1 : Filter!Tabled[j] # call.NR

Sendto(call) == ~Foreign(call) /\ call.NR = Filter!SENDTO

\* The counter at with the accumulator a.
Reached(call, at, a) ==
    /\ at = 1 => a = call.ARCH
    /\ at \in {2, 3} => call.ARCH = Filter!AUDIT_ARCH_X86_64
    /\ at = 3 => a = call.NR
    /\ \A i \in 1 .. 37 : at = Filter!PcOf(i) => a = call.NR /\ Sought(call, i)
    /\ at \in 36 .. 39 => Sendto(call)
    /\ at = 37 => a = call.SENDTO_DEST_LO
    /\ at \in {38, 39} => call.SENDTO_DEST_LO = 0
    /\ at = 39 => a = call.SENDTO_DEST_HI
    /\ at = 45 => ~ToNotify(call)
    /\ at = 46 => ToNotify(call)

\* The blocks stand at the counters from 4 to 35 and from 40 to 44.
LEMMA Counters ==
    /\ \A i \in 1 .. 37 : Filter!PcOf(i) \in (4 .. 35) \cup (40 .. 44)
    /\ \A i, j \in 1 .. 37 : Filter!PcOf(i) = Filter!PcOf(j) => i = j
    /\ \A at \in (4 .. 35) \cup (40 .. 44) : \E i \in 1 .. 37 : at = Filter!PcOf(i)
<1>. DEFINE P(i) == Filter!PcOf(i)
<1>0. \A i \in 1 .. 37 : P(i) = IF i > 32 THEN i + 7 ELSE i + 3
  BY Sizes
<1>. HIDE DEF P
<1>1. \A i \in 1 .. 37 : P(i) \in (4 .. 35) \cup (40 .. 44)
  BY <1>0
<1>2. \A i, j \in 1 .. 37 : P(i) = P(j) => i = j
  BY <1>0
<1>3. ASSUME NEW at \in (4 .. 35) \cup (40 .. 44)
      PROVE  \E i \in 1 .. 37 : at = P(i)
  <2>1. CASE at \in 4 .. 35
    <3>1. at - 3 \in 1 .. 37 /\ P(at - 3) = at
      BY <1>0, <2>1
    <3>. QED
      BY <3>1
  <2>2. CASE at \in 40 .. 44
    <3>1. at - 7 \in 1 .. 37 /\ P(at - 7) = at
      BY <1>0, <2>2
    <3>. QED
      BY <3>1
  <2>. QED
    BY <2>1, <2>2
<1>. QED
  BY <1>1, <1>2, <1>3 DEF P

\* At a counter outside the blocks there is nothing to know of the table.
LEMMA OutsideBlocks ==
    ASSUME NEW at \in {0, 1, 2, 3, 36, 37, 38, 39, 45, 46}
    PROVE  \A i \in 1 .. 37 : at # Filter!PcOf(i)
<1>1. at \notin (4 .. 35) \cup (40 .. 44)
  OBVIOUS
<1>. QED
  BY <1>1, Counters, Zenon

\* The returns, the way every jump ends.
LEMMA AtReturns ==
    ASSUME NEW call, NEW a
    PROVE  /\ ToNotify(call) => Reached(call, 46, a)
           /\ ~ToNotify(call) => Reached(call, 45, a)
<1>1. \A i \in 1 .. 37 : 46 # Filter!PcOf(i) /\ 45 # Filter!PcOf(i)
  BY OutsideBlocks
<1>2. ToNotify(call) => Reached(call, 46, a)
  BY <1>1 DEF Reached
<1>3. ~ToNotify(call) => Reached(call, 45, a)
  BY <1>1 DEF Reached
<1>. QED
  BY <1>2, <1>3

\* A block is entered when its number is the one sought.
LEMMA AtBlock ==
    ASSUME NEW call, NEW i \in 1 .. 37, Sought(call, i)
    PROVE  Reached(call, Filter!PcOf(i), call.NR)
<1>. DEFINE c == Filter!PcOf(i)
<1>1. c \in (4 .. 35) \cup (40 .. 44)
  BY Counters
<1>2. \A j \in 1 .. 37 : c = Filter!PcOf(j) => j = i
  BY Counters
<1>. HIDE DEF c
<1>3. \A j \in 1 .. 37 : c = Filter!PcOf(j) => call.NR = call.NR /\ Sought(call, j)
  BY <1>2
<1>4. c \notin {1, 2, 3, 37, 38, 39, 45, 46} /\ c \notin 36 .. 39
  BY <1>1
<1>5. Reached(call, c, call.NR)
  BY <1>3, <1>4 DEF Reached
<1>. QED
  BY <1>5 DEF c

\* The header: another architecture and another ABI are notified.
LEMMA HeaderStep ==
    ASSUME NEW call, NEW a
    PROVE  /\ Reached(call, 1, call.ARCH)
           /\ Reached(call, 1, a) =>
                 IF a = Filter!AUDIT_ARCH_X86_64 THEN Reached(call, 2, a)
                 ELSE Reached(call, 46, a)
           /\ Reached(call, 2, a) => Reached(call, 3, call.NR)
           /\ Reached(call, 3, a) =>
                 IF Filter!HasBit(a, Filter!X32_SYSCALL_BIT) THEN Reached(call, 46, a)
                 ELSE Reached(call, 4, a)
<1>0. \A i \in 1 .. 37 : 1 # Filter!PcOf(i) /\ 2 # Filter!PcOf(i) /\ 3 # Filter!PcOf(i)
  BY OutsideBlocks
<1>1. Reached(call, 1, call.ARCH)
  BY <1>0 DEF Reached
<1>2. ASSUME Reached(call, 1, a)
      PROVE  IF a = Filter!AUDIT_ARCH_X86_64 THEN Reached(call, 2, a) ELSE Reached(call, 46, a)
  <2>1. a = call.ARCH
    BY <1>2 DEF Reached
  <2>2. CASE a = Filter!AUDIT_ARCH_X86_64
    BY <1>0, <2>1, <2>2 DEF Reached
  <2>3. CASE a # Filter!AUDIT_ARCH_X86_64
    BY <2>1, <2>3, AtReturns DEF ToNotify, Foreign
  <2>. QED
    BY <2>2, <2>3
<1>3. ASSUME Reached(call, 2, a) PROVE Reached(call, 3, call.NR)
  <2>1. call.ARCH = Filter!AUDIT_ARCH_X86_64
    BY <1>3 DEF Reached
  <2>. QED
    BY <1>0, <2>1 DEF Reached
<1>4. ASSUME Reached(call, 3, a)
      PROVE  IF Filter!HasBit(a, Filter!X32_SYSCALL_BIT) THEN Reached(call, 46, a)
             ELSE Reached(call, 4, a)
  <2>1. a = call.NR /\ call.ARCH = Filter!AUDIT_ARCH_X86_64
    BY <1>4 DEF Reached
  <2>2. CASE Filter!HasBit(a, Filter!X32_SYSCALL_BIT)
    BY <2>1, <2>2, AtReturns DEF ToNotify, Foreign
  <2>3. CASE ~Filter!HasBit(a, Filter!X32_SYSCALL_BIT)
    <3>1. ~Foreign(call)
      BY <2>1, <2>3 DEF Foreign
    <3>2. Sought(call, 1)
      BY <3>1 DEF Sought
    <3>3. Filter!PcOf(1) = 4
      BY Sizes
    <3>4. Reached(call, Filter!PcOf(1), call.NR)
      BY <3>2, AtBlock
    <3>. QED
      BY <2>1, <2>3, <3>3, <3>4
  <2>. QED
    BY <2>2, <2>3
<1>. QED
  BY <1>1, <1>2, <1>3, <1>4

\* A number that is not the block's is looked for in the next, and after the
\* last it is none of the table's.
LEMMA NextBlock ==
    ASSUME NEW call, NEW i \in 1 .. 37, Sought(call, i), Filter!Tabled[i] # call.NR
    PROVE  IF i = 32 THEN Reached(call, 40, call.NR)
           ELSE Reached(call, Filter!PcOf(i) + 1, call.NR)
<1>1. \A j \in 1 .. i : Filter!Tabled[j] # call.NR
  <2>. SUFFICES ASSUME NEW j \in 1 .. i PROVE Filter!Tabled[j] # call.NR
    OBVIOUS
  <2>1. j = i \/ j \in 1 .. i - 1
    OBVIOUS
  <2>. QED
    BY <2>1 DEF Sought
<1>2. CASE i = 37
  <2>1. ~ToNotify(call)
    <3>1. DOMAIN Filter!Tabled = 1 .. 37
      BY Table
    <3>2. ~Among(call.NR, Filter!Tabled)
      BY <1>1, <1>2, <3>1 DEF Among
    <3>. QED
      BY <3>2 DEF ToNotify, Sought
  <2>2. Filter!PcOf(37) = 44
    BY Sizes
  <2>3. Filter!PcOf(i) + 1 = 45
    BY <1>2, <2>2
  <2>4. Reached(call, 45, call.NR)
    BY <2>1, AtReturns
  <2>. QED
    BY <1>2, <2>3, <2>4
<1>3. CASE i # 37
  <2>1. i + 1 \in 1 .. 37 /\ (i + 1) - 1 = i
    BY <1>3
  <2>2. Sought(call, i + 1)
    BY <1>1, <2>1 DEF Sought
  <2>3. Reached(call, Filter!PcOf(i + 1), call.NR)
    BY <2>1, <2>2, AtBlock
  <2>4. CASE i = 32
    <3>1. Filter!PcOf(33) = 40 /\ i + 1 = 33
      BY <2>4, Sizes
    <3>. QED
      BY <2>3, <2>4, <3>1
  <2>5. CASE i # 32
    <3>1. Filter!PcOf(i + 1) = Filter!PcOf(i) + 1
      <4>1. /\ Filter!PcOf(i) = IF i > 32 THEN i + 7 ELSE i + 3
            /\ Filter!PcOf(i + 1) = IF i + 1 > 32 THEN (i + 1) + 7 ELSE (i + 1) + 3
        BY <2>1, Sizes
      <4>2. CASE i > 32
        BY <4>1, <4>2
      <4>3. CASE i < 32
        BY <4>1, <4>3
      <4>. QED
        BY <2>5, <4>2, <4>3
    <3>. QED
      BY <2>3, <2>5, <3>1
  <2>. QED
    BY <2>4, <2>5
<1>. QED
  BY <1>2, <1>3

\* A number other than sendto is notified, whatever its arguments.
LEMMA BlockStep ==
    ASSUME NEW call, NEW i \in 1 .. 37, i # 32, NEW a, Reached(call, Filter!PcOf(i), a)
    PROVE  IF a = Filter!Tabled[i] THEN Reached(call, 46, a)
           ELSE Reached(call, Filter!PcOf(i) + 1, a)
<1>1. a = call.NR /\ Sought(call, i)
  BY DEF Reached
<1>2. CASE a = Filter!Tabled[i]
  <2>1. DOMAIN Filter!Tabled = 1 .. 37 /\ Filter!Tabled[i] # Filter!SENDTO
    BY Table
  <2>2. ToNotify(call)
    BY <1>1, <1>2, <2>1 DEF ToNotify, Among
  <2>. QED
    BY <1>2, <2>2, AtReturns
<1>3. CASE a # Filter!Tabled[i]
  BY <1>1, <1>3, NextBlock
<1>. QED
  BY <1>2, <1>3

\* A sendto is notified unless both halves of its destination are zero.
LEMMA SendtoStep ==
    ASSUME NEW call, NEW a
    PROVE  /\ Reached(call, 35, a) =>
                 IF a = Filter!SENDTO THEN Reached(call, 36, a) ELSE Reached(call, 40, a)
           /\ Reached(call, 36, a) => Reached(call, 37, call.SENDTO_DEST_LO)
           /\ Reached(call, 37, a) =>
                 IF a = 0 THEN Reached(call, 38, a) ELSE Reached(call, 46, a)
           /\ Reached(call, 38, a) => Reached(call, 39, call.SENDTO_DEST_HI)
           /\ Reached(call, 39, a) =>
                 IF a = 0 THEN Reached(call, 45, a) ELSE Reached(call, 46, a)
<1>0. \A i \in 1 .. 37 : /\ 36 # Filter!PcOf(i) /\ 37 # Filter!PcOf(i)
                         /\ 38 # Filter!PcOf(i) /\ 39 # Filter!PcOf(i)
  BY OutsideBlocks
<1>1. Sendto(call) => Among(call.NR, Filter!Tabled)
  BY Table DEF Sendto
<1>2. ASSUME Reached(call, 35, a)
      PROVE  IF a = Filter!SENDTO THEN Reached(call, 36, a) ELSE Reached(call, 40, a)
  <2>1. Filter!PcOf(32) = 35 /\ 32 \in 1 .. 37
    BY Sizes
  <2>2. a = call.NR /\ Sought(call, 32)
    BY <1>2, <2>1 DEF Reached
  <2>3. CASE a = Filter!SENDTO
    <3>1. Sendto(call)
      BY <2>2, <2>3 DEF Sendto, Sought
    <3>2. Reached(call, 36, a)
      BY <1>0, <3>1 DEF Reached
    <3>. QED
      BY <2>3, <3>2
  <2>4. CASE a # Filter!SENDTO
    <3>1. Filter!Tabled[32] = Filter!SENDTO
      BY Table
    <3>2. Reached(call, 40, call.NR)
      BY <2>1, <2>2, <2>4, <3>1, NextBlock
    <3>. QED
      BY <2>2, <2>4, <3>2
  <2>. QED
    BY <2>3, <2>4
<1>3. ASSUME Reached(call, 36, a) PROVE Reached(call, 37, call.SENDTO_DEST_LO)
  <2>1. Sendto(call)
    BY <1>3 DEF Reached
  <2>. QED
    BY <1>0, <2>1 DEF Reached
<1>4. ASSUME Reached(call, 37, a)
      PROVE  IF a = 0 THEN Reached(call, 38, a) ELSE Reached(call, 46, a)
  <2>1. Sendto(call) /\ a = call.SENDTO_DEST_LO
    BY <1>4 DEF Reached
  <2>2. CASE a = 0
    BY <1>0, <2>1, <2>2 DEF Reached
  <2>3. CASE a # 0
    <3>1. ToNotify(call)
      BY <1>1, <2>1, <2>3 DEF ToNotify, Filter!DestIsNull
    <3>. QED
      BY <2>3, <3>1, AtReturns
  <2>. QED
    BY <2>2, <2>3
<1>5. ASSUME Reached(call, 38, a) PROVE Reached(call, 39, call.SENDTO_DEST_HI)
  <2>1. Sendto(call) /\ call.SENDTO_DEST_LO = 0
    BY <1>5 DEF Reached
  <2>. QED
    BY <1>0, <2>1 DEF Reached
<1>6. ASSUME Reached(call, 39, a)
      PROVE  IF a = 0 THEN Reached(call, 45, a) ELSE Reached(call, 46, a)
  <2>1. Sendto(call) /\ call.SENDTO_DEST_LO = 0 /\ a = call.SENDTO_DEST_HI
    BY <1>6 DEF Reached
  <2>2. CASE a = 0
    <3>1. ~ToNotify(call)
      BY <2>1, <2>2 DEF ToNotify, Sendto, Filter!DestIsNull
    <3>. QED
      BY <2>2, <3>1, AtReturns
  <2>3. CASE a # 0
    <3>1. ToNotify(call)
      BY <1>1, <2>1, <2>3 DEF ToNotify, Filter!DestIsNull
    <3>. QED
      BY <2>3, <3>1, AtReturns
  <2>. QED
    BY <2>2, <2>3
<1>. QED
  BY <1>2, <1>3, <1>4, <1>5, <1>6

-----------------------------------------------------------------------------
(***************************************************************************)
(* One instruction of the interpreter, and the inductive invariant.        *)
(***************************************************************************)

\* An instruction changes the counter and, when it loads, the accumulator.
LEMMA LoadStep ==
    ASSUME NEW w, Filter!Step, program[run.pc + 1] = Filter!Load(w)
    PROVE  run' = [run EXCEPT !.pc = run.pc + 1, !.acc = run.data[w]]
BY DEF Filter!Step, Filter!Load, Filter!Instr

\* What the interpreter does at a comparison.
LEMMA JeqStep ==
    ASSUME NEW jt, NEW jf, NEW k, Filter!Step,
           program[run.pc + 1] = Filter!Instr("jeq", jt, jf, k)
    PROVE  run' = [run EXCEPT !.pc = run.pc + 1 + IF run.acc = k THEN jt ELSE jf]
BY DEF Filter!Step, Filter!Instr

\* What the interpreter does at a test of a bit.
LEMMA JsetStep ==
    ASSUME NEW jt, NEW jf, NEW k, Filter!Step,
           program[run.pc + 1] = Filter!Instr("jset", jt, jf, k)
    PROVE  run' = [run EXCEPT !.pc =
                     run.pc + 1 + IF Filter!HasBit(run.acc, k) THEN jt ELSE jf]
BY DEF Filter!Step, Filter!Instr

\* What the interpreter does at a return.
LEMMA ReturnStep ==
    ASSUME NEW value, Filter!Step, program[run.pc + 1] = Filter!Return(value)
    PROVE  run' = [run EXCEPT !.ret = value]
BY DEF Filter!Step, Filter!Return, Filter!Instr

Handlers ==
    { "none", "foreign_abi", "denied_recorded", "fs", "exec", "process", "network",
      "cross_process", "unrecorded" }

Runs == [ data : [Filter!Word -> Nat], pc : 0 .. 46, acc : Nat,
          ret : {"none", "allow", "notif"}, handler : Handlers ]

\* A call that is still sorted has the knowledge of its counter; a sorted one
\* went the way of the tables and, once dispatched, has its handler.
FilterRun ==
    /\ program = Filter!build_filter
    /\ run \in Runs
    /\ run.ret = "none" => run.handler = "none" /\ Reached(run.data, run.pc, run.acc)
    /\ run.ret = "allow" => ~ToNotify(run.data)
    /\ run.ret = "notif" => ToNotify(run.data)
    /\ run.handler # "none" =>
          run.ret = "notif" /\ run.handler = Filter!handle_notification(run.data)

FilterInv == IF leaf = "filter" THEN FilterRun ELSE run.handler = "none"

\* The run that goes on at a counter.
LEMMA GoesOn ==
    ASSUME FilterRun, run.ret = "none", NEW at \in 0 .. 46, NEW a \in Nat,
           run' = [run EXCEPT !.pc = at, !.acc = a],
           Reached(run.data, at, a), program' = program
    PROVE  FilterRun'
<1>1. /\ run' \in Runs /\ run'.data = run.data /\ run'.pc = at /\ run'.acc = a
      /\ run'.ret = "none" /\ run'.handler = run.handler
  BY DEF FilterRun, Runs
<1>2. run'.handler = "none"
  BY <1>1 DEF FilterRun
<1>. QED
  BY <1>1, <1>2 DEF FilterRun

\* Every instruction keeps the invariant.
LEMMA StepKeeps ==
    ASSUME FilterRun, Filter!Step
    PROVE  FilterRun'
<1>. DEFINE call == run.data
            at == run.pc
            a == run.acc
<1>1. /\ run.ret = "none" /\ program' = program
      /\ Reached(call, at, a)
      /\ at \in 0 .. 46 /\ a \in Nat /\ run.handler = "none"
      /\ call \in [Filter!Word -> Nat]
  BY DEF FilterRun, Filter!Step, Runs
<1>2. program[at + 1] = At(at)
  BY DEF FilterRun, At
<1>3. /\ call.ARCH = call["ARCH"] /\ call.NR = call["NR"]
      /\ call.SENDTO_DEST_LO = call["SENDTO_DEST_LO"]
      /\ call.SENDTO_DEST_HI = call["SENDTO_DEST_HI"]
      /\ \A w \in Filter!Word : call[w] \in Nat
  BY <1>1
<1>4. \A w \in {"ARCH", "NR", "SENDTO_DEST_LO", "SENDTO_DEST_HI"} : call[w] \in Nat
  BY <1>3 DEF Filter!Word
<1>5. ASSUME NEW w \in {"ARCH", "NR", "SENDTO_DEST_LO", "SENDTO_DEST_HI"},
             At(at) = Filter!Load(w), at \in 0 .. 45,
             Reached(call, at + 1, call[w])
      PROVE  FilterRun'
  <2>1. run' = [run EXCEPT !.pc = run.pc + 1, !.acc = run.data[w]]
    BY <1>2, <1>5, LoadStep
  <2>2. at + 1 \in 0 .. 46 /\ call[w] \in Nat
    BY <1>4, <1>5
  <2>. QED
    BY <1>1, <1>5, <2>1, <2>2, GoesOn
<1>6. ASSUME NEW next \in 0 .. 46, run' = [run EXCEPT !.pc = next], Reached(call, next, a)
      PROVE  FilterRun'
  <2>1. run' = [run EXCEPT !.pc = next, !.acc = a]
    BY <1>6 DEF FilterRun, Runs
  <2>. QED
    BY <1>1, <1>6, <2>1, GoesOn
<1>7. ASSUME NEW jt \in 0 .. 46, NEW jf \in 0 .. 46, NEW k,
             At(at) = Filter!Instr("jeq", jt, jf, k),
             at + 1 + jt \in 0 .. 46, at + 1 + jf \in 0 .. 46,
             IF a = k THEN Reached(call, at + 1 + jt, a) ELSE Reached(call, at + 1 + jf, a)
      PROVE  FilterRun'
  <2>1. run' = [run EXCEPT !.pc = run.pc + 1 + IF run.acc = k THEN jt ELSE jf]
    BY <1>2, <1>7, JeqStep
  <2>2. CASE a = k
    <3>1. run' = [run EXCEPT !.pc = at + 1 + jt]
      BY <2>1, <2>2
    <3>. QED
      BY <1>6, <1>7, <2>2, <3>1
  <2>3. CASE a # k
    <3>1. run' = [run EXCEPT !.pc = at + 1 + jf]
      BY <2>1, <2>3
    <3>. QED
      BY <1>6, <1>7, <2>3, <3>1
  <2>. QED
    BY <2>2, <2>3
<1>8. ASSUME NEW value \in {"allow", "notif"}, At(at) = Filter!Return(value),
             IF value = "allow" THEN ~ToNotify(call) ELSE ToNotify(call)
      PROVE  FilterRun'
  <2>1. run' = [run EXCEPT !.ret = value]
    BY <1>2, <1>8, ReturnStep
  <2>2. /\ run' \in Runs /\ run'.data = call /\ run'.ret = value /\ run'.handler = "none"
    BY <1>1, <1>8, <2>1 DEF FilterRun, Runs
  <2>3. program' = Filter!build_filter
    BY <1>1 DEF FilterRun
  <2>. QED
    BY <1>8, <2>2, <2>3 DEF FilterRun
<1>. HIDE DEF call, at, a
<1>10. CASE at = 0
  <2>1. Reached(call, 1, call["ARCH"])
    BY <1>3, HeaderStep
  <2>2. At(at) = Filter!Load("ARCH") /\ at + 1 = 1 /\ at \in 0 .. 45
    BY <1>10, Program
  <2>. QED
    BY <1>5, <2>1, <2>2
<1>11. CASE at = 1
  <2>1. At(at) = Filter!Instr("jeq", 0, 44, Filter!AUDIT_ARCH_X86_64)
    BY <1>11, Program
  <2>2. /\ at + 1 + 0 = 2 /\ at + 1 + 44 = 46 /\ 0 \in 0 .. 46 /\ 44 \in 0 .. 46
        /\ at + 1 + 0 \in 0 .. 46 /\ at + 1 + 44 \in 0 .. 46
    BY <1>11
  <2>3. IF a = Filter!AUDIT_ARCH_X86_64 THEN Reached(call, 2, a) ELSE Reached(call, 46, a)
    BY <1>1, <1>11, HeaderStep
  <2>4. IF a = Filter!AUDIT_ARCH_X86_64 THEN Reached(call, at + 1 + 0, a)
        ELSE Reached(call, at + 1 + 44, a)
    BY <2>2, <2>3
  <2>. QED
    BY <1>7, <2>1, <2>2, <2>4
<1>12. CASE at = 2
  <2>1. Reached(call, 3, call["NR"])
    BY <1>1, <1>3, <1>12, HeaderStep
  <2>2. At(at) = Filter!Load("NR") /\ at + 1 = 3 /\ at \in 0 .. 45
    BY <1>12, Program
  <2>. QED
    BY <1>5, <2>1, <2>2
<1>13. CASE at = 3
  <2>1. At(at) = Filter!Instr("jset", 42, 0, Filter!X32_SYSCALL_BIT)
    BY <1>13, Program
  <2>2. program[run.pc + 1] = Filter!Instr("jset", 42, 0, Filter!X32_SYSCALL_BIT)
    BY <1>2, <2>1 DEF at
  <2>3. run' = [run EXCEPT !.pc =
          run.pc + 1 + IF Filter!HasBit(run.acc, Filter!X32_SYSCALL_BIT) THEN 42 ELSE 0]
    BY <2>2, JsetStep
  <2>4. run' = [run EXCEPT !.pc =
          at + 1 + IF Filter!HasBit(a, Filter!X32_SYSCALL_BIT) THEN 42 ELSE 0]
    BY <2>3 DEF at, a
  <2>5. IF Filter!HasBit(a, Filter!X32_SYSCALL_BIT) THEN Reached(call, 46, a)
        ELSE Reached(call, 4, a)
    BY <1>1, <1>13, HeaderStep
  <2>6. at + 1 + 42 = 46 /\ at + 1 + 0 = 4
    BY <1>13
  <2>7. CASE Filter!HasBit(a, Filter!X32_SYSCALL_BIT)
    <3>1. run' = [run EXCEPT !.pc = 46]
      BY <2>4, <2>6, <2>7
    <3>. QED
      BY <1>6, <2>5, <2>7, <3>1
  <2>8. CASE ~Filter!HasBit(a, Filter!X32_SYSCALL_BIT)
    <3>1. run' = [run EXCEPT !.pc = 4]
      BY <2>4, <2>6, <2>8
    <3>. QED
      BY <1>6, <2>5, <2>8, <3>1
  <2>. QED
    BY <2>7, <2>8
<1>14. ASSUME NEW i \in 1 .. 37, i # 32, at = Filter!PcOf(i) PROVE FilterRun'
  <2>1. At(at) = Filter!Instr("jeq", 45 - at, 0, Filter!Tabled[i])
    BY <1>14, Program
  <2>2. at \in (4 .. 35) \cup (40 .. 44)
    BY <1>14, Counters
  <2>3. /\ 45 - at \in 0 .. 46 /\ 0 \in 0 .. 46 /\ at + 1 + (45 - at) = 46
        /\ at + 1 + (45 - at) \in 0 .. 46 /\ at + 1 + 0 = at + 1 /\ at + 1 + 0 \in 0 .. 46
    BY <2>2
  <2>4. IF a = Filter!Tabled[i] THEN Reached(call, 46, a) ELSE Reached(call, at + 1, a)
    BY <1>1, <1>14, BlockStep
  <2>5. IF a = Filter!Tabled[i] THEN Reached(call, at + 1 + (45 - at), a)
        ELSE Reached(call, at + 1 + 0, a)
    BY <2>3, <2>4
  <2>. QED
    BY <1>7, <2>1, <2>3, <2>5
<1>15. CASE at = 35
  <2>1. At(at) = Filter!Instr("jeq", 0, 4, Filter!SENDTO)
    BY <1>15, Program
  <2>2. /\ at + 1 + 0 = 36 /\ at + 1 + 4 = 40 /\ 0 \in 0 .. 46 /\ 4 \in 0 .. 46
        /\ at + 1 + 0 \in 0 .. 46 /\ at + 1 + 4 \in 0 .. 46
    BY <1>15
  <2>3. IF a = Filter!SENDTO THEN Reached(call, 36, a) ELSE Reached(call, 40, a)
    BY <1>1, <1>15, SendtoStep
  <2>4. IF a = Filter!SENDTO THEN Reached(call, at + 1 + 0, a)
        ELSE Reached(call, at + 1 + 4, a)
    BY <2>2, <2>3
  <2>. QED
    BY <1>7, <2>1, <2>2, <2>4
<1>16. CASE at = 36
  <2>1. Reached(call, 37, call["SENDTO_DEST_LO"])
    BY <1>1, <1>3, <1>16, SendtoStep
  <2>2. At(at) = Filter!Load("SENDTO_DEST_LO") /\ at + 1 = 37 /\ at \in 0 .. 45
    BY <1>16, Program
  <2>. QED
    BY <1>5, <2>1, <2>2
<1>17. CASE at = 37
  <2>1. At(at) = Filter!Instr("jeq", 0, 8, 0)
    BY <1>17, Program
  <2>2. /\ at + 1 + 0 = 38 /\ at + 1 + 8 = 46 /\ 0 \in 0 .. 46 /\ 8 \in 0 .. 46
        /\ at + 1 + 0 \in 0 .. 46 /\ at + 1 + 8 \in 0 .. 46
    BY <1>17
  <2>3. IF a = 0 THEN Reached(call, 38, a) ELSE Reached(call, 46, a)
    BY <1>1, <1>17, SendtoStep
  <2>4. IF a = 0 THEN Reached(call, at + 1 + 0, a) ELSE Reached(call, at + 1 + 8, a)
    BY <2>2, <2>3
  <2>. QED
    BY <1>7, <2>1, <2>2, <2>4
<1>18. CASE at = 38
  <2>1. Reached(call, 39, call["SENDTO_DEST_HI"])
    BY <1>1, <1>3, <1>18, SendtoStep
  <2>2. At(at) = Filter!Load("SENDTO_DEST_HI") /\ at + 1 = 39 /\ at \in 0 .. 45
    BY <1>18, Program
  <2>. QED
    BY <1>5, <2>1, <2>2
<1>19. CASE at = 39
  <2>1. At(at) = Filter!Instr("jeq", 5, 6, 0)
    BY <1>19, Program
  <2>2. /\ at + 1 + 5 = 45 /\ at + 1 + 6 = 46 /\ 5 \in 0 .. 46 /\ 6 \in 0 .. 46
        /\ at + 1 + 5 \in 0 .. 46 /\ at + 1 + 6 \in 0 .. 46
    BY <1>19
  <2>3. IF a = 0 THEN Reached(call, 45, a) ELSE Reached(call, 46, a)
    BY <1>1, <1>19, SendtoStep
  <2>4. IF a = 0 THEN Reached(call, at + 1 + 5, a) ELSE Reached(call, at + 1 + 6, a)
    BY <2>2, <2>3
  <2>. QED
    BY <1>7, <2>1, <2>2, <2>4
<1>20. CASE at = 45
  <2>1. At(at) = Filter!Return("allow")
    BY <1>20, Program
  <2>2. ~ToNotify(call)
    BY <1>1, <1>20 DEF Reached
  <2>. QED
    BY <1>8, <2>1, <2>2
<1>21. CASE at = 46
  <2>1. At(at) = Filter!Return("notif")
    BY <1>21, Program
  <2>2. ToNotify(call)
    BY <1>1, <1>21 DEF Reached
  <2>. QED
    BY <1>8, <2>1, <2>2
<1>22. \/ at \in {0, 1, 2, 3, 36, 37, 38, 39, 45, 46} \/ at = 35
       \/ \E i \in 1 .. 37 : i # 32 /\ at = Filter!PcOf(i)
  <2>1. \/ at \in {0, 1, 2, 3, 36, 37, 38, 39, 45, 46}
        \/ at \in (4 .. 35) \cup (40 .. 44)
    BY <1>1
  <2>2. Filter!PcOf(32) = 35
    BY Sizes
  <2>. QED
    BY <2>1, <2>2, Counters, Zenon
<1>. QED
  BY <1>10, <1>11, <1>12, <1>13, <1>14, <1>15, <1>16, <1>17, <1>18, <1>19, <1>20, <1>21, <1>22, Zenon

\* The dispatch gives a notified call its handler.
LEMMA DispatchKeeps ==
    ASSUME FilterRun, Filter!Dispatch
    PROVE  FilterRun'
<1>. DEFINE h == Filter!handle_notification(run.data)
<1>1. h \in Handlers
  BY Zenon DEF Filter!handle_notification, Handlers
<1>2. /\ run.ret = "notif" /\ run' = [run EXCEPT !.handler = h] /\ program' = program
  BY DEF Filter!Dispatch
<1>. HIDE DEF h
<1>3. run' \in Runs /\ run'.data = run.data /\ run'.ret = "notif" /\ run'.handler = h
  BY <1>1, <1>2 DEF FilterRun, Runs
<1>4. h = Filter!handle_notification(run'.data)
  BY <1>3 DEF h
<1>. QED
  BY <1>2, <1>3, <1>4 DEF FilterRun

\* A routed call stays sorted as its tables say, wherever it is in the program
\* (build_filter and the kernel's interpreter, handle_notification).
THEOREM FilterInvariance == Spec => []FilterInv
<1>1. Init => FilterInv
  <2>. SUFFICES ASSUME Init PROVE FilterInv
    OBVIOUS
  <2>1. CASE leaf = "filter"
    <3>1. PICK data \in SysCalls : program = Filter!build_filter /\ run = Filter!Start(data)
      BY <2>1 DEF Init, Filter!Init
    <3>2. data \in [Filter!Word -> Nat]
      BY InputsAssumption
    <3>3. /\ run \in Runs /\ run.ret = "none" /\ run.handler = "none" /\ run.pc = 0
      BY <3>1, <3>2 DEF Filter!Start, Runs, Handlers
    <3>4. \A i \in 1 .. 37 : 0 # Filter!PcOf(i)
      BY OutsideBlocks
    <3>5. Reached(run.data, 0, run.acc)
      BY <3>4 DEF Reached
    <3>. QED
      BY <2>1, <3>1, <3>3, <3>5 DEF FilterInv, FilterRun
  <2>2. CASE leaf # "filter"
    BY <2>2 DEF Init, FilterIdle, NoCall, Filter!Start, FilterInv
  <2>. QED
    BY <2>1, <2>2
<1>2. FilterInv /\ [Next]_vars => FilterInv'
  <2>. SUFFICES ASSUME FilterInv, [Next]_vars PROVE FilterInv'
    OBVIOUS
  <2>1. CASE leaf = "filter" /\ Filter!Next /\ UNCHANGED <<leaf, memVars, treeVars, askVars, globVars>>
    <3>1. FilterRun /\ leaf' = "filter"
      BY <2>1 DEF FilterInv
    <3>2. FilterRun'
      BY <2>1, <3>1, StepKeeps, DispatchKeeps DEF Filter!Next
    <3>. QED
      BY <3>1, <3>2 DEF FilterInv
  <2>2. CASE UNCHANGED <<leaf, filterVars>>
    BY <2>2 DEF filterVars, FilterInv, FilterRun
  <2>. QED
    BY <2>1, <2>2 DEF Next, vars
<1>. QED
  BY <1>1, <1>2, PTL DEF Spec

\* The program sorts every call as the tables say, whatever its words
\* (build_filter).
THEOREM SortedAsTabled == Spec => []RoutedAsTabled
<1>1. FilterInv => RoutedAsTabled
  <2>. SUFFICES ASSUME FilterInv, leaf = "filter", run.ret # "none"
                PROVE  run.ret = "notif" <=> ToNotify(run.data)
    BY DEF RoutedAsTabled, ToNotify, Foreign, Among
  <2>1. run.ret \in {"none", "allow", "notif"}
    BY DEF FilterInv, FilterRun, Runs
  <2>. QED
    BY <2>1 DEF FilterInv, FilterRun
<1>. QED
  BY <1>1, FilterInvariance, PTL

\* A call the tables notify has a handler that records it.
LEMMA HandlerOf ==
    ASSUME NEW call
    PROVE  /\ ToNotify(call) => Filter!handle_notification(call) # "unrecorded"
           /\ Filter!handle_notification(call) = "foreign_abi" <=> Foreign(call)
<1>. DEFINE nr == call.NR
<1>1. \A s : \A x : x \in Filter!ToSet(s) <=> Among(x, s)
  BY DEF Filter!ToSet, Among
<1>2. Filter!handle_notification(call) = "foreign_abi" <=> Foreign(call)
  BY DEF Filter!handle_notification, Foreign
<1>3. ASSUME ToNotify(call), ~Foreign(call)
      PROVE  Filter!handle_notification(call) # "unrecorded"
  <2>1. /\ Among(nr, Filter!Tabled)
        /\ nr = Filter!SENDTO => ~Filter!DestIsNull(call)
    BY <1>3 DEF ToNotify
  <2>2. \/ nr \in Filter!ToSet(Filter!DENIED_RECORDED) \/ Filter!fs_shape(nr)
        \/ nr \in {Filter!EXECVE, Filter!EXECVEAT} \/ Filter!is_process_creation(nr)
        \/ Filter!is_network(nr) \/ Filter!is_cross_process(nr)
    <3>1. \/ Among(nr, Filter!FsNumbers) \/ Among(nr, Filter!CLONES)
          \/ nr \in {Filter!EXECVE, Filter!EXECVEAT, Filter!CLONE3}
          \/ Among(nr, Filter!CrossProcess)
          \/ nr \in {Filter!CONNECT, Filter!SENDTO, Filter!BIND}
          \/ Among(nr, Filter!DENIED_RECORDED)
      BY <2>1, Table
    <3>2. /\ Among(nr, Filter!FsNumbers) => Filter!fs_shape(nr)
          /\ Among(nr, Filter!CLONES) \/ nr = Filter!CLONE3 => Filter!is_process_creation(nr)
          /\ Among(nr, Filter!CrossProcess) => Filter!is_cross_process(nr)
          /\ Among(nr, Filter!DENIED_RECORDED) => nr \in Filter!ToSet(Filter!DENIED_RECORDED)
      BY <1>1, Zenon DEF Filter!fs_shape, Filter!is_process_creation, Filter!is_cross_process
    <3>3. nr \in {Filter!CONNECT, Filter!SENDTO, Filter!BIND} => Filter!is_network(nr)
      BY Zenon DEF Filter!is_network
    <3>. QED
      BY <3>1, <3>2, <3>3, Zenon
  <2>3. ~(nr = Filter!SENDTO /\ Filter!DestIsNull(call))
    BY <2>1
  <2>4. ~(call.ARCH # Filter!AUDIT_ARCH_X86_64 \/ Filter!HasBit(nr, Filter!X32_SYSCALL_BIT))
    BY <1>3 DEF Foreign
  <2>. QED
    BY <2>2, <2>3, <2>4, SMTT(30) DEF Filter!handle_notification
<1>4. ASSUME Foreign(call) PROVE Filter!handle_notification(call) # "unrecorded"
  BY <1>2, <1>4
<1>. QED
  BY <1>2, <1>3, <1>4

\* What the program notifies is decided and recorded, and a number of another
\* ABI is never read against the tables (handle_notification).
THEOREM NotifiedDecided == Spec => []NotifiedIsDecided
<1>1. FilterInv => NotifiedIsDecided
  <2>. SUFFICES ASSUME FilterInv, run.handler # "none"
                PROVE  /\ run.handler # "unrecorded"
                       /\ run.handler = "foreign_abi" <=> Foreign(run.data)
    BY DEF NotifiedIsDecided, Foreign
  <2>1. run.handler = Filter!handle_notification(run.data) /\ ToNotify(run.data)
    BY DEF FilterInv, FilterRun
  <2>. QED
    BY <2>1, HandlerOf
<1>. QED
  BY <1>1, FilterInvariance, PTL
=============================================================================
