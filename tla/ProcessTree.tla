---------------------------- MODULE ProcessTree ----------------------------
(***************************************************************************)
(* Is the target of a cross-process call a member of the child's tree?     *)
(* process_in_tree (supervisor/run.rs) walks from the target through the   *)
(* parents /proc shows, one read at a time, while processes fork, exit and *)
(* are handed to init.                                                     *)
(***************************************************************************)
EXTENDS Integers, FiniteSets

CONSTANTS
    Pids,        \* the process ids beside init
    root,        \* the child the supervisor started
    Outsiders,   \* processes that are there before it, the supervisor among them
    MaxHops      \* bound of the walk: 256

INIT == 1
None == 0        \* the parent of no process

VARIABLES
    parent,      \* the parent of a live process, None for an id not in use
    born,        \* ids whose process was forked by the root or a descendant
    used,        \* ids handed out so far
    walk         \* target, current, hops, pc, result, quiet: no process changed meanwhile

vars == <<parent, born, used, walk>>

Idle == [target |-> None, current |-> None, hops |-> 0, pc |-> "idle",
         result |-> FALSE, quiet |-> TRUE]

Init ==
    /\ parent \in [Pids -> {None, INIT} \cup Outsiders]
    /\ \A p \in Outsiders : parent[p] = INIT
    /\ parent[root] \in Outsiders
    /\ \A p \in Pids \ (Outsiders \cup {root}) : parent[p] = None
    /\ born = {root} /\ used = Outsiders \cup {root} /\ walk = Idle

Live(p) == p \in Pids /\ parent[p] # None
Disturb == walk' = [walk EXCEPT !.quiet = FALSE]

\* A process forks.  Ids are handed out in turn and come back only after all
\* the others.
Fork ==
    /\ walk.pc # "done"
    /\ \E p \in Pids, c \in Pids \ used :
          /\ Live(p)
          /\ parent' = [parent EXCEPT ![c] = p]
          /\ born' = IF p \in born THEN born \cup {c} ELSE born
          /\ used' = used \cup {c}
    /\ Disturb

\* A process other than the root exits and is reaped; its children go to init.
\* The root stays until the supervisor reaps it, after the last notification.
Exit ==
    /\ walk.pc # "done"
    /\ \E p \in Pids \ {root} :
          /\ Live(p) /\ parent[root] # p
          /\ parent' = [q \in Pids |-> IF q = p THEN None
                                       ELSE IF parent[q] = p THEN INIT ELSE parent[q]]
    /\ Disturb /\ UNCHANGED <<born, used>>

-----------------------------------------------------------------------------

\* A call names its target, the root's tree or not, live or not.
Ask ==
    /\ walk.pc = "idle"
    /\ \E t \in Pids \cup {INIT} :
          walk' = [Idle EXCEPT !.target = t, !.current = t, !.pc = "walk"]
    /\ UNCHANGED <<parent, born, used>>

Answer(result) == walk' = [walk EXCEPT !.pc = "done", !.result = result]

\* Mutant of parent_pid: a process that is gone passes for a child of the root.
ParentOrRoot(p) == IF Live(p) THEN parent[p] ELSE root

\* One read of /proc: the parent now, or an error, which the caller takes for
\* an outsider.
parent_pid(p) == IF Live(p) THEN parent[p] ELSE None

Climb ==
    /\ walk.pc = "walk"
    /\ IF walk.hops = MaxHops THEN Answer(FALSE)
       ELSE IF walk.current = root THEN Answer(TRUE)
       ELSE IF walk.current <= INIT THEN Answer(FALSE)
       ELSE walk' = [walk EXCEPT !.current = parent_pid(walk.current), !.hops = @ + 1]
    /\ UNCHANGED <<parent, born, used>>

Next == Fork \/ Exit \/ Ask \/ Climb
=============================================================================
