--------------------------- MODULE SessionProofs ---------------------------
(***************************************************************************)
(* Proofs about one run of leash from preflight to exit code, for every    *)
(* mode, number of events and combination of faults.                       *)
(***************************************************************************)
EXTENDS Session, TLAPS, SequenceTheorems

-----------------------------------------------------------------------------
(***************************************************************************)
(* The inductive invariant.                                                *)
(***************************************************************************)

\* The steps of run_session before run_start is on disk.
Opening == {"parse", "preflight", "prepare", "rundir", "start", "sync_start"}

\* The steps that follow it in a run that goes well.
Running == {"broker", "fork", "serve", "end", "sync_end", "report", "success"}
              \cup Handshake

\* The steps that follow the loop.
Closing == {"end", "sync_end", "report", "success"}

\* Where a run that did not go on may be.
Over == {"fail", "unwrapped"} \cup Ended

\* Nothing happens in the tree before the fork, and a step that runs later has
\* found what it needs.
Prepared ==
    /\ pc \in Opening \cup {"broker", "fork"} =>
          ~forked /\ up = <<>> /\ down = <<>> /\ listener = {}
    /\ ~forked => child = "none" /\ ~kids
    /\ pc \notin {"parse", "preflight"} \cup Over => Required \subseteq setting.caps
    /\ (pc \in {"fork", "serve"} \cup Handshake /\ RunMode = "enforce") =>
          broker \in {"ready", "lost"}
    /\ exit # "none" => pc \in Ended

\* The trace on disk at each step.
Written ==
    /\ pc \in Opening \ {"sync_start"} => trace = <<>>
    /\ pc = "start" => meta
    /\ pc = "sync_start" => meta /\ trace = <<"run_start">>
    /\ (pc \in Running \/ forked) => meta /\ durable >= 1 /\ trace[1] = "run_start"
    /\ torn => pc \in Over

\* run_end is the last event, and the report comes after it is on disk.
Closed ==
    /\ \A i \in DOMAIN trace : trace[i] = "run_end" =>
          /\ i = Len(trace)
          /\ pc \in (Closing \ {"end"}) \cup Over
          /\ trace[1] = "run_start" /\ status # "none"
          /\ pc # "off" => child = "reaped" /\ ~kids
    /\ pc = "sync_end" => trace[Len(trace)] = "run_end"
    /\ (pc \in {"report", "success"} \/ report # "none") =>
          durable = Len(trace) /\ durable >= 1 /\ trace[durable] = "run_end"
    /\ report # "none" => pc \in {"success"} \cup Over
    /\ (pc = "success" \/ exit = "passed") => report = "written"

\* How far the child can be at each step of the supervisor.
InStep ==
    /\ pc = "recv_fd" => child \in {"start", "filtered", "sent", "zombie"}
    /\ pc = "ack" => child \in {"sent", "zombie"}
    /\ pc = "boundary" => child \in {"sent", "acked", "confined", "exec", "zombie"}
    /\ pc = "wrap" => child \in {"exec", "zombie"}
    /\ pc = "serve" => child \in {"exec", "agent", "zombie"}
    /\ pc = "reap" => child = "zombie" \/ (child = "sent" /\ down = <<>>)
    /\ pc \in Closing => child = "reaped" /\ ~kids
    /\ child \in {"zombie", "reaped"} => status # "none"
    /\ pc = "fail" \/ exit = "failure" => child \in {"none", "reaped"}

\* What is on the handshake socket, and who can receive notifications.
Exchanged ==
    /\ child \in {"start", "filtered"} => up = <<>> /\ down = <<>>
    /\ pc = "recv_fd" => /\ down = <<>>
                         /\ up = <<>> \/ (up = <<"L">> /\ child \in {"sent", "zombie"})
    /\ pc \in {"ack", "wrap", "serve"} => up = <<>>
    /\ pc = "ack" => down = <<>>
    /\ pc = "boundary" => \/ up = <<>> /\ child # "exec"
                          \/ up = <<"B">> /\ child \in {"exec", "zombie"}
    /\ pc \in {"ack", "boundary", "wrap", "serve"} => listener = {"supervisor"}
    /\ (child \in {"confined", "exec", "agent"} /\ RunMode = "enforce") => landlocked

\* The invariant the theorems rest on: how far the child is at each step of the
\* supervisor, what is between them, and what is on disk by then (run_session,
\* parent_handshake, enter, TraceWriter).
SessionInv == TypeOK /\ Prepared /\ Written /\ Closed /\ InStep /\ Exchanged

-----------------------------------------------------------------------------
(***************************************************************************)
(* What a step may do to the sequences: the bytes on the socket and the    *)
(* lines of the trace.                                                     *)
(***************************************************************************)

\* A byte is taken or put, or the socket is gone; the descriptor changes hands.
BytesMove ==
    /\ \/ up' \in {up, <<"L">>, Append(up, "B"), <<>>}
       \/ up # <<>> /\ up' = Tail(up)
    /\ down' \in {down, <<"A">>, <<>>}
    /\ listener' \in {listener, {}, {"child"}, {"message"}, {"supervisor"},
                      listener \ {"child"}, listener \ {"supervisor", "message"}}

\* Taking the only byte empties the socket (recv_notify_fd).
LEMMA TailOne ==
    ASSUME NEW b
    PROVE  Tail(<<b>>) = <<>>
<1>1. <<b>> \in Seq({b}) /\ Len(<<b>>) = 1
    OBVIOUS
<1>2. Tail(<<b>>) \in Seq({b}) /\ Len(Tail(<<b>>)) = 0
    BY <1>1
<1> QED
    BY <1>2, EmptySeq

\* A line is appended, the lines so far are synced, or power is lost and only a
\* prefix with everything durable is left.
TraceMoves ==
    \/ trace' = trace /\ durable' \in {durable, Len(trace)}
    \/ /\ trace' \in {Append(trace, e) : e \in EventKinds}
       /\ durable' = durable
    \/ \E n \in durable..Len(trace) :
          trace' = SubSeq(trace, 1, n) /\ durable' = Len(trace')

\* Every step moves the bytes and the lines in one of these ways (send_notify_fd,
\* recv_ack, TraceWriter).
LEMMA Moves ==
    ASSUME [Next]_vars
    PROVE  BytesMove /\ TraceMoves
<1> USE DEF BytesMove, TraceMoves, EventKinds, supervisorVars, childVars, socketVars, fileVars
<1>1. CASE Parse
    BY <1>1 DEF Parse
<1>2. CASE Preflight
    BY <1>2 DEF Preflight
<1>3. CASE PrepareEnforcement
    BY <1>3 DEF PrepareEnforcement
<1>4. CASE CreateRunDir
    BY <1>4 DEF CreateRunDir
<1>5. CASE AppendStart
    BY <1>5 DEF AppendStart, AppendEvent
<1>6. CASE SyncStart
    BY <1>6 DEF SyncStart, Sync
<1>7. CASE SpawnBroker
    BY <1>7 DEF SpawnBroker
<1>8. CASE AwaitBroker
    BY <1>8 DEF AwaitBroker
<1>9. CASE Fork
    BY <1>9 DEF Fork
<1>10. CASE RecvFd
    BY <1>10 DEF RecvFd
<1>11. CASE SendAck
    BY <1>11 DEF SendAck
<1>12. CASE AwaitBoundary
    BY <1>12 DEF AwaitBoundary
<1>13. CASE WrapListener
    BY <1>13 DEF WrapListener
<1>14. CASE Reap
    BY <1>14 DEF Reap
<1>15. CASE ServeExec
    BY <1>15 DEF ServeExec
<1>16. CASE ServeCall
    BY <1>16 DEF ServeCall
<1>17. CASE LoopAborts
    BY <1>17 DEF LoopAborts
<1>18. CASE HangUp
    BY <1>18 DEF HangUp
<1>19. CASE AppendEnd
    BY <1>19 DEF AppendEnd, AppendEvent
<1>20. CASE SyncEnd
    BY <1>20 DEF SyncEnd, Sync
<1>21. CASE WriteReport
    BY <1>21 DEF WriteReport
<1>22. CASE Leave
    BY <1>22 DEF Leave
<1>23. CASE ChildFilter
    BY <1>23 DEF ChildFilter
<1>24. CASE ChildSend
    BY <1>24 DEF ChildSend, Die
<1>25. CASE ChildAck
    BY <1>25 DEF ChildAck, Die
<1>26. CASE ChildLandlock
    BY <1>26 DEF ChildLandlock
<1>27. CASE ChildExec
    BY <1>27 DEF ChildExec, Die
<1>28. CASE ExecUnserved
    BY <1>28 DEF ExecUnserved, Die
<1>29. CASE ChildFails
    BY <1>29 DEF ChildFails, Die
<1>30. CASE AgentForks
    BY <1>30 DEF AgentForks
<1>31. CASE AgentExits
    BY <1>31 DEF AgentExits, Die
<1>32. CASE KidsExit
    BY <1>32 DEF KidsExit
<1>33. CASE BrokerSetup
    BY <1>33 DEF BrokerSetup
<1>34. CASE BrokerEnds
    BY <1>34 DEF BrokerEnds
<1>35. CASE Crash
    BY <1>35 DEF Crash
<1>36. CASE PowerLoss
    BY <1>36 DEF PowerLoss
<1>37. CASE UNCHANGED vars
    BY <1>37 DEF vars
<1> QED
    BY <1>1, <1>2, <1>3, <1>4, <1>5, <1>6, <1>7, <1>8, <1>9, <1>10, <1>11,
       <1>12, <1>13, <1>14, <1>15, <1>16, <1>17, <1>18, <1>19, <1>20, <1>21,
       <1>22, <1>23, <1>24, <1>25, <1>26, <1>27, <1>28, <1>29, <1>30, <1>31,
       <1>32, <1>33, <1>34, <1>35, <1>36, <1>37
    DEF Next, Supervisor, ChildSetup, Agent, Finished

-----------------------------------------------------------------------------
(***************************************************************************)
(* Every step preserves the invariant.                                     *)
(***************************************************************************)

\* The part of TypeOK that is not about sequences.
ScalarsOK ==
    /\ setting \in [mode : RunModes, caps : SUBSET Capabilities]
    /\ pc \in Opening \cup Running \cup Over
    /\ exit \in {"none", "usage", "passed", "failure", "unwrapped", "killed"}
    /\ status \in Statuses
    /\ child \in {"none", "exec", "agent", "zombie", "reaped"} \cup Setup
    /\ landlocked \in BOOLEAN /\ kids \in BOOLEAN /\ forked \in BOOLEAN
    /\ broker \in {"none", "starting", "ready", "lost", "dead"}
    /\ meta \in BOOLEAN /\ torn \in BOOLEAN
    /\ report \in {"none", "partial", "written"}

\* A step keeps the types of everything but the sequences (run_session, enter,
\* Broker::spawn).
LEMMA ScalarsStep ==
    ASSUME ScalarsOK, [Next]_vars
    PROVE  ScalarsOK'
<1> USE DEF ScalarsOK, Opening, Running, Over, Handshake, Ended, Setup, Statuses,
            supervisorVars, childVars, socketVars, fileVars
<1>1. CASE Parse
    BY <1>1 DEF Parse
<1>2. CASE Preflight
    BY <1>2 DEF Preflight
<1>3. CASE PrepareEnforcement
    BY <1>3 DEF PrepareEnforcement
<1>4. CASE CreateRunDir
    <2>1. meta' \in BOOLEAN
        BY <1>4, Zenon DEF CreateRunDir
    <2> QED
        BY <1>4, <2>1 DEF CreateRunDir
<1>5. CASE AppendStart
    BY <1>5 DEF AppendStart, AppendEvent
<1>6. CASE SyncStart
    BY <1>6 DEF SyncStart, Sync
<1>7. CASE SpawnBroker
    BY <1>7 DEF SpawnBroker
<1>8. CASE AwaitBroker
    BY <1>8 DEF AwaitBroker
<1>9. CASE Fork
    <2>1. forked' \in BOOLEAN
        BY <1>9, Zenon DEF Fork
    <2> QED
        BY <1>9, <2>1 DEF Fork
<1>10. CASE RecvFd
    BY <1>10 DEF RecvFd
<1>11. CASE SendAck
    BY <1>11 DEF SendAck
<1>12. CASE AwaitBoundary
    BY <1>12 DEF AwaitBoundary
<1>13. CASE WrapListener
    BY <1>13 DEF WrapListener
<1>14. CASE Reap
    BY <1>14 DEF Reap
<1>15. CASE ServeExec
    BY <1>15 DEF ServeExec
<1>16. CASE ServeCall
    BY <1>16 DEF ServeCall
<1>17. CASE LoopAborts
    BY <1>17 DEF LoopAborts
<1>18. CASE HangUp
    BY <1>18 DEF HangUp
<1>19. CASE AppendEnd
    BY <1>19 DEF AppendEnd, AppendEvent
<1>20. CASE SyncEnd
    BY <1>20 DEF SyncEnd, Sync
<1>21. CASE WriteReport
    BY <1>21 DEF WriteReport
<1>22. CASE Leave
    BY <1>22 DEF Leave
<1>23. CASE ChildFilter
    BY <1>23 DEF ChildFilter
<1>24. CASE ChildSend
    BY <1>24 DEF ChildSend, Die
<1>25. CASE ChildAck
    BY <1>25 DEF ChildAck, Die
<1>26. CASE ChildLandlock
    BY <1>26 DEF ChildLandlock
<1>27. CASE ChildExec
    BY <1>27 DEF ChildExec, Die
<1>28. CASE ExecUnserved
    BY <1>28 DEF ExecUnserved, Die
<1>29. CASE ChildFails
    BY <1>29 DEF ChildFails, Die
<1>30. CASE AgentForks
    BY <1>30 DEF AgentForks
<1>31. CASE AgentExits
    BY <1>31 DEF AgentExits, Die
<1>32. CASE KidsExit
    <2>1. kids' \in BOOLEAN
        BY <1>32, Zenon DEF KidsExit
    <2> QED
        BY <1>32, <2>1 DEF KidsExit
<1>33. CASE BrokerSetup
    BY <1>33 DEF BrokerSetup
<1>34. CASE BrokerEnds
    BY <1>34 DEF BrokerEnds
<1>35. CASE Crash
    BY <1>35 DEF Crash
<1>36. CASE PowerLoss
    <2>1. torn' \in BOOLEAN
        BY <1>36 DEF PowerLoss
    <2>2. report' \in {report, "none"}
        BY <1>36 DEF PowerLoss
    <2> QED
        BY <1>36, <2>1, <2>2 DEF PowerLoss
<1>37. CASE UNCHANGED vars
    BY <1>37 DEF vars
<1> QED
    BY <1>1, <1>2, <1>3, <1>4, <1>5, <1>6, <1>7, <1>8, <1>9, <1>10, <1>11,
       <1>12, <1>13, <1>14, <1>15, <1>16, <1>17, <1>18, <1>19, <1>20, <1>21,
       <1>22, <1>23, <1>24, <1>25, <1>26, <1>27, <1>28, <1>29, <1>30, <1>31,
       <1>32, <1>33, <1>34, <1>35, <1>36, <1>37
    DEF Next, Supervisor, ChildSetup, Agent, Finished

\* A step keeps the types of the sequences: what is durable stays a prefix of
\* what was written (TraceWriter::append, TraceWriter::sync).
LEMMA TypeStep ==
    ASSUME TypeOK, [Next]_vars
    PROVE  TypeOK'
<1>1. ScalarsOK
    BY DEF TypeOK, ScalarsOK, Opening, Running, Over, Handshake, Ended
<1>2. ScalarsOK'
    BY <1>1, ScalarsStep
<1>3. BytesMove /\ TraceMoves
    BY Moves
<1>4. up' \in Seq({"L", "B"}) /\ down' \in Seq({"A"})
    <2>1. /\ up \in Seq({"L", "B"}) /\ down \in Seq({"A"})
          /\ up' \in {up, <<"L">>, Append(up, "B"), <<>>} \/ (up # <<>> /\ up' = Tail(up))
          /\ down' \in {down, <<"A">>, <<>>}
        BY <1>3 DEF BytesMove, TypeOK
    <2>2. \A S : \A s \in Seq(S), b \in S :
             /\ <<>> \in Seq(S) /\ <<b>> \in Seq(S) /\ Append(s, b) \in Seq(S)
             /\ s # <<>> => Tail(s) \in Seq(S)
        OBVIOUS
    <2>3. up' \in Seq({"L", "B"})
        BY <2>1, <2>2, Zenon
    <2>4. down' \in Seq({"A"})
        BY <2>1, <2>2, Zenon
    <2> QED
        BY <2>3, <2>4
<1>5. trace' \in Seq(EventKinds) /\ durable' \in Nat /\ durable' <= Len(trace')
    <2>1. trace \in Seq(EventKinds) /\ durable \in Nat /\ durable <= Len(trace)
        BY DEF TypeOK
    <2>2. CASE trace' = trace /\ durable' \in {durable, Len(trace)}
        BY <2>1, <2>2
    <2>3. CASE trace' \in {Append(trace, e) : e \in EventKinds} /\ durable' = durable
        BY <2>1, <2>3
    <2>4. CASE \E n \in durable..Len(trace) :
                  trace' = SubSeq(trace, 1, n) /\ durable' = Len(trace')
        BY <2>1, <2>4
    <2> QED
        BY <1>3, <2>2, <2>3, <2>4 DEF TraceMoves
<1>6. listener' \subseteq {"child", "message", "supervisor"}
    BY <1>3 DEF BytesMove, TypeOK
<1> QED
    BY <1>2, <1>4, <1>5, <1>6 DEF TypeOK, ScalarsOK, Opening, Running, Over, Handshake, Ended

\* A step keeps the order of the preparations (run_session, preflight::evaluate).
LEMMA PreparedStep ==
    ASSUME Prepared, InStep, [Next]_vars
    PROVE  Prepared'
<1> USE DEF Prepared, Opening, Over, Handshake, Ended, RunMode, Required,
            supervisorVars, childVars, socketVars, fileVars
<1>1. CASE Parse
    BY <1>1 DEF Parse
<1>2. CASE Preflight
    BY <1>2 DEF Preflight
<1>3. CASE PrepareEnforcement
    BY <1>3 DEF PrepareEnforcement
<1>4. CASE CreateRunDir
    BY <1>4 DEF CreateRunDir
<1>5. CASE AppendStart
    BY <1>5 DEF AppendStart, AppendEvent
<1>6. CASE SyncStart
    BY <1>6 DEF SyncStart, Sync
<1>7. CASE SpawnBroker
    BY <1>7 DEF SpawnBroker
<1>8. CASE AwaitBroker
    BY <1>8 DEF AwaitBroker
<1>9. CASE Fork
    BY <1>9 DEF Fork
<1>10. CASE RecvFd
    BY <1>10 DEF RecvFd
<1>11. CASE SendAck
    BY <1>11 DEF SendAck
<1>12. CASE AwaitBoundary
    BY <1>12 DEF AwaitBoundary
<1>13. CASE WrapListener
    BY <1>13 DEF WrapListener
<1>14. CASE Reap
    BY <1>14 DEF Reap
<1>15. CASE ServeExec
    BY <1>15 DEF ServeExec
<1>16. CASE ServeCall
    BY <1>16 DEF ServeCall
<1>17. CASE LoopAborts
    BY <1>17 DEF LoopAborts, InStep
<1>18. CASE HangUp
    BY <1>18 DEF HangUp
<1>19. CASE AppendEnd
    BY <1>19 DEF AppendEnd, AppendEvent
<1>20. CASE SyncEnd
    BY <1>20 DEF SyncEnd, Sync
<1>21. CASE WriteReport
    BY <1>21 DEF WriteReport
<1>22. CASE Leave
    BY <1>22 DEF Leave
<1>23. CASE ChildFilter
    BY <1>23 DEF ChildFilter
<1>24. CASE ChildSend
    BY <1>24 DEF ChildSend, Die
<1>25. CASE ChildAck
    BY <1>25 DEF ChildAck, Die
<1>26. CASE ChildLandlock
    BY <1>26 DEF ChildLandlock
<1>27. CASE ChildExec
    BY <1>27 DEF ChildExec, Die
<1>28. CASE ExecUnserved
    BY <1>28 DEF ExecUnserved, Die
<1>29. CASE ChildFails
    BY <1>29 DEF ChildFails, Die, Setup
<1>30. CASE AgentForks
    BY <1>30 DEF AgentForks
<1>31. CASE AgentExits
    BY <1>31 DEF AgentExits, Die
<1>32. CASE KidsExit
    BY <1>32 DEF KidsExit
<1>33. CASE BrokerSetup
    BY <1>33 DEF BrokerSetup
<1>34. CASE BrokerEnds
    BY <1>34 DEF BrokerEnds
<1>35. CASE Crash
    BY <1>35 DEF Crash
<1>36. CASE PowerLoss
    BY <1>36 DEF PowerLoss
<1>37. CASE UNCHANGED vars
    BY <1>37 DEF vars
<1> QED
    BY <1>1, <1>2, <1>3, <1>4, <1>5, <1>6, <1>7, <1>8, <1>9, <1>10, <1>11,
       <1>12, <1>13, <1>14, <1>15, <1>16, <1>17, <1>18, <1>19, <1>20, <1>21,
       <1>22, <1>23, <1>24, <1>25, <1>26, <1>27, <1>28, <1>29, <1>30, <1>31,
       <1>32, <1>33, <1>34, <1>35, <1>36, <1>37
    DEF Next, Supervisor, ChildSetup, Agent, Finished

\* A step keeps the two sides of the handshake in step (parent_handshake, enter).
LEMMA InStepStep ==
    ASSUME Prepared, InStep, Exchanged, [Next]_vars
    PROVE  InStep'
<1> USE DEF Prepared, InStep, Exchanged, May, Opening, Closing, Handshake, Ended,
            Over, Setup, ChildEndOpen, SupervisorEndOpen, supervisorVars, childVars,
            socketVars, fileVars
<1>1. CASE Parse
    BY <1>1 DEF Parse
<1>2. CASE Preflight
    BY <1>2 DEF Preflight
<1>3. CASE PrepareEnforcement
    BY <1>3 DEF PrepareEnforcement
<1>4. CASE CreateRunDir
    BY <1>4 DEF CreateRunDir
<1>5. CASE AppendStart
    BY <1>5 DEF AppendStart, AppendEvent
<1>6. CASE SyncStart
    BY <1>6 DEF SyncStart, Sync
<1>7. CASE SpawnBroker
    BY <1>7 DEF SpawnBroker
<1>8. CASE AwaitBroker
    BY <1>8 DEF AwaitBroker
<1>9. CASE Fork
    BY <1>9 DEF Fork
<1>10. CASE RecvFd
    BY <1>10 DEF RecvFd
<1>11. CASE SendAck
    BY <1>11 DEF SendAck
<1>12. CASE AwaitBoundary
    BY <1>12 DEF AwaitBoundary
<1>13. CASE WrapListener
    BY <1>13 DEF WrapListener
<1>14. CASE Reap
    BY <1>14 DEF Reap
<1>15. CASE ServeExec
    BY <1>15 DEF ServeExec
<1>16. CASE ServeCall
    BY <1>16 DEF ServeCall
<1>17. CASE LoopAborts
    BY <1>17 DEF LoopAborts
<1>18. CASE HangUp
    BY <1>18 DEF HangUp
<1>19. CASE AppendEnd
    BY <1>19 DEF AppendEnd, AppendEvent
<1>20. CASE SyncEnd
    BY <1>20 DEF SyncEnd, Sync
<1>21. CASE WriteReport
    BY <1>21 DEF WriteReport
<1>22. CASE Leave
    BY <1>22 DEF Leave
<1>23. CASE ChildFilter
    BY <1>23 DEF ChildFilter
<1>24. CASE ChildSend
    BY <1>24 DEF ChildSend, Die
<1>25. CASE ChildAck
    BY <1>25 DEF ChildAck, Die
<1>26. CASE ChildLandlock
    BY <1>26 DEF ChildLandlock
<1>27. CASE ChildExec
    BY <1>27 DEF ChildExec, Die
<1>28. CASE ExecUnserved
    BY <1>28 DEF ExecUnserved, Die
<1>29. CASE ChildFails
    BY <1>29 DEF ChildFails, Die
<1>30. CASE AgentForks
    BY <1>30 DEF AgentForks
<1>31. CASE AgentExits
    BY <1>31 DEF AgentExits, Die
<1>32. CASE KidsExit
    BY <1>32 DEF KidsExit
<1>33. CASE BrokerSetup
    BY <1>33 DEF BrokerSetup
<1>34. CASE BrokerEnds
    BY <1>34 DEF BrokerEnds
<1>35. CASE Crash
    BY <1>35 DEF Crash
<1>36. CASE PowerLoss
    BY <1>36 DEF PowerLoss
<1>37. CASE UNCHANGED vars
    BY <1>37 DEF vars
<1> QED
    BY <1>1, <1>2, <1>3, <1>4, <1>5, <1>6, <1>7, <1>8, <1>9, <1>10, <1>11,
       <1>12, <1>13, <1>14, <1>15, <1>16, <1>17, <1>18, <1>19, <1>20, <1>21,
       <1>22, <1>23, <1>24, <1>25, <1>26, <1>27, <1>28, <1>29, <1>30, <1>31,
       <1>32, <1>33, <1>34, <1>35, <1>36, <1>37
    DEF Next, Supervisor, ChildSetup, Agent, Finished

\* A step keeps what is between them (send_notify_fd, recv_notify_fd, recv_ack).
LEMMA ExchangedStep ==
    ASSUME Prepared, InStep, Exchanged, [Next]_vars
    PROVE  Exchanged'
<1> USE DEF Prepared, InStep, Exchanged, Opening, Closing, Handshake, Ended, Setup,
            ChildEndOpen, SupervisorEndOpen, RunMode, supervisorVars, childVars,
            socketVars, fileVars
<1>1. CASE Parse
    BY <1>1 DEF Parse
<1>2. CASE Preflight
    BY <1>2 DEF Preflight
<1>3. CASE PrepareEnforcement
    BY <1>3 DEF PrepareEnforcement
<1>4. CASE CreateRunDir
    BY <1>4 DEF CreateRunDir
<1>5. CASE AppendStart
    BY <1>5 DEF AppendStart, AppendEvent
<1>6. CASE SyncStart
    BY <1>6 DEF SyncStart, Sync
<1>7. CASE SpawnBroker
    BY <1>7 DEF SpawnBroker
<1>8. CASE AwaitBroker
    BY <1>8 DEF AwaitBroker
<1>9. CASE Fork
    BY <1>9 DEF Fork
<1>10. CASE RecvFd
    <2>1. up # <<>> => up = <<"L">>
        BY <1>10 DEF RecvFd
    <2>2. up # <<>> => Tail(up) = <<>>
        BY <2>1, TailOne
    <2> QED
        BY <1>10, <2>1, <2>2 DEF RecvFd
<1>11. CASE SendAck
    BY <1>11 DEF SendAck
<1>12. CASE AwaitBoundary
    <2>1. up # <<>> => up = <<"B">>
        BY <1>12 DEF AwaitBoundary
    <2>2. up # <<>> => Tail(up) = <<>>
        BY <2>1, TailOne
    <2> QED
        BY <1>12, <2>1, <2>2 DEF AwaitBoundary
<1>13. CASE WrapListener
    BY <1>13 DEF WrapListener
<1>14. CASE Reap
    BY <1>14 DEF Reap
<1>15. CASE ServeExec
    BY <1>15 DEF ServeExec
<1>16. CASE ServeCall
    BY <1>16 DEF ServeCall
<1>17. CASE LoopAborts
    BY <1>17 DEF LoopAborts
<1>18. CASE HangUp
    BY <1>18 DEF HangUp
<1>19. CASE AppendEnd
    BY <1>19 DEF AppendEnd, AppendEvent
<1>20. CASE SyncEnd
    BY <1>20 DEF SyncEnd, Sync
<1>21. CASE WriteReport
    BY <1>21 DEF WriteReport
<1>22. CASE Leave
    BY <1>22 DEF Leave
<1>23. CASE ChildFilter
    BY <1>23 DEF ChildFilter
<1>24. CASE ChildSend
    BY <1>24 DEF ChildSend, Die
<1>25. CASE ChildAck
    BY <1>25 DEF ChildAck, Die
<1>26. CASE ChildLandlock
    BY <1>26 DEF ChildLandlock
<1>27. CASE ChildExec
    <2>1. up = <<>> => Append(up, "B") = <<"B">>
        OBVIOUS
    <2> QED
        BY <1>27, <2>1 DEF ChildExec, Die
<1>28. CASE ExecUnserved
    BY <1>28 DEF ExecUnserved, Die
<1>29. CASE ChildFails
    BY <1>29 DEF ChildFails, Die
<1>30. CASE AgentForks
    BY <1>30 DEF AgentForks
<1>31. CASE AgentExits
    BY <1>31 DEF AgentExits, Die
<1>32. CASE KidsExit
    BY <1>32 DEF KidsExit
<1>33. CASE BrokerSetup
    BY <1>33 DEF BrokerSetup
<1>34. CASE BrokerEnds
    BY <1>34 DEF BrokerEnds
<1>35. CASE Crash
    BY <1>35 DEF Crash
<1>36. CASE PowerLoss
    BY <1>36 DEF PowerLoss
<1>37. CASE UNCHANGED vars
    BY <1>37 DEF vars
<1> QED
    BY <1>1, <1>2, <1>3, <1>4, <1>5, <1>6, <1>7, <1>8, <1>9, <1>10, <1>11,
       <1>12, <1>13, <1>14, <1>15, <1>16, <1>17, <1>18, <1>19, <1>20, <1>21,
       <1>22, <1>23, <1>24, <1>25, <1>26, <1>27, <1>28, <1>29, <1>30, <1>31,
       <1>32, <1>33, <1>34, <1>35, <1>36, <1>37
    DEF Next, Supervisor, ChildSetup, Agent, Finished

\* A step keeps what is on disk: once run_start is durable no step, failure or
\* loss of power takes it back (TraceWriter::append, TraceWriter::sync, run_session).
LEMMA WrittenStep ==
    ASSUME TypeOK, Prepared, InStep, Written, [Next]_vars
    PROVE  Written'
<1> DEFINE Kinds == EventKinds
<1>a. /\ trace \in Seq(Kinds) /\ durable \in Nat /\ durable <= Len(trace)
      /\ {"run_start", "event", "run_end"} \subseteq Kinds
    BY DEF TypeOK, EventKinds
<1> HIDE DEF Kinds
<1> USE DEF Prepared, InStep, Written, May, Opening, Running, Over, Handshake, Ended,
            supervisorVars, childVars, socketVars, fileVars
<1>1. CASE Parse
    BY <1>a, <1>1 DEF Parse
<1>2. CASE Preflight
    BY <1>a, <1>2 DEF Preflight
<1>3. CASE PrepareEnforcement
    BY <1>a, <1>3 DEF PrepareEnforcement
<1>4. CASE CreateRunDir
    BY <1>a, <1>4 DEF CreateRunDir
<1>5. CASE AppendStart
    <2>1. Append(<<>>, "run_start") = <<"run_start">>
        OBVIOUS
    <2> QED
        BY <1>5, <2>1 DEF AppendStart, AppendEvent
<1>6. CASE SyncStart
    BY <1>a, <1>6 DEF SyncStart, Sync
<1>7. CASE SpawnBroker
    BY <1>a, <1>7 DEF SpawnBroker
<1>8. CASE AwaitBroker
    BY <1>a, <1>8 DEF AwaitBroker
<1>9. CASE Fork
    BY <1>a, <1>9 DEF Fork
<1>10. CASE RecvFd
    BY <1>a, <1>10 DEF RecvFd
<1>11. CASE SendAck
    BY <1>a, <1>11 DEF SendAck
<1>12. CASE AwaitBoundary
    BY <1>a, <1>12 DEF AwaitBoundary
<1>13. CASE WrapListener
    BY <1>a, <1>13 DEF WrapListener
<1>14. CASE Reap
    BY <1>a, <1>14 DEF Reap
<1>15. CASE ServeExec
    <2>1. trace # <<>> => Len(trace) >= 1
        BY <1>a
    <2>2. Len(trace) >= 1 => Append(trace, "event")[1] = trace[1]
        BY <1>a
    <2> QED
        BY <1>a, <1>15, <2>1, <2>2 DEF ServeExec
<1>16. CASE ServeCall
    <2>1. trace # <<>> => Len(trace) >= 1
        BY <1>a
    <2>2. Len(trace) >= 1 => Append(trace, "event")[1] = trace[1]
        BY <1>a
    <2> QED
        BY <1>a, <1>16, <2>1, <2>2 DEF ServeCall
<1>17. CASE LoopAborts
    BY <1>a, <1>17 DEF LoopAborts
<1>18. CASE HangUp
    BY <1>a, <1>18 DEF HangUp
<1>19. CASE AppendEnd
    <2>1. trace # <<>> => Len(trace) >= 1
        BY <1>a
    <2>2. Len(trace) >= 1 => Append(trace, "run_end")[1] = trace[1]
        BY <1>a
    <2> QED
        BY <1>a, <1>19, <2>1, <2>2 DEF AppendEnd, AppendEvent
<1>20. CASE SyncEnd
    BY <1>a, <1>20 DEF SyncEnd, Sync
<1>21. CASE WriteReport
    BY <1>a, <1>21 DEF WriteReport
<1>22. CASE Leave
    BY <1>a, <1>22 DEF Leave
<1>23. CASE ChildFilter
    BY <1>a, <1>23 DEF ChildFilter
<1>24. CASE ChildSend
    BY <1>a, <1>24 DEF ChildSend, Die
<1>25. CASE ChildAck
    BY <1>a, <1>25 DEF ChildAck, Die
<1>26. CASE ChildLandlock
    BY <1>a, <1>26 DEF ChildLandlock
<1>27. CASE ChildExec
    BY <1>a, <1>27 DEF ChildExec, Die
<1>28. CASE ExecUnserved
    BY <1>a, <1>28 DEF ExecUnserved, Die
<1>29. CASE ChildFails
    BY <1>a, <1>29 DEF ChildFails, Die
<1>30. CASE AgentForks
    BY <1>a, <1>30 DEF AgentForks
<1>31. CASE AgentExits
    BY <1>a, <1>31 DEF AgentExits, Die
<1>32. CASE KidsExit
    BY <1>a, <1>32 DEF KidsExit
<1>33. CASE BrokerSetup
    BY <1>a, <1>33 DEF BrokerSetup
<1>34. CASE BrokerEnds
    BY <1>a, <1>34 DEF BrokerEnds
<1>35. CASE Crash
    BY <1>a, <1>35 DEF Crash
<1>36. CASE PowerLoss
    <2>1. PICK n \in durable..Len(trace) : trace' = SubSeq(trace, 1, n)
        BY <1>36 DEF PowerLoss
    <2>2. Len(trace') = n /\ (n >= 1 => trace'[1] = trace[1])
        BY <1>a, <2>1
    <2> QED
        BY <1>a, <1>36, <2>2 DEF PowerLoss
<1>37. CASE UNCHANGED vars
    BY <1>a, <1>37 DEF vars
<1> QED
    BY <1>1, <1>2, <1>3, <1>4, <1>5, <1>6, <1>7, <1>8, <1>9, <1>10, <1>11,
       <1>12, <1>13, <1>14, <1>15, <1>16, <1>17, <1>18, <1>19, <1>20, <1>21,
       <1>22, <1>23, <1>24, <1>25, <1>26, <1>27, <1>28, <1>29, <1>30, <1>31,
       <1>32, <1>33, <1>34, <1>35, <1>36, <1>37
    DEF Next, Supervisor, ChildSetup, Agent, Finished

\* A step keeps run_end the last word of the run, and the report behind it
\* (run_session, RunDir::write_report).
LEMMA ClosedStep ==
    ASSUME TypeOK, Prepared, InStep, Written, Closed, [Next]_vars
    PROVE  Closed'
<1> DEFINE Kinds == EventKinds
<1>a. /\ trace \in Seq(Kinds) /\ durable \in Nat /\ durable <= Len(trace)
      /\ {"run_start", "event", "run_end"} \subseteq Kinds
    BY DEF TypeOK, EventKinds
<1> HIDE DEF Kinds
<1>b. DOMAIN trace = 1..Len(trace)
    BY <1>a
<1>c. \A e \in Kinds : /\ Len(Append(trace, e)) = Len(trace) + 1
                       /\ DOMAIN Append(trace, e) = 1..(Len(trace) + 1)
                       /\ \A i \in 1..Len(trace) : Append(trace, e)[i] = trace[i]
                       /\ Append(trace, e)[Len(trace) + 1] = e
    BY <1>a
<1>d. \A i \in 1..(Len(trace) + 1) : i \in 1..Len(trace) \/ i = Len(trace) + 1
    BY <1>a
<1> USE DEF Closed, Closing, Over, Ended, supervisorVars, childVars, socketVars, fileVars
<1>1. CASE Parse
    BY <1>a, <1>b, <1>1 DEF Parse
<1>2. CASE Preflight
    BY <1>a, <1>b, <1>2 DEF Preflight
<1>3. CASE PrepareEnforcement
    BY <1>a, <1>b, <1>3 DEF PrepareEnforcement
<1>4. CASE CreateRunDir
    BY <1>a, <1>b, <1>4 DEF CreateRunDir
<1>5. CASE AppendStart
    <2>1. \A i \in DOMAIN trace : trace[i] # "run_end"
        BY <1>5 DEF AppendStart, Written
    <2>2. /\ DOMAIN Append(trace, "run_start") = 1..(Len(trace) + 1)
          /\ \A i \in 1..Len(trace) : Append(trace, "run_start")[i] = trace[i]
          /\ Append(trace, "run_start")[Len(trace) + 1] = "run_start"
        BY <1>a, <1>c
    <2>3. \A i \in DOMAIN Append(trace, "run_start") : Append(trace, "run_start")[i] # "run_end"
        BY <1>b, <1>d, <2>1, <2>2, Zenon
    <2> QED
        BY <1>a, <1>5, <2>3 DEF AppendStart, AppendEvent
<1>6. CASE SyncStart
    BY <1>a, <1>b, <1>6 DEF SyncStart, Sync
<1>7. CASE SpawnBroker
    BY <1>a, <1>b, <1>7 DEF SpawnBroker
<1>8. CASE AwaitBroker
    BY <1>a, <1>b, <1>8 DEF AwaitBroker
<1>9. CASE Fork
    BY <1>a, <1>b, <1>9 DEF Fork, InStep
<1>10. CASE RecvFd
    BY <1>a, <1>b, <1>10 DEF RecvFd
<1>11. CASE SendAck
    BY <1>a, <1>b, <1>11 DEF SendAck
<1>12. CASE AwaitBoundary
    BY <1>a, <1>b, <1>12 DEF AwaitBoundary
<1>13. CASE WrapListener
    BY <1>a, <1>b, <1>13 DEF WrapListener
<1>14. CASE Reap
    BY <1>a, <1>b, <1>14 DEF Reap
<1>15. CASE ServeExec
    <2>1. \A i \in DOMAIN trace : trace[i] # "run_end"
        BY <1>15 DEF ServeExec
    <2>2. /\ DOMAIN Append(trace, "event") = 1..(Len(trace) + 1)
          /\ \A i \in 1..Len(trace) : Append(trace, "event")[i] = trace[i]
          /\ Append(trace, "event")[Len(trace) + 1] = "event"
        BY <1>a, <1>c
    <2>3. \A i \in DOMAIN Append(trace, "event") : Append(trace, "event")[i] # "run_end"
        BY <1>b, <1>d, <2>1, <2>2, Zenon
    <2> QED
        BY <1>a, <1>15, <2>3 DEF ServeExec
<1>16. CASE ServeCall
    <2>1. \A i \in DOMAIN trace : trace[i] # "run_end"
        BY <1>16 DEF ServeCall
    <2>2. /\ DOMAIN Append(trace, "event") = 1..(Len(trace) + 1)
          /\ \A i \in 1..Len(trace) : Append(trace, "event")[i] = trace[i]
          /\ Append(trace, "event")[Len(trace) + 1] = "event"
        BY <1>a, <1>c
    <2>3. \A i \in DOMAIN Append(trace, "event") : Append(trace, "event")[i] # "run_end"
        BY <1>b, <1>d, <2>1, <2>2, Zenon
    <2> QED
        BY <1>a, <1>16, <2>3 DEF ServeCall
<1>17. CASE LoopAborts
    BY <1>a, <1>b, <1>17 DEF LoopAborts, InStep
<1>18. CASE HangUp
    BY <1>a, <1>b, <1>18 DEF HangUp
<1>19. CASE AppendEnd
    <2>1. CASE pc' = "sync_end" /\ trace' = Append(trace, "run_end")
        <3>1. \A i \in DOMAIN trace : trace[i] # "run_end"
            BY <1>19 DEF AppendEnd
        <3>2. Len(trace) >= 1 /\ trace[1] = "run_start"
            BY <1>a, <1>19 DEF AppendEnd, Written, Running
        <3>3. child = "reaped" /\ ~kids /\ status # "none" /\ report = "none" /\ exit # "passed"
            BY <1>19 DEF AppendEnd, InStep, Prepared
        <3>4. /\ Len(trace') = Len(trace) + 1
              /\ DOMAIN trace' = 1..(Len(trace) + 1)
              /\ \A i \in 1..Len(trace) : trace'[i] = trace[i]
              /\ trace'[Len(trace) + 1] = "run_end"
            BY <1>a, <1>c, <2>1
        <3>5. \A i \in DOMAIN trace' : trace'[i] = "run_end" => i = Len(trace')
            BY <1>b, <1>d, <3>1, <3>4, Zenon
        <3>6. trace'[1] = "run_start"
            BY <1>a, <3>2, <3>4
        <3> QED
            BY <1>19, <2>1, <3>3, <3>4, <3>5, <3>6 DEF AppendEnd
    <2>2. CASE pc' = "fail" /\ UNCHANGED trace
        BY <1>19, <2>2 DEF AppendEnd
    <2> QED
        BY <1>19, <2>1, <2>2 DEF AppendEnd, AppendEvent
<1>20. CASE SyncEnd
    <2>1. Len(trace) >= 1
        BY <1>a, <1>20 DEF SyncEnd, Written, Running
    <2>2. \/ durable' = Len(trace) /\ pc' = "report"
          \/ durable' = durable /\ pc' = "fail"
        BY <1>20 DEF SyncEnd, Sync
    <2> QED
        BY <1>b, <1>20, <2>1, <2>2 DEF SyncEnd
<1>21. CASE WriteReport
    BY <1>a, <1>b, <1>21 DEF WriteReport
<1>22. CASE Leave
    BY <1>a, <1>b, <1>22 DEF Leave
<1>23. CASE ChildFilter
    BY <1>a, <1>b, <1>23 DEF ChildFilter
<1>24. CASE ChildSend
    BY <1>a, <1>b, <1>24 DEF ChildSend, Die
<1>25. CASE ChildAck
    BY <1>a, <1>b, <1>25 DEF ChildAck, Die
<1>26. CASE ChildLandlock
    BY <1>a, <1>b, <1>26 DEF ChildLandlock
<1>27. CASE ChildExec
    BY <1>a, <1>b, <1>27 DEF ChildExec, Die
<1>28. CASE ExecUnserved
    BY <1>a, <1>b, <1>28 DEF ExecUnserved, Die
<1>29. CASE ChildFails
    BY <1>a, <1>b, <1>29 DEF ChildFails, Die, Setup
<1>30. CASE AgentForks
    BY <1>a, <1>b, <1>30 DEF AgentForks
<1>31. CASE AgentExits
    BY <1>a, <1>b, <1>31 DEF AgentExits, Die
<1>32. CASE KidsExit
    BY <1>a, <1>b, <1>32 DEF KidsExit
<1>33. CASE BrokerSetup
    BY <1>a, <1>b, <1>33 DEF BrokerSetup
<1>34. CASE BrokerEnds
    BY <1>a, <1>b, <1>34 DEF BrokerEnds
<1>35. CASE Crash
    BY <1>a, <1>b, <1>35 DEF Crash
<1>36. CASE PowerLoss
    <2>1. PICK n \in durable..Len(trace) : trace' = SubSeq(trace, 1, n)
        BY <1>36 DEF PowerLoss
    <2>2. /\ Len(trace') = n /\ DOMAIN trace' = 1..n
          /\ \A i \in 1..n : trace'[i] = trace[i]
        BY <1>a, <2>1
    <2>3. \A i \in DOMAIN trace' : trace'[i] = "run_end" =>
             i = Len(trace') /\ trace'[1] = "run_start" /\ status # "none"
        <3> SUFFICES ASSUME NEW i \in DOMAIN trace', trace'[i] = "run_end"
                     PROVE  i = Len(trace') /\ trace'[1] = "run_start" /\ status # "none"
            OBVIOUS
        <3>1. i \in 1..n /\ trace[i] = "run_end"
            BY <2>2, Zenon
        <3>2. i \in 1..Len(trace) /\ 1 \in 1..n
            BY <1>a, <3>1
        <3>3. i = Len(trace) /\ trace[1] = "run_start" /\ status # "none"
            BY <1>b, <3>1, <3>2
        <3> QED
            BY <1>a, <2>2, <3>1, <3>2, <3>3
    <2>4. report # "none" => durable' = Len(trace') /\ durable' >= 1 /\ trace'[durable'] = "run_end"
        BY <1>a, <1>36, <2>2 DEF PowerLoss
    <2>5. report' # "none" => report # "none"
        BY <1>36 DEF PowerLoss
    <2>6. report = "written" => report' = "written"
        BY <1>36 DEF PowerLoss
    <2>7. status' = status /\ exit' = exit /\ pc' = "off"
        BY <1>36 DEF PowerLoss
    <2> QED
        BY <2>3, <2>4, <2>5, <2>6, <2>7
<1>37. CASE UNCHANGED vars
    BY <1>a, <1>b, <1>37 DEF vars
<1> QED
    BY <1>1, <1>2, <1>3, <1>4, <1>5, <1>6, <1>7, <1>8, <1>9, <1>10, <1>11,
       <1>12, <1>13, <1>14, <1>15, <1>16, <1>17, <1>18, <1>19, <1>20, <1>21,
       <1>22, <1>23, <1>24, <1>25, <1>26, <1>27, <1>28, <1>29, <1>30, <1>31,
       <1>32, <1>33, <1>34, <1>35, <1>36, <1>37
    DEF Next, Supervisor, ChildSetup, Agent, Finished

-----------------------------------------------------------------------------
(***************************************************************************)
(* Theorems.                                                               *)
(***************************************************************************)

\* A run that has not started satisfies the invariant (dispatch_run).
LEMMA InitInv == Init => SessionInv
<1> SUFFICES ASSUME Init PROVE SessionInv
    OBVIOUS
<1>1. TypeOK
    <2>1. setting \in [mode : RunModes, caps : SUBSET Capabilities]
        BY DEF Init
    <2>2. trace \in Seq(EventKinds) /\ durable \in Nat /\ durable <= Len(trace)
        BY DEF Init
    <2>3. up \in Seq({"L", "B"}) /\ down \in Seq({"A"})
        BY DEF Init
    <2>4. listener \subseteq {"child", "message", "supervisor"}
        BY DEF Init
    <2>5. ScalarsOK
        BY <2>1 DEF Init, ScalarsOK, Opening, Statuses
    <2> QED
        BY <2>2, <2>3, <2>4, <2>5
        DEF TypeOK, ScalarsOK, Opening, Running, Over, Handshake, Ended
<1>2. Prepared
    BY DEF Init, Prepared, Opening, Over, Handshake, Ended
<1>3. Written
    BY DEF Init, Written, Opening, Running, Over, Handshake, Ended
<1>4. Closed
    <2>1. DOMAIN trace = {}
        BY DEF Init
    <2> QED
        BY <2>1 DEF Init, Closed
<1>5. InStep
    BY DEF Init, InStep, Closing
<1>6. Exchanged
    BY DEF Init, Exchanged
<1> QED
    BY <1>1, <1>2, <1>3, <1>4, <1>5, <1>6 DEF SessionInv

\* The invariant holds throughout every run: what the supervisor, the child, the
\* socket between them and the files can be at each step (run_session,
\* parent_handshake, enter).
THEOREM SessionInvariance == Spec => []SessionInv
<1>1. Init => SessionInv
    BY InitInv
<1>2. SessionInv /\ [Next]_vars => SessionInv'
    <2> SUFFICES ASSUME SessionInv, [Next]_vars PROVE SessionInv'
        OBVIOUS
    <2>1. TypeOK /\ Prepared /\ Written /\ Closed /\ InStep /\ Exchanged
        BY DEF SessionInv
    <2>2. TypeOK'
        BY <2>1, TypeStep
    <2>3. Prepared'
        BY <2>1, PreparedStep
    <2>4. Written'
        BY <2>1, WrittenStep
    <2>5. Closed'
        BY <2>1, ClosedStep
    <2>6. InStep'
        BY <2>1, InStepStep
    <2>7. Exchanged'
        BY <2>1, ExchangedStep
    <2> QED
        BY <2>2, <2>3, <2>4, <2>5, <2>6, <2>7 DEF SessionInv
<1> QED
    BY <1>1, <1>2, PTL DEF Spec

\* Every variable of a run keeps its type, and what is durable is a prefix of
\* what was written (run_session).
THEOREM SessionTypeCorrect == Spec => []TypeOK
<1>1. SessionInv => TypeOK
    BY DEF SessionInv
<1> QED
    BY <1>1, SessionInvariance, PTL

\* A run that produced a child left evidence of it: whatever fails, is killed or
\* loses power later, meta.json and run_start stay (run_session: the trace is
\* synced before the fork).
THEOREM ChildLeavesEvidence == Spec => []EvidenceOfChild
<1>1. SessionInv => EvidenceOfChild
    <2> SUFFICES ASSUME SessionInv, forked
                 PROVE  meta /\ trace # <<>> /\ trace[1] = "run_start"
        BY DEF EvidenceOfChild
    <2>1. meta /\ durable >= 1 /\ trace[1] = "run_start"
        BY DEF SessionInv, Written
    <2>2. durable \in Nat /\ durable <= Len(trace)
        BY DEF SessionInv, TypeOK
    <2>3. trace # <<>>
        BY <2>1, <2>2
    <2> QED
        BY <2>1, <2>3
<1> QED
    BY <1>1, SessionInvariance, PTL

\* run_end tells the truth: nothing follows it, the tree was gone when it was
\* written, and its status is the reaped child's (run_session after run_loop,
\* NotifyFd's hang-up).
THEOREM TruthfulEnd == Spec => []RunEndIsTruthful
<1>1. SessionInv => RunEndIsTruthful
    BY DEF SessionInv, Closed, RunEndIsTruthful
<1> QED
    BY <1>1, SessionInvariance, PTL

\* A report is only ever written from a complete and durable trace, and leash
\* passes the child's result on only with a report (run_session, dispatch_run).
THEOREM ReportRests == Spec => []ReportRestsOnTrace
<1>1. SessionInv => ReportRestsOnTrace
    BY DEF SessionInv, Closed, ReportRestsOnTrace
<1> QED
    BY <1>1, SessionInvariance, PTL

\* A run that fails leaves no child behind, under every fault and on every path
\* but the return of a failing NotifyFd::new, which has an exit of its own in the
\* model (parent_handshake, abort_run).
THEOREM NoZombieLeft == Spec => []FailureLeavesNoZombie
<1>1. SessionInv => FailureLeavesNoZombie
    BY DEF SessionInv, InStep, FailureLeavesNoZombie
<1> QED
    BY <1>1, SessionInvariance, PTL

-----------------------------------------------------------------------------
(***************************************************************************)
(* What a step may never do.                                               *)
(***************************************************************************)

\* The only step that makes the child the agent is the answer to its execve.
LEMMA AgentStarts ==
    ASSUME [Next]_vars, child' = "agent", child # "agent"
    PROVE  ServeExec
<1> USE DEF supervisorVars, childVars
<1>1. CASE Supervisor
    BY <1>1 DEF Supervisor, Parse, Preflight, PrepareEnforcement, CreateRunDir, AppendStart,
                SyncStart, SpawnBroker, AwaitBroker, Fork, RecvFd, SendAck, AwaitBoundary,
                WrapListener, Reap, ServeCall, LoopAborts, HangUp, AppendEnd, SyncEnd,
                WriteReport, Leave
<1>2. CASE ChildSetup
    BY <1>2 DEF ChildSetup, ChildFilter, ChildSend, ChildAck, ChildLandlock, ChildExec,
                ExecUnserved, Die
<1>3. CASE Agent
    BY <1>3 DEF Agent, ChildFails, AgentForks, AgentExits, KidsExit, Die
<1>4. CASE BrokerSetup \/ BrokerEnds \/ Crash \/ PowerLoss
    BY <1>4 DEF BrokerSetup, BrokerEnds, Crash, PowerLoss
<1>5. CASE UNCHANGED vars
    BY <1>5 DEF vars
<1> QED
    BY <1>1, <1>2, <1>3, <1>4, <1>5 DEF Next, Finished

\* The agent starts only inside the whole boundary: with the capabilities
\* preflight asked for, under Landlock in an enforce run, its execve in the trace,
\* and with a supervisor that holds the listener (preflight::evaluate, enter,
\* parent_handshake).
THEOREM AgentStartsConfined == Spec => AgentInsideBoundary
<1> DEFINE Confined ==
        (child' = "agent" /\ child # "agent") =>
          /\ Capabilities \ setting.caps \subseteq {"landlock"}
          /\ RunMode = "enforce" =>
                "landlock" \in setting.caps /\ landlocked /\ broker \in {"ready", "lost"}
          /\ pc \notin Ended /\ listener = {"supervisor"}
          /\ Len(trace') >= 2
<1>1. SessionInv /\ [Next]_vars => [Confined]_vars
    <2> SUFFICES ASSUME SessionInv, [Next]_vars, child' = "agent", child # "agent"
                 PROVE  Confined
        OBVIOUS
    <2>1. pc = "serve" /\ child = "exec" /\ trace' = Append(trace, "event")
        BY AgentStarts DEF ServeExec
    <2>2. Required \subseteq setting.caps
        BY <2>1 DEF SessionInv, Prepared, Over, Ended
    <2>3. Capabilities \ setting.caps \subseteq {"landlock"}
        BY <2>2 DEF Required
    <2>4. RunMode = "enforce" =>
             "landlock" \in setting.caps /\ landlocked /\ broker \in {"ready", "lost"}
        BY <2>1, <2>2 DEF SessionInv, Prepared, Exchanged, Required, Capabilities
    <2>5. pc \notin Ended /\ listener = {"supervisor"}
        BY <2>1 DEF SessionInv, Exchanged, Ended
    <2>6. durable \in Nat /\ durable <= Len(trace) /\ durable >= 1
        BY <2>1 DEF SessionInv, TypeOK, Written, Running
    <2>7. Len(trace') >= 2
        <3>1. trace \in Seq(EventKinds) /\ "event" \in EventKinds
            BY DEF SessionInv, TypeOK, EventKinds
        <3>2. Len(trace') = Len(trace) + 1 /\ Len(trace) \in Nat
            BY <2>1, <3>1
        <3> QED
            BY <2>6, <3>2
    <2> QED
        BY <2>3, <2>4, <2>5, <2>7
<1> QED
    BY <1>1, SessionInvariance, PTL DEF Spec, AgentInsideBoundary

\* The trace grows only in the steps of a run that is under way.
LEMMA OnlyRunningAppends ==
    ASSUME [Next]_vars, pc \in Over
    PROVE  trace' = trace \/ \E n \in durable..Len(trace) : trace' = SubSeq(trace, 1, n)
<1> USE DEF supervisorVars, fileVars, Over, Ended
<1>1. CASE Supervisor
    BY <1>1 DEF Supervisor, Parse, Preflight, PrepareEnforcement, CreateRunDir, AppendStart,
                SyncStart, SpawnBroker, AwaitBroker, Fork, RecvFd, SendAck, AwaitBoundary,
                WrapListener, Reap, ServeExec, ServeCall, LoopAborts, HangUp, AppendEnd,
                SyncEnd, WriteReport, Leave
<1>2. CASE ChildSetup
    BY <1>2 DEF ChildSetup, ChildFilter, ChildSend, ChildAck, ChildLandlock, ChildExec,
                ExecUnserved
<1>3. CASE Agent
    BY <1>3 DEF Agent, ChildFails, AgentForks, AgentExits, KidsExit
<1>4. CASE BrokerSetup \/ BrokerEnds \/ Crash \/ PowerLoss
    BY <1>4 DEF BrokerSetup, BrokerEnds, Crash, PowerLoss
<1>5. CASE UNCHANGED vars
    BY <1>5 DEF vars
<1> QED
    BY <1>1, <1>2, <1>3, <1>4, <1>5 DEF Next, Finished

\* Nothing is appended behind a torn line: a write that fails ends the run, by
\* whichever part of it (TraceWriter::append, run_session).
THEOREM TornIsLast == Spec => NothingAfterTorn
<1>1. SessionInv /\ [Next]_vars => [torn => Len(trace') <= Len(trace)]_vars
    <2> SUFFICES ASSUME SessionInv, [Next]_vars, torn
                 PROVE  Len(trace') <= Len(trace)
        OBVIOUS
    <2>1. pc \in Over
        BY DEF SessionInv, Written
    <2>2. trace \in Seq(EventKinds) /\ durable \in Nat
        BY DEF SessionInv, TypeOK
    <2>3. CASE trace' = trace
        BY <2>2, <2>3
    <2>4. CASE \E n \in durable..Len(trace) : trace' = SubSeq(trace, 1, n)
        BY <2>2, <2>4
    <2> QED
        BY <2>1, <2>3, <2>4, OnlyRunningAppends
<1> QED
    BY <1>1, SessionInvariance, PTL DEF Spec, NothingAfterTorn

=============================================================================
