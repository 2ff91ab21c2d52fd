-------------------------- MODULE SysNotifydProofs --------------------------
(* Machine-checked properties of SysNotifyd, for every value of its constants. *)
EXTENDS SysNotifyd, TLAPS

-----------------------------------------------------------------------------
(* Type correctness. *)

LEMMA GensFacts ==
  /\ 0 \in Gens0 /\ 0 \notin Gens
  /\ Gens \subseteq Gens0
  /\ \A g \in Gens0 : g \in Int /\ (g # 0 => g \in Gens)
  /\ \A g \in Gens0 : g < MaxGen => g + 1 \in Gens
  BY ConstantsAssumption DEF Gens, Gens0

LEMMA PidFacts ==
  /\ \A g \in Gens : <<g, "main">> \in Pids /\ <<g, "helper">> \in Pids
  /\ \A p \in Pids : p[1] \in Gens
  BY DEF Pids

LEMMA QueueFacts ==
  ASSUME NEW S, NEW q \in Seq(S)
  PROVE  /\ q # <<>> => Head(q) \in S /\ Tail(q) \in Seq(S)
         /\ \A v \in S : Append(q, v) \in Seq(S)
         /\ \A v \in S : \A cap : TrySend(q, v, cap) \in Seq(S)
  BY DEF TrySend

(* TypeOK alone is not inductive: startChild indexes by the generation it    *)
(* began, and the reader stores a process of the sender it authenticated.    *)
StartedGen == mpc \in {"exec", "spawn"} => seq \in Gens
KnownSender == rpc # "recv" => rdFrom \in Pids
TypeInv == TypeOK /\ StartedGen /\ KnownSender

LEMMA TypeInit == Init => TypeInv
<1> SUFFICES ASSUME Init PROVE TypeInv
  OBVIOUS
<1> USE GensFacts
<1>1. MainType
  BY DEF Init, MainType, MainPcs
<1>2. ServerType
  BY DEF Init, ServerType
<1>3. ChanType
  BY DEF Init, ChanType
<1>4. ProcType
  BY DEF Init, ProcType
<1>5. MonType
  BY DEF Init, MonType, MonPcs
<1>6. ReadType
  BY DEF Init, ReadType
<1>7. QueueType
  BY ConstantsAssumption DEF Init, QueueType
<1>8. FlagType
  BY DEF Init, FlagType
<1>9. StartedGen /\ KnownSender
  BY DEF Init, StartedGen, KnownSender
<1> QED
  BY <1>1, <1>2, <1>3, <1>4, <1>5, <1>6, <1>7, <1>8, <1>9 DEF TypeInv, TypeOK

LEMMA TypeGoto ==
  ASSUME TypeInv, NEW from, NEW to \in MainPcs \ {"exec", "spawn"}, Goto(from,
     to)
  PROVE  TypeInv'
<1> USE DEF Goto, TypeInv, TypeOK, mainVars, srvVars, chanVars, procVars,
   monVars,
            readVars, dogVars, envVars, peerVars, inVars
<1>1. MainType' /\ ServerType' /\ ChanType' /\ ProcType' /\ MonType'
  BY DEF MainType, ServerType, ChanType, ProcType, MonType
<1>2. ReadType' /\ QueueType' /\ FlagType' /\ StartedGen' /\ KnownSender'
  BY DEF ReadType, QueueType, FlagType, StartedGen, KnownSender
<1> QED
  BY <1>1, <1>2

LEMMA TypeNext == TypeInv /\ [Next]_vars => TypeInv'
<1> SUFFICES ASSUME TypeInv, [Next]_vars PROVE TypeInv'
  OBVIOUS
<1> USE GensFacts, PidFacts, ConstantsAssumption
    DEF TypeInv, TypeOK, mainVars, srvVars, chanVars, procVars, monVars,
       readVars,
        dogVars, envVars, peerVars, inVars
<1>1. CASE Boot
  <2>1. MainType' /\ ServerType'
    BY <1>1 DEF Boot,
       MainType, ServerType, MainPcs
  <2>2. ChanType' /\ ProcType' /\ MonType' /\ ReadType' /\ QueueType' /\ FlagType'
    BY <1>1 DEF Boot,
       ChanType, ProcType, MonType, ReadType, QueueType, FlagType
  <2>3. StartedGen' /\ KnownSender'
    BY <1>1 DEF Boot, StartedGen, KnownSender, ServerType
  <2> QED
    BY <2>1, <2>2, <2>3
<1>2. CASE StartChildBegin
  <2>1. MainType'
    BY <1>2 DEF StartChildBegin, MainType, MainPcs
  <2>2. ServerType'
    BY <1>2 DEF StartChildBegin, StartedGen, ServerType
  <2>3. QueueType'
    BY <1>2, QueueFacts DEF StartChildBegin, QueueType
  <2>4. ChanType' /\ ProcType' /\ MonType' /\ ReadType' /\ FlagType'
    BY <1>2 DEF StartChildBegin,
       ChanType, ProcType, MonType, ReadType, FlagType
  <2>5. StartedGen' /\ KnownSender'
    BY <1>2 DEF StartChildBegin, StartedGen, KnownSender, MainType, ServerType,
       ReadType, Datagrams
  <2> QED
    BY <2>1, <2>2, <2>3, <2>4, <2>5
<1>3. CASE StartChildExec
  <2>1. MainType'
    BY <1>3 DEF StartChildExec, MainType, MainPcs
  <2>2. ServerType'
    BY <1>3 DEF StartChildExec, StartedGen, ServerType
  <2>3. ProcType'
    BY <1>3 DEF StartChildExec, ProcType
  <2>4. ChanType' /\ MonType' /\ ReadType' /\ QueueType' /\ FlagType'
    BY <1>3 DEF StartChildExec,
       ChanType, MonType, ReadType, QueueType, FlagType
  <2>5. StartedGen' /\ KnownSender'
    BY <1>3 DEF StartChildExec, StartedGen, KnownSender, MainType, ServerType,
       ReadType, Datagrams
  <2> QED
    BY <2>1, <2>2, <2>3, <2>4, <2>5
<1>4. CASE StartChildFail
  <2>1. MainType' /\ ServerType' /\ QueueType'
    BY <1>4, QueueFacts DEF StartChildFail, ResetForIdle,
       MainType, ServerType, QueueType, MainPcs
  <2>2. ChanType' /\ ProcType' /\ MonType' /\ ReadType' /\ FlagType'
    BY <1>4 DEF StartChildFail,
       ChanType, ProcType, MonType, ReadType, FlagType
  <2>3. StartedGen' /\ KnownSender'
    BY <1>4 DEF StartChildFail, StartedGen, KnownSender
  <2> QED
    BY <2>1, <2>2, <2>3
<1>5. CASE StartChildSpawn
  <2>1. MainType'
    BY <1>5 DEF StartChildSpawn, MainType, MainPcs
  <2>2. ServerType'
    BY <1>5 DEF StartChildSpawn, MarkChildReady, StartedGen, ServerType
  <2>3. ChanType'
    BY <1>5 DEF StartChildSpawn, MarkChildReady, ChanType
  <2>4. ProcType'
    BY <1>5 DEF StartChildSpawn, ProcType
  <2>5. MonType'
    BY <1>5 DEF StartChildSpawn, MonType, MonPcs
  <2>6. ReadType' /\ QueueType' /\ FlagType'
    BY <1>5 DEF StartChildSpawn,
       ReadType, QueueType, FlagType
  <2>7. StartedGen' /\ KnownSender'
    BY <1>5 DEF StartChildSpawn, StartedGen, KnownSender, MainType, ServerType,
       ReadType, Datagrams
  <2> QED
    BY <2>1, <2>2, <2>3, <2>4, <2>5, <2>6, <2>7
<1>6. CASE WaitUntilReady
  <2>1. MainType'
    BY <1>6 DEF WaitUntilReady,
       MainType, ServerType, MainPcs
  <2>2. ServerType' /\ ChanType' /\ ProcType' /\ MonType' /\ ReadType' /\ QueueType' /\ FlagType'
    BY <1>6 DEF WaitUntilReady,
       ServerType, ChanType, ProcType, MonType, ReadType, QueueType, FlagType
  <2>3. StartedGen' /\ KnownSender'
    BY <1>6 DEF WaitUntilReady, StartedGen, KnownSender
  <2> QED
    BY <2>1, <2>2, <2>3
<1>7. CASE WaitForReadyOk
  BY <1>7, TypeGoto DEF WaitForReadyOk, MainPcs
<1>8. CASE WaitForReadyFail
  BY <1>8, TypeGoto DEF WaitForReadyFail, MainPcs
<1>9. CASE WaitMark
  <2>1. MainType'
    BY <1>9 DEF WaitMark, MainType, MainPcs
  <2>2. ServerType'
    BY <1>9 DEF WaitMark, MarkChildReady, StartedGen, ServerType
  <2>3. ChanType'
    BY <1>9 DEF WaitMark, MarkChildReady, ChanType
  <2>4. ProcType' /\ MonType' /\ ReadType' /\ QueueType' /\ FlagType'
    BY <1>9 DEF WaitMark,
       ProcType, MonType, ReadType, QueueType, FlagType
  <2>5. StartedGen' /\ KnownSender'
    BY <1>9 DEF WaitMark, StartedGen, KnownSender, MainType, ServerType,
       ReadType, Datagrams
  <2> QED
    BY <2>1, <2>2, <2>3, <2>4, <2>5
<1>10. CASE EmitReady
  <2>1. MainType'
    BY <1>10 DEF EmitReady,
       MainType, MainPcs
  <2>2. ServerType' /\ ChanType' /\ ProcType' /\ MonType' /\ ReadType' /\ QueueType' /\ FlagType'
    BY <1>10 DEF EmitReady,
       ServerType, ChanType, ProcType, MonType, ReadType, QueueType, FlagType
  <2>3. StartedGen' /\ KnownSender'
    BY <1>10 DEF EmitReady, StartedGen, KnownSender
  <2> QED
    BY <2>1, <2>2, <2>3
<1>11. CASE HandleStartReq
  <2>1. MainType'
    BY <1>11 DEF HandleStartReq, MainType, MainPcs
  <2>2. QueueType'
    BY <1>11 DEF HandleStartReq, QueueType
  <2>3. ServerType' /\ ChanType' /\ ProcType' /\ MonType' /\ ReadType' /\ FlagType'
    BY <1>11 DEF HandleStartReq,
       ServerType, ChanType, ProcType, MonType, ReadType, FlagType
  <2>4. StartedGen' /\ KnownSender'
    BY <1>11 DEF HandleStartReq, StartedGen, KnownSender, MainType, ServerType,
       ReadType, Datagrams
  <2> QED
    BY <2>1, <2>2, <2>3, <2>4
<1>12. CASE HandleChildExit
  <2>1. MainType'
    BY <1>12 DEF HandleChildExit, MainType, MainPcs
  <2>2. QueueType'
    BY <1>12 DEF HandleChildExit, QueueType
  <2>3. ServerType' /\ ChanType' /\ ProcType' /\ MonType' /\ ReadType' /\ FlagType'
    BY <1>12 DEF HandleChildExit,
       ServerType, ChanType, ProcType, MonType, ReadType, FlagType
  <2>4. StartedGen' /\ KnownSender'
    BY <1>12 DEF HandleChildExit, StartedGen, KnownSender, MainType, ServerType,
       ReadType, Datagrams
  <2> QED
    BY <2>1, <2>2, <2>3, <2>4
<1>13. CASE HandleWatchdogTimeout
  <2>1. MainType'
    BY <1>13 DEF HandleWatchdogTimeout, MainType, MainPcs
  <2>2. FlagType'
    BY <1>13 DEF HandleWatchdogTimeout, FlagType
  <2>3. ServerType' /\ ChanType' /\ ProcType' /\ MonType' /\ ReadType' /\ QueueType'
    BY <1>13 DEF HandleWatchdogTimeout,
       ServerType, ChanType, ProcType, MonType, ReadType, QueueType
  <2>4. StartedGen' /\ KnownSender'
    BY <1>13 DEF HandleWatchdogTimeout, StartedGen, KnownSender, MainType,
       ServerType, ReadType, Datagrams
  <2> QED
    BY <2>1, <2>2, <2>3, <2>4
<1>14. CASE StopChildBegin
  <2>1. MainType'
    BY <1>14 DEF StopChildBegin, ServerType, MainType, MainPcs
  <2>2. ServerType'
    BY <1>14 DEF StopChildBegin, StartedGen, ServerType
  <2>3. ChanType' /\ ProcType' /\ MonType' /\ ReadType' /\ QueueType' /\ FlagType'
    BY <1>14 DEF StopChildBegin,
       ChanType, ProcType, MonType, ReadType, QueueType, FlagType
  <2>4. StartedGen' /\ KnownSender'
    BY <1>14 DEF StopChildBegin, StartedGen, KnownSender, MainType, ServerType,
       ReadType, Datagrams
  <2> QED
    BY <2>1, <2>2, <2>3, <2>4
<1>15. CASE StopChildPhase
  <2>1. MainType' /\ ServerType'
    BY <1>15 DEF StopChildPhase,
       MainType, ServerType, MainPcs
  <2>2. ChanType' /\ ProcType' /\ MonType' /\ ReadType' /\ QueueType' /\ FlagType'
    BY <1>15 DEF StopChildPhase,
       ChanType, ProcType, MonType, ReadType, QueueType, FlagType
  <2>3. StartedGen' /\ KnownSender'
    BY <1>15 DEF StopChildPhase, StartedGen, KnownSender
  <2> QED
    BY <2>1, <2>2, <2>3
<1>16. CASE StopChildSignal
  BY <1>16, TypeGoto DEF StopChildSignal, MainPcs
<1>17. CASE StopChildExited
  BY <1>17, TypeGoto DEF StopChildExited, MainPcs
<1>18. CASE StopChildTimeout
  BY <1>18, TypeGoto DEF StopChildTimeout, MainPcs
<1>19. CASE StopChildCheck
  BY <1>19, TypeGoto DEF StopChildCheck, MainPcs
<1>20. CASE StopChildKill
  <2>1. MainType' /\ ProcType'
    BY <1>20 DEF StopChildKill, Kill,
       MainType, ProcType, MainPcs
  <2>2. ServerType' /\ ChanType' /\ MonType' /\ ReadType' /\ QueueType' /\ FlagType'
    BY <1>20 DEF StopChildKill, Kill,
       ServerType, ChanType, MonType, ReadType, QueueType, FlagType
  <2>3. StartedGen' /\ KnownSender'
    BY <1>20 DEF StopChildKill, Kill, StartedGen, KnownSender
  <2> QED
    BY <2>1, <2>2, <2>3
<1>21. CASE AbortBegin
  <2>1. MainType'
    BY <1>21 DEF AbortBegin,
       MainType, ServerType, MainPcs
  <2>2. ServerType' /\ ChanType' /\ ProcType' /\ MonType' /\ ReadType' /\ QueueType' /\ FlagType'
    BY <1>21 DEF AbortBegin,
       ServerType, ChanType, ProcType, MonType, ReadType, QueueType, FlagType
  <2>3. StartedGen' /\ KnownSender'
    BY <1>21 DEF AbortBegin, StartedGen, KnownSender
  <2> QED
    BY <2>1, <2>2, <2>3
<1>22. CASE AbortCheck
  BY <1>22, TypeGoto DEF AbortCheck, MainPcs
<1>23. CASE AbortKill
  <2>1. MainType' /\ ProcType'
    BY <1>23 DEF AbortKill, Kill,
       MainType, ProcType, MainPcs
  <2>2. ServerType' /\ ChanType' /\ MonType' /\ ReadType' /\ QueueType' /\ FlagType'
    BY <1>23 DEF AbortKill, Kill,
       ServerType, ChanType, MonType, ReadType, QueueType, FlagType
  <2>3. StartedGen' /\ KnownSender'
    BY <1>23 DEF AbortKill, Kill, StartedGen, KnownSender
  <2> QED
    BY <2>1, <2>2, <2>3
<1>24. CASE AbortJoin
  BY <1>24, TypeGoto DEF AbortJoin, MainPcs
<1>25. CASE ReadNotify
  <2> DEFINE d == Head(notifyQ)
  <2>1. notifyQ # <<>> /\ notifyQ' = Tail(notifyQ)
    BY <1>25 DEF ReadNotify
  <2>2. d \in Datagrams /\ notifyQ' \in Seq(Datagrams)
    BY <2>1, QueueFacts DEF ReadType
  <2>3. d.from \in Pids /\ d.lines \in Seq(Lines)
    BY <2>2 DEF Datagrams
  <2>4. ReadType' /\ KnownSender'
    BY <1>25, <2>2, <2>3 DEF ReadNotify, ReadType, KnownSender
  <2>5. MainType' /\ ServerType' /\ ChanType' /\ ProcType' /\ MonType'
    BY <1>25 DEF ReadNotify, MainType, ServerType, ChanType, ProcType, MonType
  <2>6. QueueType' /\ FlagType' /\ StartedGen'
    BY <1>25 DEF ReadNotify, QueueType, FlagType, StartedGen
  <2> QED
    BY <2>4, <2>5, <2>6
<1>26. CASE NotifyReady
  <2>1. ReadType'
    BY <1>26 DEF NotifyReady, NextLine,
       ReadType, ServerType
  <2>2. MainType' /\ ServerType' /\ ChanType' /\ ProcType' /\ MonType' /\ QueueType' /\ FlagType'
    BY <1>26 DEF NotifyReady, NextLine,
       MainType, ServerType, ChanType, ProcType, MonType, QueueType, FlagType
  <2>3. StartedGen' /\ KnownSender'
    BY <1>26 DEF NotifyReady, NextLine, StartedGen, KnownSender
  <2> QED
    BY <2>1, <2>2, <2>3
<1>27. CASE NotifyMark
  <2>1. ServerType'
    BY <1>27 DEF NotifyMark, MarkChildReady, StartedGen, ServerType
  <2>2. ChanType'
    BY <1>27 DEF NotifyMark, MarkChildReady, ChanType
  <2>3. ReadType'
    BY <1>27 DEF NotifyMark, ReadType
  <2>4. MainType' /\ ProcType' /\ MonType' /\ QueueType' /\ FlagType'
    BY <1>27 DEF NotifyMark,
       MainType, ProcType, MonType, QueueType, FlagType
  <2>5. StartedGen' /\ KnownSender'
    BY <1>27 DEF NotifyMark, StartedGen, KnownSender, MainType, ServerType,
       ReadType, Datagrams
  <2> QED
    BY <2>1, <2>2, <2>3, <2>4, <2>5
<1>28. CASE NotifyPhase
  <2>1. /\ rdLines # <<>> /\ rdLines' = Tail(rdLines)
        /\ UNCHANGED <<rpc, rdFrom, rdSeq, notifyQ>>
    BY <1>28 DEF NotifyPhase, NextLine
  <2>2. ReadType' /\ KnownSender'
    BY <2>1, QueueFacts DEF ReadType, KnownSender
  <2>3. ServerType'
    BY <1>28 DEF NotifyPhase, NextLine, ServerType
  <2>4. MainType' /\ ChanType' /\ ProcType' /\ MonType' /\ StartedGen'
    BY <1>28 DEF NotifyPhase, NextLine, MainType, ChanType, ProcType, MonType,
       StartedGen
  <2>5. QueueType' /\ FlagType'
    BY <1>28 DEF NotifyPhase, NextLine, QueueType, FlagType
  <2> QED
    BY <2>2, <2>3, <2>4, <2>5
<1>29. CASE NotifyWatchdog
  <2>1. ReadType'
    BY <1>29 DEF NotifyWatchdog, NextLine, ReadType
  <2>2. QueueType'
    BY <1>29, QueueFacts DEF NotifyWatchdog, NextLine, QueueType
  <2>3. MainType' /\ ServerType' /\ ChanType' /\ ProcType' /\ MonType' /\ FlagType'
    BY <1>29 DEF NotifyWatchdog, NextLine,
       MainType, ServerType, ChanType, ProcType, MonType, FlagType
  <2>4. StartedGen' /\ KnownSender'
    BY <1>29 DEF NotifyWatchdog, NextLine, StartedGen, KnownSender, MainType,
       ServerType, ReadType, Datagrams
  <2> QED
    BY <2>1, <2>2, <2>3, <2>4
<1>30. CASE NotifyMainPID
  <2>1. ReadType'
    BY <1>30 DEF NotifyMainPID, NextLine, ReadType
  <2>2. MainType' /\ ServerType' /\ ChanType' /\ ProcType' /\ MonType' /\ QueueType' /\ FlagType'
    BY <1>30 DEF NotifyMainPID, NextLine,
       MainType, ServerType, ChanType, ProcType, MonType, QueueType, FlagType
  <2>3. StartedGen' /\ KnownSender'
    BY <1>30 DEF NotifyMainPID, NextLine, StartedGen, KnownSender, MainType,
       ServerType, ReadType, Datagrams
  <2> QED
    BY <2>1, <2>2, <2>3
<1>31. CASE SetMainPID
  <2>1. ServerType'
    BY <1>31 DEF SetMainPID, StartedGen, KnownSender, ServerType
  <2>2. ReadType'
    BY <1>31 DEF SetMainPID, KnownSender, ReadType
  <2>3. MainType' /\ ChanType' /\ ProcType' /\ MonType' /\ QueueType' /\ FlagType'
    BY <1>31 DEF SetMainPID,
       MainType, ChanType, ProcType, MonType, QueueType, FlagType
  <2>4. StartedGen' /\ KnownSender'
    BY <1>31 DEF SetMainPID, StartedGen, KnownSender, MainType, ServerType,
       ReadType, Datagrams
  <2> QED
    BY <2>1, <2>2, <2>3, <2>4
<1>32. CASE ReadDone
  <2>1. ReadType'
    BY <1>32 DEF ReadDone,
       ReadType
  <2>2. MainType' /\ ServerType' /\ ChanType' /\ ProcType' /\ MonType' /\ QueueType' /\ FlagType'
    BY <1>32 DEF ReadDone,
       MainType, ServerType, ChanType, ProcType, MonType, QueueType, FlagType
  <2>3. StartedGen' /\ KnownSender'
    BY <1>32 DEF ReadDone, StartedGen, KnownSender
  <2> QED
    BY <2>1, <2>2, <2>3
<1>33. CASE WatchdogSet
  <2>1. QueueType' /\ FlagType'
    BY <1>33, QueueFacts DEF WatchdogSet,
       QueueType, FlagType
  <2>2. MainType' /\ ServerType' /\ ChanType' /\ ProcType' /\ MonType' /\ ReadType'
    BY <1>33 DEF WatchdogSet,
       MainType, ServerType, ChanType, ProcType, MonType, ReadType
  <2>3. StartedGen' /\ KnownSender'
    BY <1>33 DEF WatchdogSet, StartedGen, KnownSender
  <2> QED
    BY <2>1, <2>2, <2>3
<1>34. CASE WatchdogFire
  <2>1. FlagType'
    BY <1>34 DEF WatchdogFire, FlagType
  <2>2. MainType' /\ ServerType' /\ ChanType' /\ ProcType' /\ MonType' /\ ReadType' /\ QueueType'
    BY <1>34 DEF WatchdogFire,
       MainType, ServerType, ChanType, ProcType, MonType, ReadType, QueueType
  <2>3. StartedGen' /\ KnownSender'
    BY <1>34 DEF WatchdogFire, StartedGen, KnownSender, MainType, ServerType,
       ReadType, Datagrams
  <2> QED
    BY <2>1, <2>2, <2>3
<1>35. CASE ActivationLoop
  <2>1. QueueType'
    BY <1>35 DEF ActivationLoop, QueueType
  <2>2. MainType' /\ ServerType' /\ ChanType' /\ ProcType' /\ MonType' /\ ReadType' /\ FlagType'
    BY <1>35 DEF ActivationLoop,
       MainType, ServerType, ChanType, ProcType, MonType, ReadType, FlagType
  <2>3. StartedGen' /\ KnownSender'
    BY <1>35 DEF ActivationLoop, StartedGen, KnownSender, MainType, ServerType,
       ReadType, Datagrams
  <2> QED
    BY <2>1, <2>2, <2>3
<1>36. CASE ControlActivation
  <2>1. QueueType'
    BY <1>36 DEF ControlActivation, QueueType
  <2>2. MainType' /\ ServerType' /\ ChanType' /\ ProcType' /\ MonType' /\ ReadType' /\ FlagType'
    BY <1>36 DEF ControlActivation,
       MainType, ServerType, ChanType, ProcType, MonType, ReadType, FlagType
  <2>3. StartedGen' /\ KnownSender'
    BY <1>36 DEF ControlActivation, StartedGen, KnownSender, MainType,
       ServerType, ReadType, Datagrams
  <2> QED
    BY <2>1, <2>2, <2>3
<1>37. CASE ClientConnect
  <2>1. FlagType'
    BY <1>37 DEF ClientConnect,
       FlagType
  <2>2. MainType' /\ ServerType' /\ ChanType' /\ ProcType' /\ MonType' /\ ReadType' /\ QueueType'
    BY <1>37 DEF ClientConnect,
       MainType, ServerType, ChanType, ProcType, MonType, ReadType, QueueType
  <2>3. StartedGen' /\ KnownSender'
    BY <1>37 DEF ClientConnect, StartedGen, KnownSender
  <2> QED
    BY <2>1, <2>2, <2>3
<1>38. CASE Sigterm
  <2>1. MainType' /\ FlagType'
    BY <1>38 DEF Sigterm,
       MainType, FlagType, MainPcs
  <2>2. ServerType' /\ ChanType' /\ ProcType' /\ MonType' /\ ReadType' /\ QueueType'
    BY <1>38 DEF Sigterm,
       ServerType, ChanType, ProcType, MonType, ReadType, QueueType
  <2>3. StartedGen' /\ KnownSender'
    BY <1>38 DEF Sigterm, StartedGen, KnownSender
  <2> QED
    BY <2>1, <2>2, <2>3
<1>39. ASSUME NEW g \in Gens, Reap(g) PROVE TypeInv'
  <2>1. ServerType'
    BY <1>39 DEF Reap, ResetForIdle, StartedGen, ServerType
  <2>2. ChanType'
    BY <1>39 DEF Reap, ResetForIdle, ChanType
  <2>3. ProcType'
    BY <1>39 DEF Reap, ResetForIdle, ProcType
  <2>4. QueueType'
    <3>1. watchdogSet' \in {watchdogSet, TrySend(watchdogSet, "off",
       WatchdogCap)}
      BY <1>39 DEF Reap, ResetForIdle
    <3>2. TrySend(watchdogSet, "off", WatchdogCap) \in Seq({"off", "on"})
      BY QueueFacts DEF QueueType
    <3> QED
      BY <1>39, <3>1, <3>2 DEF Reap, QueueType
  <2>5. MainType' /\ MonType' /\ ReadType' /\ FlagType'
    BY <1>39 DEF Reap,
       MainType, MonType, ReadType, FlagType
  <2>6. StartedGen' /\ KnownSender'
    BY <1>39 DEF Reap, StartedGen, KnownSender, MainType, ServerType, ReadType,
       Datagrams
  <2> QED
    BY <2>1, <2>2, <2>3, <2>4, <2>5, <2>6
<1>40. ASSUME NEW g \in Gens, SendExit(g) PROVE TypeInv'
  <2>1. ProcType'
    BY <1>40 DEF SendExit, ProcType
  <2>2. QueueType'
    BY <1>40 DEF SendExit, QueueType
  <2>3. MainType' /\ ServerType' /\ ChanType' /\ MonType' /\ ReadType' /\ FlagType'
    BY <1>40 DEF SendExit,
       MainType, ServerType, ChanType, MonType, ReadType, FlagType
  <2>4. StartedGen' /\ KnownSender'
    BY <1>40 DEF SendExit, StartedGen, KnownSender, MainType, ServerType,
       ReadType, Datagrams
  <2> QED
    BY <2>1, <2>2, <2>3, <2>4
<1>41. ASSUME NEW g \in Gens, MonitorReady(g) PROVE TypeInv'
  <2>1. MonType'
    BY <1>41 DEF MonitorReady, MonitorStep,
       MonType, MonPcs
  <2>2. MainType' /\ ServerType' /\ ChanType' /\ ProcType' /\ ReadType' /\ QueueType' /\ FlagType'
    BY <1>41 DEF MonitorReady, MonitorStep,
       MainType, ServerType, ChanType, ProcType, ReadType, QueueType, FlagType
  <2>3. StartedGen' /\ KnownSender'
    BY <1>41 DEF MonitorReady, MonitorStep, StartedGen, KnownSender
  <2> QED
    BY <2>1, <2>2, <2>3
<1>42. ASSUME NEW g \in Gens, MonitorMark(g) PROVE TypeInv'
  <2>1. ServerType'
    BY <1>42 DEF MonitorMark, MarkChildReady, MonitorStep, StartedGen,
       ServerType
  <2>2. ChanType'
    BY <1>42 DEF MonitorMark, MarkChildReady, MonitorStep, ChanType
  <2>3. MonType'
    BY <1>42 DEF MonitorMark, MonitorStep, MonType, MonPcs
  <2>4. MainType' /\ ProcType' /\ ReadType' /\ QueueType' /\ FlagType'
    BY <1>42 DEF MonitorMark, MonitorStep,
       MainType, ProcType, ReadType, QueueType, FlagType
  <2>5. StartedGen' /\ KnownSender'
    BY <1>42 DEF MonitorMark, MonitorStep, StartedGen, KnownSender, MainType,
       ServerType, ReadType, Datagrams
  <2> QED
    BY <2>1, <2>2, <2>3, <2>4, <2>5
<1>43. ASSUME NEW g \in Gens, MonitorFail(g) PROVE TypeInv'
  <2>1. MonType'
    BY <1>43 DEF MonitorFail, MonitorStep,
       MonType, MonPcs
  <2>2. MainType' /\ ServerType' /\ ChanType' /\ ProcType' /\ ReadType' /\ QueueType' /\ FlagType'
    BY <1>43 DEF MonitorFail, MonitorStep,
       MainType, ServerType, ChanType, ProcType, ReadType, QueueType, FlagType
  <2>3. StartedGen' /\ KnownSender'
    BY <1>43 DEF MonitorFail, MonitorStep, StartedGen, KnownSender
  <2> QED
    BY <2>1, <2>2, <2>3
<1>44. ASSUME NEW g \in Gens, MonitorAbort(g) PROVE TypeInv'
  <2>1. MonType'
    BY <1>44 DEF MonitorAbort, MonitorStep,
       MonType, ServerType, MonPcs
  <2>2. MainType' /\ ServerType' /\ ChanType' /\ ProcType' /\ ReadType' /\ QueueType' /\ FlagType'
    BY <1>44 DEF MonitorAbort, MonitorStep,
       MainType, ServerType, ChanType, ProcType, ReadType, QueueType, FlagType
  <2>3. StartedGen' /\ KnownSender'
    BY <1>44 DEF MonitorAbort, MonitorStep, StartedGen, KnownSender
  <2> QED
    BY <2>1, <2>2, <2>3
<1>45. ASSUME NEW g \in Gens, MonitorCheck(g) PROVE TypeInv'
  <2>1. MonType'
    BY <1>45 DEF MonitorCheck, MonitorStep,
       MonType, MonPcs
  <2>2. MainType' /\ ServerType' /\ ChanType' /\ ProcType' /\ ReadType' /\ QueueType' /\ FlagType'
    BY <1>45 DEF MonitorCheck, MonitorStep,
       MainType, ServerType, ChanType, ProcType, ReadType, QueueType, FlagType
  <2>3. StartedGen' /\ KnownSender'
    BY <1>45 DEF MonitorCheck, MonitorStep, StartedGen, KnownSender
  <2> QED
    BY <2>1, <2>2, <2>3
<1>46. ASSUME NEW g \in Gens, MonitorKill(g) PROVE TypeInv'
  <2>1. MainType' /\ ProcType' /\ MonType'
    BY <1>46 DEF MonitorKill, Kill, MonitorStep,
       MainType, ProcType, MonType, MainPcs, MonPcs
  <2>2. ServerType' /\ ChanType' /\ ReadType' /\ QueueType' /\ FlagType'
    BY <1>46 DEF MonitorKill, Kill, MonitorStep,
       ServerType, ChanType, ReadType, QueueType, FlagType
  <2>3. StartedGen' /\ KnownSender'
    BY <1>46 DEF MonitorKill, Kill, MonitorStep, StartedGen, KnownSender
  <2> QED
    BY <2>1, <2>2, <2>3
<1>47. ASSUME NEW g \in Gens, MonitorJoin(g) PROVE TypeInv'
  <2>1. MonType'
    BY <1>47 DEF MonitorJoin, MonitorStep,
       MonType, MonPcs
  <2>2. MainType' /\ ServerType' /\ ChanType' /\ ProcType' /\ ReadType' /\ QueueType' /\ FlagType'
    BY <1>47 DEF MonitorJoin, MonitorStep,
       MainType, ServerType, ChanType, ProcType, ReadType, QueueType, FlagType
  <2>3. StartedGen' /\ KnownSender'
    BY <1>47 DEF MonitorJoin, MonitorStep, StartedGen, KnownSender
  <2> QED
    BY <2>1, <2>2, <2>3
<1>48. ASSUME NEW g \in Gens, BackendNotify(g) PROVE TypeInv'
  <2>1. PICK from \in {<<g, "main">>, <<g, "helper">>}, lines \in Payloads :
          notifyQ' = Append(notifyQ, [from |-> from, lines |-> lines])
    BY <1>48 DEF BackendNotify
  <2>2. from \in Pids /\ lines \in Seq(Lines)
    BY <2>1
  <2>3. [from |-> from, lines |-> lines] \in Datagrams
    BY <2>2 DEF Datagrams
  <2>4. notifyQ' \in Seq(Datagrams)
    BY <2>1, <2>3, QueueFacts DEF ReadType
  <2>5. ReadType' /\ KnownSender'
    BY <1>48, <2>4 DEF BackendNotify, ReadType, KnownSender
  <2>6. MainType' /\ ServerType' /\ ChanType' /\ ProcType' /\ MonType'
    BY <1>48 DEF BackendNotify, MainType, ServerType, ChanType, ProcType,
       MonType
  <2>7. QueueType' /\ FlagType' /\ StartedGen'
    BY <1>48 DEF BackendNotify, QueueType, FlagType, StartedGen
  <2> QED
    BY <2>5, <2>6, <2>7
<1>49. ASSUME NEW g \in Gens, BackendFork(g) PROVE TypeInv'
  <2>1. ProcType'
    BY <1>49 DEF BackendFork,
       ProcType
  <2>2. MainType' /\ ServerType' /\ ChanType' /\ MonType' /\ ReadType' /\ QueueType' /\ FlagType'
    BY <1>49 DEF BackendFork,
       MainType, ServerType, ChanType, MonType, ReadType, QueueType, FlagType
  <2>3. StartedGen' /\ KnownSender'
    BY <1>49 DEF BackendFork, StartedGen, KnownSender
  <2> QED
    BY <2>1, <2>2, <2>3
<1>50. ASSUME NEW g \in Gens, BackendExit(g) PROVE TypeInv'
  <2>1. ProcType'
    BY <1>50 DEF BackendExit,
       ProcType
  <2>2. MainType' /\ ServerType' /\ ChanType' /\ MonType' /\ ReadType' /\ QueueType' /\ FlagType'
    BY <1>50 DEF BackendExit,
       MainType, ServerType, ChanType, MonType, ReadType, QueueType, FlagType
  <2>3. StartedGen' /\ KnownSender'
    BY <1>50 DEF BackendExit, StartedGen, KnownSender
  <2> QED
    BY <2>1, <2>2, <2>3
<1>51. ASSUME NEW g \in Gens, HelperExit(g) PROVE TypeInv'
  <2>1. ProcType'
    BY <1>51 DEF HelperExit,
       ProcType
  <2>2. MainType' /\ ServerType' /\ ChanType' /\ MonType' /\ ReadType' /\ QueueType' /\ FlagType'
    BY <1>51 DEF HelperExit,
       MainType, ServerType, ChanType, MonType, ReadType, QueueType, FlagType
  <2>3. StartedGen' /\ KnownSender'
    BY <1>51 DEF HelperExit, StartedGen, KnownSender
  <2> QED
    BY <2>1, <2>2, <2>3
<1>52. ASSUME NEW g \in Gens, BackendAccept(g) PROVE TypeInv'
  <2>1. FlagType'
    BY <1>52 DEF BackendAccept, FlagType
  <2>2. MainType' /\ ServerType' /\ ChanType' /\ ProcType' /\ MonType' /\ ReadType' /\ QueueType'
    BY <1>52 DEF BackendAccept,
       MainType, ServerType, ChanType, ProcType, MonType, ReadType, QueueType
  <2>3. StartedGen' /\ KnownSender'
    BY <1>52 DEF BackendAccept, StartedGen, KnownSender, MainType, ServerType,
       ReadType, Datagrams
  <2> QED
    BY <2>1, <2>2, <2>3
<1>53. CASE UNCHANGED vars
  BY <1>53 DEF vars, MainType, ServerType, ChanType, ProcType, MonType,
     ReadType, QueueType, FlagType, StartedGen, KnownSender
<1>54. CASE Terminated
  BY <1>54, <1>53 DEF Terminated
<1> QED
  BY <1>1, <1>2, <1>3, <1>4, <1>5, <1>6, <1>7, <1>8, <1>9, <1>10, <1>11, <1>12,
     <1>13, <1>14, <1>15, <1>16, <1>17, <1>18, <1>19, <1>20, <1>21, <1>22,
     <1>23, <1>24, <1>25, <1>26, <1>27, <1>28, <1>29, <1>30, <1>31, <1>32,
     <1>33, <1>34, <1>35, <1>36, <1>37, <1>38, <1>39, <1>40, <1>41, <1>42,
     <1>43, <1>44, <1>45, <1>46, <1>47, <1>48, <1>49, <1>50, <1>51, <1>52,
     <1>53, <1>54
  DEF Next, Main, MainStart, MainStop, Reader, Monitor, Backend

(* The type invariant of the daemon: every field, channel and thread keeps   *)
(* its type and the bounded channels (startReq, cmdExit) never exceed their  *)
(* capacity, whatever the interleaving.                                      *)
THEOREM TypeCorrect == Spec => []TypeOK
<1>1. TypeInv => TypeOK
  BY DEF TypeInv
<1> QED
  BY <1>1, TypeInit, TypeNext, PTL DEF Spec

-----------------------------------------------------------------------------
(* The backend the daemon tracks. *)

(* The tracked command is the newest generation, it alone is unreaped, and   *)
(* the channel of every reaped generation is closed.                         *)
Tracking ==
  /\ OneBackend
  /\ cmd # 0 => cmd = seq /\ cmdDone = seq /\ mainPID # NoPid
  /\ \A g \in Gens : g > seq => proc[g] = "unborn"
  /\ \A g \in Gens : proc[g] = "reaped" <=> doneClosed[g]
  /\ mpc = "exec" => cmd = 0 /\ proc[seq] = "unborn" /\ cmdDone = seq
  /\ mpc = "spawn" => proc[seq] # "unborn"

(* The states in which main holds a captured cmdDone of a live command.      *)
JoinPcs == {"stopPhase", "stopSignal", "stopWait", "stopCheck", "stopKill", "stopJoin",
            "abortCheck", "abortKill", "abortJoin"}

(* main stops or aborts the only command there is, and does not start        *)
(* another one before it returns.                                            *)
Joining ==
  /\ mpc \in JoinPcs => mDone \in Gens /\ cmd \in {0, mDone}
  /\ mpc = "exit" => cmd = 0

(* A monitor waits for its own backend, or for a later one once its own is   *)
(* reaped.                                                                   *)
Monitoring ==
  \A g \in Gens :
    /\ mon[g] # "none" => proc[g] # "unborn"
    /\ mon[g] = "mark" => readyClosed[g]
    /\ mon[g] \in {"check", "kill", "join"}
         => monDone[g] \in Gens /\ (monDone[g] = g \/ doneClosed[g])
    /\ mon[g] = "done" => readyClosed[g] \/ doneClosed[g]

BackendInv == Tracking /\ Joining /\ Monitoring

LEMMA BackendInit == Init => BackendInv
  BY GensFacts DEF Init, BackendInv, Tracking, Joining, JoinPcs, Monitoring,
     OneBackend

LEMMA BackendNext == TypeInv /\ BackendInv /\ [Next]_vars => BackendInv'
<1> SUFFICES ASSUME TypeInv, BackendInv, [Next]_vars PROVE BackendInv'
  OBVIOUS
<1> USE GensFacts, ConstantsAssumption
    DEF TypeInv, TypeOK, MainType, ServerType, ChanType, ProcType, MonType,
        BackendInv, OneBackend, JoinPcs,
        mainVars, srvVars, chanVars, procVars, monVars, readVars,
        dogVars, envVars, peerVars, inVars
<1>1. CASE Boot
  BY <1>1 DEF Boot, Tracking, Joining, Monitoring
<1>2. CASE StartChildBegin
  <2>1. Tracking'
    BY <1>2 DEF StartChildBegin, Tracking
  <2>2. Joining'
    BY <1>2 DEF StartChildBegin, Tracking, Joining
  <2>3. Monitoring'
    BY <1>2 DEF StartChildBegin, Tracking, Monitoring
  <2> QED
    BY <2>1, <2>2, <2>3
<1>3. CASE StartChildExec
  <2>1. Tracking'
    BY <1>3 DEF StartChildExec, Tracking, StartedGen, NoPid
  <2>2. Joining'
    BY <1>3 DEF StartChildExec, Tracking, Joining, StartedGen, NoPid
  <2>3. Monitoring'
    BY <1>3 DEF StartChildExec, Tracking, Monitoring, StartedGen, NoPid
  <2> QED
    BY <2>1, <2>2, <2>3
<1>4. CASE StartChildFail
  BY <1>4 DEF StartChildFail, ResetForIdle, Tracking, Joining, Monitoring
<1>5. CASE StartChildSpawn
  <2>1. Tracking'
    BY <1>5 DEF StartChildSpawn, MarkChildReady, Tracking, StartedGen, NoPid
  <2>2. Joining'
    BY <1>5 DEF StartChildSpawn, MarkChildReady, Tracking, Joining, StartedGen,
       NoPid
  <2>3. Monitoring'
    BY <1>5 DEF StartChildSpawn, MarkChildReady, Tracking, Monitoring,
       StartedGen, NoPid
  <2> QED
    BY <2>1, <2>2, <2>3
<1>6. CASE WaitUntilReady
  BY <1>6 DEF WaitUntilReady, Tracking, Joining, Monitoring
<1>7. CASE WaitForReadyOk
  BY <1>7 DEF WaitForReadyOk, Goto, Tracking, Joining, Monitoring
<1>8. CASE WaitForReadyFail
  BY <1>8 DEF WaitForReadyFail, Goto, Tracking, Joining, Monitoring
<1>9. CASE WaitMark
  <2>1. Tracking'
    BY <1>9 DEF WaitMark, MarkChildReady, Tracking
  <2>2. Joining'
    BY <1>9 DEF WaitMark, MarkChildReady, Tracking, Joining
  <2>3. Monitoring'
    BY <1>9 DEF WaitMark, MarkChildReady, Tracking, Monitoring
  <2> QED
    BY <2>1, <2>2, <2>3
<1>10. CASE EmitReady
  BY <1>10 DEF EmitReady, Tracking, Joining, Monitoring
<1>11. CASE HandleStartReq
  BY <1>11 DEF HandleStartReq, Tracking, Joining, Monitoring
<1>12. CASE HandleChildExit
  BY <1>12 DEF HandleChildExit, Tracking, Joining, Monitoring
<1>13. CASE HandleWatchdogTimeout
  BY <1>13 DEF HandleWatchdogTimeout, Tracking, Joining, Monitoring
<1>14. CASE StopChildBegin
  <2>1. Tracking'
    BY <1>14 DEF StopChildBegin, Tracking
  <2>2. Joining'
    BY <1>14 DEF StopChildBegin, Tracking, Joining
  <2>3. Monitoring'
    BY <1>14 DEF StopChildBegin, Tracking, Monitoring
  <2> QED
    BY <2>1, <2>2, <2>3
<1>15. CASE StopChildPhase
  BY <1>15 DEF StopChildPhase, Tracking, Joining, Monitoring
<1>16. CASE StopChildSignal
  BY <1>16 DEF StopChildSignal, Goto, Tracking, Joining, Monitoring
<1>17. CASE StopChildExited
  <2>1. Tracking'
    BY <1>17 DEF StopChildExited, Goto, Tracking
  <2>2. Joining'
    BY <1>17 DEF StopChildExited, Goto, Tracking, Joining
  <2>3. Monitoring'
    BY <1>17 DEF StopChildExited, Goto, Tracking, Monitoring
  <2> QED
    BY <2>1, <2>2, <2>3
<1>18. CASE StopChildTimeout
  BY <1>18 DEF StopChildTimeout, Goto, Tracking, Joining, Monitoring
<1>19. CASE StopChildCheck
  BY <1>19 DEF StopChildCheck, Goto, Tracking, Joining, Monitoring
<1>20. CASE StopChildKill
  <2>1. Tracking'
    BY <1>20 DEF StopChildKill, Kill, Tracking
  <2>2. Joining'
    BY <1>20 DEF StopChildKill, Kill, Tracking, Joining
  <2>3. Monitoring'
    BY <1>20 DEF StopChildKill, Kill, Tracking, Monitoring
  <2> QED
    BY <2>1, <2>2, <2>3
<1>21. CASE AbortBegin
  <2>1. Tracking'
    BY <1>21 DEF AbortBegin, Tracking
  <2>2. Joining'
    BY <1>21 DEF AbortBegin, Tracking, Joining
  <2>3. Monitoring'
    BY <1>21 DEF AbortBegin, Tracking, Monitoring
  <2> QED
    BY <2>1, <2>2, <2>3
<1>22. CASE AbortCheck
  BY <1>22 DEF AbortCheck, Goto, Tracking, Joining, Monitoring
<1>23. CASE AbortKill
  <2>1. Tracking'
    BY <1>23 DEF AbortKill, Kill, Tracking
  <2>2. Joining'
    BY <1>23 DEF AbortKill, Kill, Tracking, Joining
  <2>3. Monitoring'
    BY <1>23 DEF AbortKill, Kill, Tracking, Monitoring
  <2> QED
    BY <2>1, <2>2, <2>3
<1>24. CASE AbortJoin
  BY <1>24 DEF AbortJoin, Goto, Tracking, Joining, Monitoring
<1>25. CASE ReadNotify
  BY <1>25 DEF ReadNotify, Tracking, Joining, Monitoring
<1>26. CASE NotifyReady
  BY <1>26 DEF NotifyReady, NextLine, Tracking, Joining, Monitoring
<1>27. CASE NotifyMark
  <2>1. Tracking'
    BY <1>27 DEF NotifyMark, MarkChildReady, Tracking
  <2>2. Joining'
    BY <1>27 DEF NotifyMark, MarkChildReady, Tracking, Joining
  <2>3. Monitoring'
    BY <1>27 DEF NotifyMark, MarkChildReady, Tracking, Monitoring
  <2> QED
    BY <2>1, <2>2, <2>3
<1>28. CASE NotifyPhase
  BY <1>28 DEF NotifyPhase, NextLine, Tracking, Joining, Monitoring
<1>29. CASE NotifyWatchdog
  BY <1>29 DEF NotifyWatchdog, NextLine, Tracking, Joining, Monitoring
<1>30. CASE NotifyMainPID
  BY <1>30 DEF NotifyMainPID, NextLine, Tracking, Joining, Monitoring
<1>31. CASE SetMainPID
  <2>1. Tracking'
    BY <1>31 DEF SetMainPID, Tracking, KnownSender, NoPid, ReadType
  <2>2. Joining'
    BY <1>31 DEF SetMainPID, Tracking, Joining
  <2>3. Monitoring'
    BY <1>31 DEF SetMainPID, Tracking, Monitoring
  <2> QED
    BY <2>1, <2>2, <2>3
<1>32. CASE ReadDone
  BY <1>32 DEF ReadDone, Tracking, Joining, Monitoring
<1>33. CASE WatchdogSet
  BY <1>33 DEF WatchdogSet, Tracking, Joining, Monitoring
<1>34. CASE WatchdogFire
  BY <1>34 DEF WatchdogFire, Tracking, Joining, Monitoring
<1>35. CASE ActivationLoop
  BY <1>35 DEF ActivationLoop, Tracking, Joining, Monitoring
<1>36. CASE ControlActivation
  BY <1>36 DEF ControlActivation, Tracking, Joining, Monitoring
<1>37. CASE ClientConnect
  BY <1>37 DEF ClientConnect, Tracking, Joining, Monitoring
<1>38. CASE Sigterm
  BY <1>38 DEF Sigterm, Tracking, Joining, Monitoring
<1>39. ASSUME NEW g \in Gens, Reap(g) PROVE BackendInv'
  <2>1. Tracking'
    BY <1>39 DEF Reap, ResetForIdle, Tracking
  <2>2. Joining'
    BY <1>39 DEF Reap, ResetForIdle, Tracking, Joining
  <2>3. Monitoring'
    BY <1>39 DEF Reap, ResetForIdle, Tracking, Monitoring
  <2> QED
    BY <2>1, <2>2, <2>3
<1>40. ASSUME NEW g \in Gens, SendExit(g) PROVE BackendInv'
  BY <1>40 DEF SendExit, Tracking, Joining, Monitoring
<1>41. ASSUME NEW g \in Gens, MonitorReady(g) PROVE BackendInv'
  BY <1>41 DEF MonitorReady, MonitorStep, Tracking, Joining, Monitoring
<1>42. ASSUME NEW g \in Gens, MonitorMark(g) PROVE BackendInv'
  <2>1. Tracking'
    BY <1>42 DEF MonitorMark, MarkChildReady, MonitorStep, Tracking
  <2>2. Joining'
    BY <1>42 DEF MonitorMark, MarkChildReady, MonitorStep, Tracking, Joining
  <2>3. Monitoring'
    BY <1>42 DEF MonitorMark, MarkChildReady, MonitorStep, Tracking, Monitoring
  <2> QED
    BY <2>1, <2>2, <2>3
<1>43. ASSUME NEW g \in Gens, MonitorFail(g) PROVE BackendInv'
  BY <1>43 DEF MonitorFail, MonitorStep, Tracking, Joining, Monitoring
<1>44. ASSUME NEW g \in Gens, MonitorAbort(g) PROVE BackendInv'
  <2>1. Tracking'
    BY <1>44 DEF MonitorAbort, MonitorStep, Tracking
  <2>2. Joining'
    BY <1>44 DEF MonitorAbort, MonitorStep, Tracking, Joining
  <2>3. Monitoring'
    BY <1>44 DEF MonitorAbort, MonitorStep, Tracking, Monitoring
  <2> QED
    BY <2>1, <2>2, <2>3
<1>45. ASSUME NEW g \in Gens, MonitorCheck(g) PROVE BackendInv'
  <2>1. Tracking'
    BY <1>45 DEF MonitorCheck, MonitorStep, Tracking
  <2>2. Joining'
    BY <1>45 DEF MonitorCheck, MonitorStep, Tracking, Joining
  <2>3. Monitoring'
    BY <1>45 DEF MonitorCheck, MonitorStep, Tracking, Monitoring
  <2> QED
    BY <2>1, <2>2, <2>3
<1>46. ASSUME NEW g \in Gens, MonitorKill(g) PROVE BackendInv'
  <2>1. Tracking'
    BY <1>46 DEF MonitorKill, Kill, MonitorStep, Tracking
  <2>2. Joining'
    BY <1>46 DEF MonitorKill, Kill, MonitorStep, Tracking, Joining
  <2>3. Monitoring'
    BY <1>46 DEF MonitorKill, Kill, MonitorStep, Tracking, Monitoring
  <2> QED
    BY <2>1, <2>2, <2>3
<1>47. ASSUME NEW g \in Gens, MonitorJoin(g) PROVE BackendInv'
  <2>1. Tracking'
    BY <1>47 DEF MonitorJoin, MonitorStep, Tracking
  <2>2. Joining'
    BY <1>47 DEF MonitorJoin, MonitorStep, Tracking, Joining
  <2>3. Monitoring'
    BY <1>47 DEF MonitorJoin, MonitorStep, Tracking, Monitoring
  <2> QED
    BY <2>1, <2>2, <2>3
<1>48. ASSUME NEW g \in Gens, BackendNotify(g) PROVE BackendInv'
  BY <1>48 DEF BackendNotify, Tracking, Joining, Monitoring
<1>49. ASSUME NEW g \in Gens, BackendFork(g) PROVE BackendInv'
  BY <1>49 DEF BackendFork, Tracking, Joining, Monitoring
<1>50. ASSUME NEW g \in Gens, BackendExit(g) PROVE BackendInv'
  <2>1. Tracking'
    BY <1>50 DEF BackendExit, Tracking
  <2>2. Joining'
    BY <1>50 DEF BackendExit, Tracking, Joining
  <2>3. Monitoring'
    BY <1>50 DEF BackendExit, Tracking, Monitoring
  <2> QED
    BY <2>1, <2>2, <2>3
<1>51. ASSUME NEW g \in Gens, HelperExit(g) PROVE BackendInv'
  BY <1>51 DEF HelperExit, Tracking, Joining, Monitoring
<1>52. ASSUME NEW g \in Gens, BackendAccept(g) PROVE BackendInv'
  BY <1>52 DEF BackendAccept, Tracking, Joining, Monitoring
<1>53. CASE UNCHANGED vars
  BY <1>53 DEF vars, Tracking, Joining, Monitoring
<1>54. CASE Terminated
  BY <1>54, <1>53 DEF Terminated
<1> QED
  BY <1>1, <1>2, <1>3, <1>4, <1>5, <1>6, <1>7, <1>8, <1>9, <1>10, <1>11, <1>12,
     <1>13, <1>14, <1>15, <1>16, <1>17, <1>18, <1>19, <1>20, <1>21, <1>22,
     <1>23, <1>24, <1>25, <1>26, <1>27, <1>28, <1>29, <1>30, <1>31, <1>32,
     <1>33, <1>34, <1>35, <1>36, <1>37, <1>38, <1>39, <1>40, <1>41, <1>42,
     <1>43, <1>44, <1>45, <1>46, <1>47, <1>48, <1>49, <1>50, <1>51, <1>52,
     <1>53, <1>54
  DEF Next, Main, MainStart, MainStop, Reader, Monitor, Backend

(* At most one backend command is unreaped, and it is the tracked one, for   *)
(* any number of generations, datagrams and queue sizes.                     *)
THEOREM OneBackendCorrect == Spec => []OneBackend
<1>1. BackendInv => OneBackend
  BY DEF BackendInv, Tracking
<1> QED
  BY <1>1, TypeInit, TypeNext, BackendInit, BackendNext, PTL DEF Spec

(* main returns from the select loop only when no backend command is left.   *)
THEOREM CleanExitCorrect == Spec => []CleanExitReaps
<1>1. TypeInv /\ BackendInv => CleanExitReaps
  BY GensFacts DEF BackendInv, Tracking, Joining, OneBackend, CleanExitReaps,
     TypeInv, TypeOK, ProcType
<1> QED
  BY <1>1, TypeInit, TypeNext, BackendInit, BackendNext, PTL DEF Spec

(* The cmdDone channel of every reaped backend is closed, and whoever waits  *)
(* on a captured cmdDone captured a real one.                                *)
THEOREM WaitersCorrect == Spec => []WaitersReleased
<1>1. BackendInv => WaitersReleased
  BY GensFacts DEF BackendInv, Tracking, Joining, JoinPcs, Monitoring,
     WaitersReleased
<1> QED
  BY <1>1, TypeInit, TypeNext, BackendInit, BackendNext, PTL DEF Spec

(* A startup monitor ends only when its own backend is ready or gone.        *)
THEOREM MonitorCorrect == Spec => []MonitorSettles
<1>1. BackendInv => MonitorSettles
  BY DEF BackendInv, Monitoring, MonitorSettles
<1> QED
  BY <1>1, TypeInit, TypeNext, BackendInit, BackendNext, PTL DEF Spec

-----------------------------------------------------------------------------
(* The readiness message of an eager service. *)

(* An eager daemon starts one backend and waits for it: no start request is  *)
(* ever queued, and main is past waitUntilReady only once READY=1 arrived or *)
(* the backend was reaped.                                                   *)
EagerInv ==
  /\ childReady = cmdDone /\ cmdDone \in {0, seq}
  /\ StartNow =>
       /\ startReq = 0
       /\ mpc \in {"boot", "start"} => seq = 0
       /\ ~Ended /\ mpc \notin {"boot", "start"} => seq = 1
       /\ mpc = "ready" => proc[1] # "unborn"
       /\ mpc \in {"wait", "mark"} => mReady = 1
       /\ Notify /\ mpc = "mark" => readyClosed[1]
       /\ Notify /\ mpc = "emit" => readyClosed[1] \/ doneClosed[1]
  /\ ~StartNow =>
       /\ mpc \notin {"ready", "wait", "mark"}
       /\ mpc \in {"boot", "emit"} => seq = 0

LEMMA EagerInit == Init => EagerInv
  BY GensFacts DEF Init, EagerInv, Ended

LEMMA EagerNext == TypeInv /\ BackendInv /\ EagerInv /\ [Next]_vars => EagerInv'
<1> SUFFICES ASSUME TypeInv, BackendInv, EagerInv, [Next]_vars PROVE EagerInv'
  OBVIOUS
<1>0. 1 \in Gens
  BY ConstantsAssumption DEF Gens
<1> USE <1>0, GensFacts
    DEF TypeInv, TypeOK, MainType, ServerType, ChanType, ProcType, EagerInv,
        Ended, mainVars, srvVars, chanVars, procVars,
        monVars, readVars, dogVars, envVars, peerVars, inVars
<1>1. CASE Boot
  BY <1>1 DEF Boot
<1>2. CASE StartChildBegin
  BY <1>2 DEF StartChildBegin
<1>3. CASE StartChildExec
  BY <1>3 DEF StartChildExec
<1>4. CASE StartChildFail
  BY <1>4 DEF StartChildFail, ResetForIdle
<1>5. CASE StartChildSpawn
  BY <1>5 DEF StartChildSpawn, MarkChildReady, BackendInv, Tracking
<1>6. CASE WaitUntilReady
  BY <1>6 DEF WaitUntilReady, BackendInv, Tracking, OneBackend
<1>7. CASE WaitForReadyOk
  BY <1>7 DEF WaitForReadyOk, Goto
<1>8. CASE WaitForReadyFail
  BY <1>8 DEF WaitForReadyFail, Goto
<1>9. CASE WaitMark
  BY <1>9 DEF WaitMark, MarkChildReady
<1>10. CASE EmitReady
  BY <1>10 DEF EmitReady
<1>11. CASE HandleStartReq
  BY <1>11 DEF HandleStartReq, QueueType
<1>12. CASE HandleChildExit
  BY <1>12 DEF HandleChildExit
<1>13. CASE HandleWatchdogTimeout
  BY <1>13 DEF HandleWatchdogTimeout
<1>14. CASE StopChildBegin
  BY <1>14 DEF StopChildBegin
<1>15. CASE StopChildPhase
  BY <1>15 DEF StopChildPhase
<1>16. CASE StopChildSignal
  BY <1>16 DEF StopChildSignal, Goto
<1>17. CASE StopChildExited
  BY <1>17 DEF StopChildExited, Goto
<1>18. CASE StopChildTimeout
  BY <1>18 DEF StopChildTimeout, Goto
<1>19. CASE StopChildCheck
  BY <1>19 DEF StopChildCheck, Goto
<1>20. CASE StopChildKill
  BY <1>20 DEF StopChildKill, Kill
<1>21. CASE AbortBegin
  BY <1>21 DEF AbortBegin
<1>22. CASE AbortCheck
  BY <1>22 DEF AbortCheck, Goto
<1>23. CASE AbortKill
  BY <1>23 DEF AbortKill, Kill
<1>24. CASE AbortJoin
  BY <1>24 DEF AbortJoin, Goto
<1>25. CASE ReadNotify
  BY <1>25 DEF ReadNotify
<1>26. CASE NotifyReady
  BY <1>26 DEF NotifyReady, NextLine
<1>27. CASE NotifyMark
  BY <1>27 DEF NotifyMark, MarkChildReady
<1>28. CASE NotifyPhase
  BY <1>28 DEF NotifyPhase, NextLine
<1>29. CASE NotifyWatchdog
  BY <1>29 DEF NotifyWatchdog, NextLine
<1>30. CASE NotifyMainPID
  BY <1>30 DEF NotifyMainPID, NextLine
<1>31. CASE SetMainPID
  BY <1>31 DEF SetMainPID
<1>32. CASE ReadDone
  BY <1>32 DEF ReadDone
<1>33. CASE WatchdogSet
  BY <1>33 DEF WatchdogSet
<1>34. CASE WatchdogFire
  BY <1>34 DEF WatchdogFire
<1>35. CASE ActivationLoop
  BY <1>35 DEF ActivationLoop
<1>36. CASE ControlActivation
  BY <1>36 DEF ControlActivation
<1>37. CASE ClientConnect
  BY <1>37 DEF ClientConnect
<1>38. CASE Sigterm
  BY <1>38 DEF Sigterm
<1>39. ASSUME NEW g \in Gens, Reap(g) PROVE EagerInv'
  BY <1>39 DEF Reap, ResetForIdle
<1>40. ASSUME NEW g \in Gens, SendExit(g) PROVE EagerInv'
  BY <1>40 DEF SendExit
<1>41. ASSUME NEW g \in Gens, MonitorReady(g) PROVE EagerInv'
  BY <1>41 DEF MonitorReady, MonitorStep
<1>42. ASSUME NEW g \in Gens, MonitorMark(g) PROVE EagerInv'
  BY <1>42 DEF MonitorMark, MarkChildReady, MonitorStep
<1>43. ASSUME NEW g \in Gens, MonitorFail(g) PROVE EagerInv'
  BY <1>43 DEF MonitorFail, MonitorStep
<1>44. ASSUME NEW g \in Gens, MonitorAbort(g) PROVE EagerInv'
  BY <1>44 DEF MonitorAbort, MonitorStep
<1>45. ASSUME NEW g \in Gens, MonitorCheck(g) PROVE EagerInv'
  BY <1>45 DEF MonitorCheck, MonitorStep
<1>46. ASSUME NEW g \in Gens, MonitorKill(g) PROVE EagerInv'
  BY <1>46 DEF MonitorKill, Kill, MonitorStep
<1>47. ASSUME NEW g \in Gens, MonitorJoin(g) PROVE EagerInv'
  BY <1>47 DEF MonitorJoin, MonitorStep
<1>48. ASSUME NEW g \in Gens, BackendNotify(g) PROVE EagerInv'
  BY <1>48 DEF BackendNotify
<1>49. ASSUME NEW g \in Gens, BackendFork(g) PROVE EagerInv'
  BY <1>49 DEF BackendFork
<1>50. ASSUME NEW g \in Gens, BackendExit(g) PROVE EagerInv'
  BY <1>50 DEF BackendExit
<1>51. ASSUME NEW g \in Gens, HelperExit(g) PROVE EagerInv'
  BY <1>51 DEF HelperExit
<1>52. ASSUME NEW g \in Gens, BackendAccept(g) PROVE EagerInv'
  BY <1>52 DEF BackendAccept
<1>53. CASE UNCHANGED vars
  BY <1>53 DEF vars
<1>54. CASE Terminated
  BY <1>54, <1>53 DEF Terminated
<1> QED
  BY <1>1, <1>2, <1>3, <1>4, <1>5, <1>6, <1>7, <1>8, <1>9, <1>10, <1>11, <1>12,
     <1>13, <1>14, <1>15, <1>16, <1>17, <1>18, <1>19, <1>20, <1>21, <1>22,
     <1>23, <1>24, <1>25, <1>26, <1>27, <1>28, <1>29, <1>30, <1>31, <1>32,
     <1>33, <1>34, <1>35, <1>36, <1>37, <1>38, <1>39, <1>40, <1>41, <1>42,
     <1>43, <1>44, <1>45, <1>46, <1>47, <1>48, <1>49, <1>50, <1>51, <1>52,
     <1>53, <1>54
  DEF Next, Main, MainStart, MainStop, Reader, Monitor, Backend

\* The readiness message is written by EmitReady alone.
LEMMA EmitsReady == [Next]_vars => EmitReady \/ UNCHANGED emitted
<1> SUFFICES ASSUME [Next]_vars PROVE EmitReady \/ UNCHANGED emitted
  OBVIOUS
<1>1. CASE MainStart
  BY <1>1 DEF
    MainStart, Boot, StartChildBegin, StartChildExec, StartChildFail,
    StartChildSpawn, WaitUntilReady, WaitForReadyOk, WaitForReadyFail, WaitMark,
    Goto
<1>2. CASE MainStop
  BY <1>2 DEF
    MainStop, StopChildBegin, StopChildPhase, StopChildSignal, StopChildExited,
    StopChildTimeout, StopChildCheck, StopChildKill, AbortBegin, AbortCheck,
    AbortKill, AbortJoin, Goto, Kill
<1>3. CASE HandleStartReq \/ HandleChildExit \/ HandleWatchdogTimeout
  BY <1>3 DEF HandleStartReq, HandleChildExit, HandleWatchdogTimeout
<1>4. CASE Reader
  BY <1>4 DEF
    Reader, ReadNotify, NotifyReady, NotifyMark, NotifyPhase, NotifyWatchdog,
    NotifyMainPID, SetMainPID, ReadDone, NextLine, mainVars
<1>5. ASSUME NEW g \in Gens, Monitor(g) PROVE UNCHANGED emitted
  BY <1>5 DEF
    Monitor, MonitorReady, MonitorMark, MonitorFail, MonitorAbort, MonitorCheck,
    MonitorKill, MonitorJoin, MonitorStep, mainVars
<1>6. ASSUME NEW g \in Gens, Reap(g) \/ SendExit(g) \/ Backend(g) PROVE UNCHANGED emitted
  BY <1>6 DEF
    Reap, SendExit, Backend, BackendNotify, BackendFork, BackendExit, HelperExit,
    BackendAccept, mainVars
<1>7. CASE WatchdogSet \/ WatchdogFire \/ ActivationLoop \/ ControlActivation
           \/ ClientConnect \/ Sigterm \/ Terminated \/ UNCHANGED vars
  BY <1>7 DEF
    WatchdogSet, WatchdogFire, ActivationLoop, ControlActivation, ClientConnect,
    Sigterm, Terminated, mainVars, vars
<1> QED
  BY <1>1, <1>2, <1>3, <1>4, <1>5, <1>6, <1>7 DEF Next, Main

(* A notify service writes its readiness message only when each backend it   *)
(* has started has sent READY=1 or was reaped (waitUntilReady, emitReady).   *)
THEOREM EmittedCorrect == Spec => EmittedAfterReadyOrExit
<1>1. TypeInv /\ EagerInv /\ [Next]_vars => [EmitStep]_vars
  <2> SUFFICES ASSUME TypeInv, EagerInv, [Next]_vars, emitted' # emitted, Notify,
                      NEW g \in 1 .. seq
               PROVE  readyClosed[g] \/ doneClosed[g]
    BY DEF EmitStep
  <2>1. EmitReady
    BY EmitsReady
  <2>2. mpc = "emit" /\ ~Ended
    BY <2>1 DEF EmitReady, Ended
  <2>3. StartNow /\ seq = 1
    BY <2>2 DEF EagerInv
  <2> QED
    BY <2>2, <2>3 DEF EagerInv
<1> QED
  BY <1>1, TypeInit, TypeNext, BackendInit, BackendNext, EagerInit, EagerNext,
     PTL DEF Spec, EmittedAfterReadyOrExit
=============================================================================
