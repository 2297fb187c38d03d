-------------------------- MODULE DaemonProcess_proofs --------------------------
(***************************************************************************)
(* Theorems about DaemonProcess, for any set of commands and any number of *)
(* signals and killed processes.                                           *)
(***************************************************************************)
EXTENDS DaemonProcessProperties, TLAPS

(* Processes are numbers, and Nobody is none of them.                      *)
LEMMA ProcessFacts ==
  /\ MaxCrashes \in Nat
  /\ Commands \subseteq Processes /\ 0 \in Processes /\ 0 \notin Commands
  /\ Nobody \notin Processes
<1>1. Commands \subseteq Nat /\ 0 \notin Commands
  BY CommandsAssumption
<1>2. Processes \subseteq Nat
  BY <1>1 DEF Processes
<1> QED BY <1>1, <1>2, CommandsAssumption DEF Processes

(* A process that answers is the one requests reach, and no other.         *)
LEMMA AnswererFacts ==
  ASSUME TypeOK, SocketInv
  PROVE  /\ Answerer # Nobody => Answerer \in Processes /\ pc[Answerer] \in Answering
         /\ \A d \in Processes: pc[d] \in Answering => Answerer = d
BY ProcessFacts DEF TypeOK, SocketInv, Answerer

(* Every step keeps the types.                                             *)
LEMMA TypedStep ==
  ASSUME TypeOK, [Next]_vars
  PROVE  TypeOK'
<1> USE ProcessFacts DEF machine, commands, TypeOK, Locations, CliLocations, Answerer
<1>1. CASE StartByHand
  BY <1>1 DEF StartByHand, Move
<1>2. ASSUME NEW d \in Processes, Bind(d) PROVE TypeOK'
  <2>1. CASE port = Nobody
    BY <1>2, <2>1 DEF Bind, Move, Heard
  <2>2. CASE port # Nobody
    BY <1>2, <2>2 DEF Bind, Move, Heard
  <2> QED BY <2>1, <2>2
<1>3. ASSUME NEW d \in Processes, Inspect(d) PROVE TypeOK'
  BY <1>3 DEF Inspect, Move
<1>4. ASSUME NEW d \in Processes, Probe(d) PROVE TypeOK'
  BY <1>4 DEF Probe, Move
<1>5. ASSUME NEW d \in Processes, Unlink(d) PROVE TypeOK'
  BY <1>5 DEF Unlink, Move
<1>6. ASSUME NEW d \in Processes, Listen(d) PROVE TypeOK'
  <2>1. CASE socket = Nobody
    BY <1>6, <2>1 DEF Listen, Move
  <2>2. CASE socket # Nobody
    BY <1>6, <2>2 DEF Listen, Move
  <2> QED BY <2>1, <2>2
<1>7. ASSUME NEW d \in Processes, Abort(d) PROVE TypeOK'
  BY <1>7 DEF Abort, Move, Heard
<1>8. ASSUME NEW d \in Processes, Initialized(d) PROVE TypeOK'
  BY <1>8 DEF Initialized, Move, Heard
<1>9. ASSUME NEW d \in Processes, InitializeFails(d) PROVE TypeOK'
  BY <1>9 DEF InitializeFails, Move, Heard
<1>10. ASSUME NEW d \in Processes, Turn(d) PROVE TypeOK'
  BY <1>10 DEF Turn
<1>11. ASSUME NEW d \in Processes, Signal(d) PROVE TypeOK'
  BY <1>11 DEF Signal
<1>12. ASSUME NEW d \in Processes, Signalled(d) PROVE TypeOK'
  BY <1>12 DEF Signalled, Move
<1>13. ASSUME NEW d \in Processes, Drain(d) PROVE TypeOK'
  BY <1>13 DEF Drain, Move
<1>14. ASSUME NEW d \in Processes, Release(d) PROVE TypeOK'
  BY <1>14 DEF Release, Move
<1>15. ASSUME NEW d \in Processes, CloseControl(d) PROVE TypeOK'
  BY <1>15 DEF CloseControl, Move
<1>16. ASSUME NEW d \in Processes, Crash(d) PROVE TypeOK'
  BY <1>16 DEF Crash, Move, Heard
<1>17. ASSUME NEW c \in Commands, Invoke(c) PROVE TypeOK'
  BY <1>17 DEF Invoke, Goto
<1>18. ASSUME NEW c \in Commands, Ask(c) PROVE TypeOK'
  BY <1>18 DEF Ask, Goto, Found
<1>19. ASSUME NEW c \in Commands, Launch(c) PROVE TypeOK'
  BY <1>19 DEF Launch, Goto, Move
<1>20. ASSUME NEW c \in Commands, Wait(c) PROVE TypeOK'
  BY <1>20 DEF Wait, Goto, Found
<1>21. ASSUME NEW c \in Commands, GiveUp(c) PROVE TypeOK'
  BY <1>21 DEF GiveUp, Goto
<1>22. ASSUME NEW c \in Commands, Connect(c) PROVE TypeOK'
  BY <1>22 DEF Connect, Goto
<1>23. ASSUME NEW c \in Commands, Send(c) PROVE TypeOK'
  BY <1>23 DEF Send, Goto
<1>24. ASSUME NEW c \in Commands, Mutate(c) PROVE TypeOK'
  BY <1>24 DEF Mutate, Goto
<1>25. ASSUME NEW c \in Commands, Served(c) PROVE TypeOK'
  BY <1>25 DEF Served, Goto
<1>26. ASSUME NEW c \in Commands, Find(c) PROVE TypeOK'
  BY <1>26 DEF Find, Goto, Found
<1>27. ASSUME NEW c \in Commands, StopAccepted(c) PROVE TypeOK'
  BY <1>27 DEF StopAccepted, Goto, Move
<1>28. ASSUME NEW c \in Commands, StopRefused(c) PROVE TypeOK'
  BY <1>28 DEF StopRefused, Goto
<1>29. ASSUME NEW c \in Commands, Poll(c) PROVE TypeOK'
  BY <1>29 DEF Poll, Goto
<1>30. CASE UNCHANGED vars
  BY <1>30 DEF vars
<1> QED
  BY <1>1, <1>2, <1>3, <1>4, <1>5, <1>6, <1>7, <1>8, <1>9, <1>10, <1>11, <1>12,
     <1>13, <1>14, <1>15, <1>16, <1>17, <1>18, <1>19, <1>20, <1>21, <1>22, <1>23, <1>24,
     <1>25, <1>26, <1>27, <1>28, <1>29, <1>30
  DEF Next, Starting, Stopping, Command

(* The port goes from one process to the next.                             *)
LEMMA PortStep ==
  ASSUME TypeOK, PortInv, CommandInv, [Next]_vars
  PROVE  PortInv'
<1> USE ProcessFacts DEF machine, commands, TypeOK, PortInv, Holding, CommandInv
<1>1. CASE StartByHand
  BY <1>1 DEF StartByHand, Move
<1>2. ASSUME NEW d \in Processes, Bind(d) PROVE PortInv'
  <2>1. CASE port = Nobody
    BY <1>2, <2>1 DEF Bind, Move, Heard
  <2>2. CASE port # Nobody
    BY <1>2, <2>2 DEF Bind, Move, Heard
  <2> QED BY <2>1, <2>2
<1>3. ASSUME NEW d \in Processes, Inspect(d) PROVE PortInv'
  BY <1>3 DEF Inspect, Move
<1>4. ASSUME NEW d \in Processes, Probe(d) PROVE PortInv'
  BY <1>4 DEF Probe, Move
<1>5. ASSUME NEW d \in Processes, Unlink(d) PROVE PortInv'
  BY <1>5 DEF Unlink, Move
<1>6. ASSUME NEW d \in Processes, Listen(d) PROVE PortInv'
  <2>1. CASE socket = Nobody
    BY <1>6, <2>1 DEF Listen, Move
  <2>2. CASE socket # Nobody
    BY <1>6, <2>2 DEF Listen, Move
  <2> QED BY <2>1, <2>2
<1>7. ASSUME NEW d \in Processes, Abort(d) PROVE PortInv'
  BY <1>7 DEF Abort, Move, Heard
<1>8. ASSUME NEW d \in Processes, Initialized(d) PROVE PortInv'
  BY <1>8 DEF Initialized, Move, Heard
<1>9. ASSUME NEW d \in Processes, InitializeFails(d) PROVE PortInv'
  BY <1>9 DEF InitializeFails, Move, Heard
<1>10. ASSUME NEW d \in Processes, Turn(d) PROVE PortInv'
  BY <1>10 DEF Turn
<1>11. ASSUME NEW d \in Processes, Signal(d) PROVE PortInv'
  BY <1>11 DEF Signal
<1>12. ASSUME NEW d \in Processes, Signalled(d) PROVE PortInv'
  BY <1>12 DEF Signalled, Move
<1>13. ASSUME NEW d \in Processes, Drain(d) PROVE PortInv'
  BY <1>13 DEF Drain, Move
<1>14. ASSUME NEW d \in Processes, Release(d) PROVE PortInv'
  BY <1>14 DEF Release, Move
<1>15. ASSUME NEW d \in Processes, CloseControl(d) PROVE PortInv'
  BY <1>15 DEF CloseControl, Move
<1>16. ASSUME NEW d \in Processes, Crash(d) PROVE PortInv'
  BY <1>16 DEF Crash, Move, Heard
<1>17. ASSUME NEW c \in Commands, Invoke(c) PROVE PortInv'
  BY <1>17 DEF Invoke, Goto
<1>18. ASSUME NEW c \in Commands, Ask(c) PROVE PortInv'
  BY <1>18 DEF Ask, Goto, Found
<1>19. ASSUME NEW c \in Commands, Launch(c) PROVE PortInv'
  BY <1>19 DEF Launch, Goto, Move
<1>20. ASSUME NEW c \in Commands, Wait(c) PROVE PortInv'
  BY <1>20 DEF Wait, Goto, Found
<1>21. ASSUME NEW c \in Commands, GiveUp(c) PROVE PortInv'
  BY <1>21 DEF GiveUp, Goto
<1>22. ASSUME NEW c \in Commands, Connect(c) PROVE PortInv'
  BY <1>22 DEF Connect, Goto
<1>23. ASSUME NEW c \in Commands, Send(c) PROVE PortInv'
  BY <1>23 DEF Send, Goto
<1>24. ASSUME NEW c \in Commands, Mutate(c) PROVE PortInv'
  BY <1>24 DEF Mutate, Goto
<1>25. ASSUME NEW c \in Commands, Served(c) PROVE PortInv'
  BY <1>25 DEF Served, Goto
<1>26. ASSUME NEW c \in Commands, Find(c) PROVE PortInv'
  BY <1>26 DEF Find, Goto, Found
<1>27. ASSUME NEW c \in Commands, StopAccepted(c) PROVE PortInv'
  BY <1>27 DEF StopAccepted, Goto, Move, MayStop
<1>28. ASSUME NEW c \in Commands, StopRefused(c) PROVE PortInv'
  BY <1>28 DEF StopRefused, Goto
<1>29. ASSUME NEW c \in Commands, Poll(c) PROVE PortInv'
  BY <1>29 DEF Poll, Goto
<1>30. CASE UNCHANGED vars
  BY <1>30 DEF vars
<1> QED
  BY <1>1, <1>2, <1>3, <1>4, <1>5, <1>6, <1>7, <1>8, <1>9, <1>10, <1>11, <1>12,
     <1>13, <1>14, <1>15, <1>16, <1>17, <1>18, <1>19, <1>20, <1>21, <1>22, <1>23, <1>24,
     <1>25, <1>26, <1>27, <1>28, <1>29, <1>30
  DEF Next, Starting, Stopping, Command

(* Only who has the port makes or removes a file, or who has just given it *)
(* back and still answers, which keeps the next one from getting so far.   *)
LEMMA SocketStep ==
  ASSUME TypeOK, PortInv, SocketInv, CommandInv, [Next]_vars
  PROVE  SocketInv'
<1> USE ProcessFacts DEF machine, commands, TypeOK, PortInv, Holding, SocketInv, Answering,
           Answerer, CommandInv
<1>1. CASE StartByHand
  BY <1>1 DEF StartByHand, Move
<1>2. ASSUME NEW d \in Processes, Bind(d) PROVE SocketInv'
  <2>1. CASE port = Nobody
    BY <1>2, <2>1 DEF Bind, Move, Heard
  <2>2. CASE port # Nobody
    BY <1>2, <2>2 DEF Bind, Move, Heard
  <2> QED BY <2>1, <2>2
<1>3. ASSUME NEW d \in Processes, Inspect(d) PROVE SocketInv'
  BY <1>3 DEF Inspect, Move
<1>4. ASSUME NEW d \in Processes, Probe(d) PROVE SocketInv'
  BY <1>4 DEF Probe, Move
<1>5. ASSUME NEW d \in Processes, Unlink(d) PROVE SocketInv'
  BY <1>5 DEF Unlink, Move
<1>6. ASSUME NEW d \in Processes, Listen(d) PROVE SocketInv'
  <2>1. CASE socket = Nobody
    BY <1>6, <2>1 DEF Listen, Move
  <2>2. CASE socket # Nobody
    BY <1>6, <2>2 DEF Listen, Move
  <2> QED BY <2>1, <2>2
<1>7. ASSUME NEW d \in Processes, Abort(d) PROVE SocketInv'
  BY <1>7 DEF Abort, Move, Heard
<1>8. ASSUME NEW d \in Processes, Initialized(d) PROVE SocketInv'
  BY <1>8 DEF Initialized, Move, Heard
<1>9. ASSUME NEW d \in Processes, InitializeFails(d) PROVE SocketInv'
  BY <1>9 DEF InitializeFails, Move, Heard
<1>10. ASSUME NEW d \in Processes, Turn(d) PROVE SocketInv'
  BY <1>10 DEF Turn
<1>11. ASSUME NEW d \in Processes, Signal(d) PROVE SocketInv'
  BY <1>11 DEF Signal
<1>12. ASSUME NEW d \in Processes, Signalled(d) PROVE SocketInv'
  BY <1>12 DEF Signalled, Move
<1>13. ASSUME NEW d \in Processes, Drain(d) PROVE SocketInv'
  BY <1>13 DEF Drain, Move
<1>14. ASSUME NEW d \in Processes, Release(d) PROVE SocketInv'
  BY <1>14 DEF Release, Move
<1>15. ASSUME NEW d \in Processes, CloseControl(d) PROVE SocketInv'
  BY <1>15 DEF CloseControl, Move
<1>16. ASSUME NEW d \in Processes, Crash(d) PROVE SocketInv'
  BY <1>16 DEF Crash, Move, Heard
<1>17. ASSUME NEW c \in Commands, Invoke(c) PROVE SocketInv'
  BY <1>17 DEF Invoke, Goto
<1>18. ASSUME NEW c \in Commands, Ask(c) PROVE SocketInv'
  BY <1>18 DEF Ask, Goto, Found
<1>19. ASSUME NEW c \in Commands, Launch(c) PROVE SocketInv'
  BY <1>19 DEF Launch, Goto, Move
<1>20. ASSUME NEW c \in Commands, Wait(c) PROVE SocketInv'
  BY <1>20 DEF Wait, Goto, Found
<1>21. ASSUME NEW c \in Commands, GiveUp(c) PROVE SocketInv'
  BY <1>21 DEF GiveUp, Goto
<1>22. ASSUME NEW c \in Commands, Connect(c) PROVE SocketInv'
  BY <1>22 DEF Connect, Goto
<1>23. ASSUME NEW c \in Commands, Send(c) PROVE SocketInv'
  BY <1>23 DEF Send, Goto
<1>24. ASSUME NEW c \in Commands, Mutate(c) PROVE SocketInv'
  BY <1>24 DEF Mutate, Goto
<1>25. ASSUME NEW c \in Commands, Served(c) PROVE SocketInv'
  BY <1>25 DEF Served, Goto
<1>26. ASSUME NEW c \in Commands, Find(c) PROVE SocketInv'
  BY <1>26 DEF Find, Goto, Found
<1>27. ASSUME NEW c \in Commands, StopAccepted(c) PROVE SocketInv'
  BY <1>27 DEF StopAccepted, Goto, Move
<1>28. ASSUME NEW c \in Commands, StopRefused(c) PROVE SocketInv'
  BY <1>28 DEF StopRefused, Goto
<1>29. ASSUME NEW c \in Commands, Poll(c) PROVE SocketInv'
  BY <1>29 DEF Poll, Goto
<1>30. CASE UNCHANGED vars
  BY <1>30 DEF vars
<1> QED
  BY <1>1, <1>2, <1>3, <1>4, <1>5, <1>6, <1>7, <1>8, <1>9, <1>10, <1>11, <1>12,
     <1>13, <1>14, <1>15, <1>16, <1>17, <1>18, <1>19, <1>20, <1>21, <1>22, <1>23, <1>24,
     <1>25, <1>26, <1>27, <1>28, <1>29, <1>30
  DEF Next, Starting, Stopping, Command

(* What a command knows of its daemon stays true while the daemon goes on. *)
LEMMA CommandStep ==
  ASSUME TypeOK, PortInv, SocketInv, CommandInv, [Next]_vars
  PROVE  CommandInv'
<1> USE ProcessFacts DEF machine, commands, TypeOK, PortInv, Holding, SocketInv, Answering,
           Answerer, CommandInv
<1>1. CASE StartByHand
  BY <1>1 DEF StartByHand, Move
<1>2. ASSUME NEW d \in Processes, Bind(d) PROVE CommandInv'
  <2>1. CASE port = Nobody
    BY <1>2, <2>1 DEF Bind, Move, Heard
  <2>2. CASE port # Nobody
    BY <1>2, <2>2 DEF Bind, Move, Heard
  <2> QED BY <2>1, <2>2
<1>3. ASSUME NEW d \in Processes, Inspect(d) PROVE CommandInv'
  BY <1>3 DEF Inspect, Move
<1>4. ASSUME NEW d \in Processes, Probe(d) PROVE CommandInv'
  BY <1>4 DEF Probe, Move
<1>5. ASSUME NEW d \in Processes, Unlink(d) PROVE CommandInv'
  BY <1>5 DEF Unlink, Move
<1>6. ASSUME NEW d \in Processes, Listen(d) PROVE CommandInv'
  <2>1. CASE socket = Nobody
    BY <1>6, <2>1 DEF Listen, Move
  <2>2. CASE socket # Nobody
    BY <1>6, <2>2 DEF Listen, Move
  <2> QED BY <2>1, <2>2
<1>7. ASSUME NEW d \in Processes, Abort(d) PROVE CommandInv'
  BY <1>7 DEF Abort, Move, Heard
<1>8. ASSUME NEW d \in Processes, Initialized(d) PROVE CommandInv'
  BY <1>8 DEF Initialized, Move, Heard
<1>9. ASSUME NEW d \in Processes, InitializeFails(d) PROVE CommandInv'
  BY <1>9 DEF InitializeFails, Move, Heard
<1>10. ASSUME NEW d \in Processes, Turn(d) PROVE CommandInv'
  BY <1>10 DEF Turn
<1>11. ASSUME NEW d \in Processes, Signal(d) PROVE CommandInv'
  BY <1>11 DEF Signal
<1>12. ASSUME NEW d \in Processes, Signalled(d) PROVE CommandInv'
  BY <1>12 DEF Signalled, Move
<1>13. ASSUME NEW d \in Processes, Drain(d) PROVE CommandInv'
  BY <1>13 DEF Drain, Move, Working
<1>14. ASSUME NEW d \in Processes, Release(d) PROVE CommandInv'
  BY <1>14 DEF Release, Move
<1>15. ASSUME NEW d \in Processes, CloseControl(d) PROVE CommandInv'
  BY <1>15 DEF CloseControl, Move
<1>16. ASSUME NEW d \in Processes, Crash(d) PROVE CommandInv'
  BY <1>16 DEF Crash, Move, Heard
<1>17. ASSUME NEW c \in Commands, Invoke(c) PROVE CommandInv'
  BY <1>17 DEF Invoke, Goto
<1>18. ASSUME NEW c \in Commands, Ask(c) PROVE CommandInv'
  BY <1>18 DEF Ask, Goto, Found, PhaseOf
<1>19. ASSUME NEW c \in Commands, Launch(c) PROVE CommandInv'
  BY <1>19 DEF Launch, Goto, Move
<1>20. ASSUME NEW c \in Commands, Wait(c) PROVE CommandInv'
  BY <1>20 DEF Wait, Goto, Found, PhaseOf
<1>21. ASSUME NEW c \in Commands, GiveUp(c) PROVE CommandInv'
  BY <1>21 DEF GiveUp, Goto
<1>22. ASSUME NEW c \in Commands, Connect(c) PROVE CommandInv'
  BY <1>22 DEF Connect, Goto
<1>23. ASSUME NEW c \in Commands, Send(c) PROVE CommandInv'
  BY <1>23 DEF Send, Goto
<1>24. ASSUME NEW c \in Commands, Mutate(c) PROVE CommandInv'
  BY <1>24 DEF Mutate, Goto
<1>25. ASSUME NEW c \in Commands, Served(c) PROVE CommandInv'
  BY <1>25 DEF Served, Goto
<1>26. ASSUME NEW c \in Commands, Find(c) PROVE CommandInv'
  BY <1>26 DEF Find, Goto, Found
<1>27. ASSUME NEW c \in Commands, StopAccepted(c) PROVE CommandInv'
  BY <1>27 DEF StopAccepted, Goto, Move
<1>28. ASSUME NEW c \in Commands, StopRefused(c) PROVE CommandInv'
  BY <1>28 DEF StopRefused, Goto
<1>29. ASSUME NEW c \in Commands, Poll(c) PROVE CommandInv'
  BY <1>29 DEF Poll, Goto
<1>30. CASE UNCHANGED vars
  BY <1>30 DEF vars
<1> QED
  BY <1>1, <1>2, <1>3, <1>4, <1>5, <1>6, <1>7, <1>8, <1>9, <1>10, <1>11, <1>12,
     <1>13, <1>14, <1>15, <1>16, <1>17, <1>18, <1>19, <1>20, <1>21, <1>22, <1>23, <1>24,
     <1>25, <1>26, <1>27, <1>28, <1>29, <1>30
  DEF Next, Starting, Stopping, Command

(* A daemon that was idle when it accepted its stop stays so: nothing      *)
(* begins in it any more.                                                  *)
LEMMA IdleStep ==
  ASSUME TypeOK, CommandInv, StopsIdle, [Next]_vars
  PROVE  StopsIdle'
<1> USE ProcessFacts DEF machine, commands, TypeOK, CommandInv, StopsIdle, Working
<1>1. CASE StartByHand
  BY <1>1 DEF StartByHand, Move
<1>2. ASSUME NEW d \in Processes, Bind(d) PROVE StopsIdle'
  <2>1. CASE port = Nobody
    BY <1>2, <2>1 DEF Bind, Move, Heard
  <2>2. CASE port # Nobody
    BY <1>2, <2>2 DEF Bind, Move, Heard
  <2> QED BY <2>1, <2>2
<1>3. ASSUME NEW d \in Processes, Inspect(d) PROVE StopsIdle'
  BY <1>3 DEF Inspect, Move
<1>4. ASSUME NEW d \in Processes, Probe(d) PROVE StopsIdle'
  BY <1>4 DEF Probe, Move
<1>5. ASSUME NEW d \in Processes, Unlink(d) PROVE StopsIdle'
  BY <1>5 DEF Unlink, Move
<1>6. ASSUME NEW d \in Processes, Listen(d) PROVE StopsIdle'
  <2>1. CASE socket = Nobody
    BY <1>6, <2>1 DEF Listen, Move
  <2>2. CASE socket # Nobody
    BY <1>6, <2>2 DEF Listen, Move
  <2> QED BY <2>1, <2>2
<1>7. ASSUME NEW d \in Processes, Abort(d) PROVE StopsIdle'
  BY <1>7 DEF Abort, Move, Heard
<1>8. ASSUME NEW d \in Processes, Initialized(d) PROVE StopsIdle'
  BY <1>8 DEF Initialized, Move, Heard
<1>9. ASSUME NEW d \in Processes, InitializeFails(d) PROVE StopsIdle'
  BY <1>9 DEF InitializeFails, Move, Heard
<1>10. ASSUME NEW d \in Processes, Turn(d) PROVE StopsIdle'
  BY <1>10 DEF Turn
<1>11. ASSUME NEW d \in Processes, Signal(d) PROVE StopsIdle'
  BY <1>11 DEF Signal
<1>12. ASSUME NEW d \in Processes, Signalled(d) PROVE StopsIdle'
  BY <1>12 DEF Signalled, Move
<1>13. ASSUME NEW d \in Processes, Drain(d) PROVE StopsIdle'
  BY <1>13 DEF Drain, Move
<1>14. ASSUME NEW d \in Processes, Release(d) PROVE StopsIdle'
  BY <1>14 DEF Release, Move
<1>15. ASSUME NEW d \in Processes, CloseControl(d) PROVE StopsIdle'
  BY <1>15 DEF CloseControl, Move
<1>16. ASSUME NEW d \in Processes, Crash(d) PROVE StopsIdle'
  BY <1>16 DEF Crash, Move, Heard
<1>17. ASSUME NEW c \in Commands, Invoke(c) PROVE StopsIdle'
  BY <1>17 DEF Invoke, Goto
<1>18. ASSUME NEW c \in Commands, Ask(c) PROVE StopsIdle'
  <2>1. /\ \A b \in Commands: cli'[b] \in {"working", "stopping"} => b # c
        /\ \A b \in Commands \ {c}: cli'[b] = cli[b] /\ target'[b] = target[b]
    BY <1>18 DEF Ask, Goto, Found
  <2>2. UNCHANGED <<pc, busy, signalled>>
    BY <1>18 DEF Ask
  <2> QED BY <2>1, <2>2
<1>19. ASSUME NEW c \in Commands, Launch(c) PROVE StopsIdle'
  BY <1>19 DEF Launch, Goto, Move
<1>20. ASSUME NEW c \in Commands, Wait(c) PROVE StopsIdle'
  <2>1. /\ \A b \in Commands: cli'[b] \in {"working", "stopping"} => b # c
        /\ \A b \in Commands \ {c}: cli'[b] = cli[b] /\ target'[b] = target[b]
    BY <1>20 DEF Wait, Goto, Found
  <2>2. UNCHANGED <<pc, busy, signalled>>
    BY <1>20 DEF Wait
  <2> QED BY <2>1, <2>2
<1>21. ASSUME NEW c \in Commands, GiveUp(c) PROVE StopsIdle'
  BY <1>21 DEF GiveUp, Goto
<1>22. ASSUME NEW c \in Commands, Connect(c) PROVE StopsIdle'
  BY <1>22 DEF Connect, Goto
<1>23. ASSUME NEW c \in Commands, Send(c) PROVE StopsIdle'
  BY <1>23 DEF Send, Goto
<1>24. ASSUME NEW c \in Commands, Mutate(c) PROVE StopsIdle'
  BY <1>24 DEF Mutate, Goto
<1>25. ASSUME NEW c \in Commands, Served(c) PROVE StopsIdle'
  BY <1>25 DEF Served, Goto
<1>26. ASSUME NEW c \in Commands, Find(c) PROVE StopsIdle'
  <2>1. /\ \A b \in Commands: cli'[b] \in {"working", "stopping"} => b # c
        /\ \A b \in Commands \ {c}: cli'[b] = cli[b] /\ target'[b] = target[b]
    BY <1>26 DEF Find, Goto, Found
  <2>2. UNCHANGED <<pc, busy, signalled>>
    BY <1>26 DEF Find
  <2> QED BY <2>1, <2>2
<1>27. ASSUME NEW c \in Commands, StopAccepted(c) PROVE StopsIdle'
  BY <1>27 DEF StopAccepted, Goto, Move, MayStop
<1>28. ASSUME NEW c \in Commands, StopRefused(c) PROVE StopsIdle'
  BY <1>28 DEF StopRefused, Goto
<1>29. ASSUME NEW c \in Commands, Poll(c) PROVE StopsIdle'
  BY <1>29 DEF Poll, Goto
<1>30. CASE UNCHANGED vars
  BY <1>30 DEF vars
<1> QED
  BY <1>1, <1>2, <1>3, <1>4, <1>5, <1>6, <1>7, <1>8, <1>9, <1>10, <1>11, <1>12,
     <1>13, <1>14, <1>15, <1>16, <1>17, <1>18, <1>19, <1>20, <1>21, <1>22, <1>23, <1>24,
     <1>25, <1>26, <1>27, <1>28, <1>29, <1>30
  DEF Next, Starting, Stopping, Command

(* A daemon that no longer answers is gone, and so are its port and file.  *)
LEMMA GoneStep ==
  ASSUME TypeOK, PortInv, SocketInv, CommandInv, StoppedMeansGone, [Next]_vars
  PROVE  StoppedMeansGone'
<1> USE ProcessFacts DEF machine, commands, TypeOK, PortInv, Holding, Answering, CommandInv,
           StoppedMeansGone
<1>1. CASE StartByHand
  BY <1>1 DEF StartByHand, Move
<1>2. ASSUME NEW d \in Processes, Bind(d) PROVE StoppedMeansGone'
  <2>1. CASE port = Nobody
    BY <1>2, <2>1 DEF Bind, Move, Heard
  <2>2. CASE port # Nobody
    BY <1>2, <2>2 DEF Bind, Move, Heard
  <2> QED BY <2>1, <2>2
<1>3. ASSUME NEW d \in Processes, Inspect(d) PROVE StoppedMeansGone'
  BY <1>3 DEF Inspect, Move
<1>4. ASSUME NEW d \in Processes, Probe(d) PROVE StoppedMeansGone'
  BY <1>4 DEF Probe, Move
<1>5. ASSUME NEW d \in Processes, Unlink(d) PROVE StoppedMeansGone'
  BY <1>5 DEF Unlink, Move
<1>6. ASSUME NEW d \in Processes, Listen(d) PROVE StoppedMeansGone'
  <2>1. CASE socket = Nobody
    BY <1>6, <2>1 DEF Listen, Move
  <2>2. CASE socket # Nobody
    BY <1>6, <2>2 DEF Listen, Move
  <2> QED BY <2>1, <2>2
<1>7. ASSUME NEW d \in Processes, Abort(d) PROVE StoppedMeansGone'
  BY <1>7 DEF Abort, Move, Heard
<1>8. ASSUME NEW d \in Processes, Initialized(d) PROVE StoppedMeansGone'
  BY <1>8 DEF Initialized, Move, Heard
<1>9. ASSUME NEW d \in Processes, InitializeFails(d) PROVE StoppedMeansGone'
  BY <1>9 DEF InitializeFails, Move, Heard
<1>10. ASSUME NEW d \in Processes, Turn(d) PROVE StoppedMeansGone'
  BY <1>10 DEF Turn
<1>11. ASSUME NEW d \in Processes, Signal(d) PROVE StoppedMeansGone'
  BY <1>11 DEF Signal
<1>12. ASSUME NEW d \in Processes, Signalled(d) PROVE StoppedMeansGone'
  BY <1>12 DEF Signalled, Move
<1>13. ASSUME NEW d \in Processes, Drain(d) PROVE StoppedMeansGone'
  BY <1>13 DEF Drain, Move
<1>14. ASSUME NEW d \in Processes, Release(d) PROVE StoppedMeansGone'
  BY <1>14 DEF Release, Move
<1>15. ASSUME NEW d \in Processes, CloseControl(d) PROVE StoppedMeansGone'
  BY <1>15 DEF CloseControl, Move
<1>16. ASSUME NEW d \in Processes, Crash(d) PROVE StoppedMeansGone'
  BY <1>16 DEF Crash, Move, Heard
<1>17. ASSUME NEW c \in Commands, Invoke(c) PROVE StoppedMeansGone'
  BY <1>17 DEF Invoke, Goto
<1>18. ASSUME NEW c \in Commands, Ask(c) PROVE StoppedMeansGone'
  BY <1>18 DEF Ask, Goto, Found
<1>19. ASSUME NEW c \in Commands, Launch(c) PROVE StoppedMeansGone'
  BY <1>19 DEF Launch, Goto, Move
<1>20. ASSUME NEW c \in Commands, Wait(c) PROVE StoppedMeansGone'
  BY <1>20 DEF Wait, Goto, Found
<1>21. ASSUME NEW c \in Commands, GiveUp(c) PROVE StoppedMeansGone'
  BY <1>21 DEF GiveUp, Goto
<1>22. ASSUME NEW c \in Commands, Connect(c) PROVE StoppedMeansGone'
  BY <1>22 DEF Connect, Goto
<1>23. ASSUME NEW c \in Commands, Send(c) PROVE StoppedMeansGone'
  BY <1>23 DEF Send, Goto
<1>24. ASSUME NEW c \in Commands, Mutate(c) PROVE StoppedMeansGone'
  BY <1>24 DEF Mutate, Goto
<1>25. ASSUME NEW c \in Commands, Served(c) PROVE StoppedMeansGone'
  BY <1>25 DEF Served, Goto
<1>26. ASSUME NEW c \in Commands, Find(c) PROVE StoppedMeansGone'
  BY <1>26 DEF Find, Goto, Found
<1>27. ASSUME NEW c \in Commands, StopAccepted(c) PROVE StoppedMeansGone'
  BY <1>27 DEF StopAccepted, Goto, Move, MayStop
<1>28. ASSUME NEW c \in Commands, StopRefused(c) PROVE StoppedMeansGone'
  <2>1. target[c] # Nobody /\ Answerer # target[c] => pc[target[c]] = "gone"
    BY AnswererFacts DEF TypeOK, CommandInv
  <2>2. \A b \in Commands \ {c}: cli'[b] = cli[b]
    BY <1>28 DEF StopRefused, Goto, TypeOK
  <2>3. cli'[c] = "stopped" => Answerer # target[c] \/ target[c] = Nobody
    BY <1>28 DEF StopRefused, Goto, TypeOK
  <2>4. \A e \in Processes: pc[e] = "gone" => port # e
    BY DEF PortInv, Holding
  <2>5. UNCHANGED <<pc, port, target>> /\ target[c] \in Processes \cup {Nobody}
    BY <1>28 DEF StopRefused, TypeOK
  <2> QED BY <2>1, <2>2, <2>3, <2>4, <2>5
<1>29. ASSUME NEW c \in Commands, Poll(c) PROVE StoppedMeansGone'
  <2>1. target[c] # Nobody /\ Answerer # target[c] => pc[target[c]] = "gone"
    BY AnswererFacts DEF TypeOK, CommandInv
  <2>2. \A b \in Commands \ {c}: cli'[b] = cli[b]
    BY <1>29 DEF Poll, Goto, TypeOK
  <2>3. cli'[c] = "stopped" => Answerer # target[c] \/ target[c] = Nobody
    BY <1>29 DEF Poll, Goto, TypeOK
  <2>4. \A e \in Processes: pc[e] = "gone" => port # e
    BY DEF PortInv, Holding
  <2>5. UNCHANGED <<pc, port, target>> /\ target[c] \in Processes \cup {Nobody}
    BY <1>29 DEF Poll, TypeOK
  <2> QED BY <2>1, <2>2, <2>3, <2>4, <2>5
<1>30. CASE UNCHANGED vars
  BY <1>30 DEF vars
<1> QED
  BY <1>1, <1>2, <1>3, <1>4, <1>5, <1>6, <1>7, <1>8, <1>9, <1>10, <1>11, <1>12,
     <1>13, <1>14, <1>15, <1>16, <1>17, <1>18, <1>19, <1>20, <1>21, <1>22, <1>23, <1>24,
     <1>25, <1>26, <1>27, <1>28, <1>29, <1>30
  DEF Next, Starting, Stopping, Command

(***************************************************************************)
(* The invariant, and what follows from it.                                *)
(***************************************************************************)
LEMMA OwnershipInitially == Init => OwnershipInv
BY ProcessFacts
   DEF Init, OwnershipInv, TypeOK, Locations, CliLocations, PortInv, Holding, SocketInv,
       Answering, CommandInv, StopsIdle, StoppedMeansGone

LEMMA OwnershipAlways == Spec => []OwnershipInv
<1>1. ASSUME OwnershipInv, [Next]_vars PROVE OwnershipInv'
  BY <1>1, TypedStep, PortStep, SocketStep, CommandStep, IdleStep, GoneStep DEF OwnershipInv
<1> QED BY <1>1, OwnershipInitially, PTL DEF Spec

(* However many commands launch daemons, and whoever is killed: at most    *)
(* one process works on the state directory, and the port and the socket   *)
(* are its own.                                                            *)
THEOREM OwnedByOneAlways == Spec => []OwnedByOne
<1>1. OwnershipInv => OwnedByOne
  <2> SUFFICES ASSUME OwnershipInv PROVE OwnedByOne
    OBVIOUS
  <2>1. TypeOK /\ OwnerIsReachable
    BY DEF OwnershipInv, PortInv, Holding, SocketInv, Answering, Owners, OwnerIsReachable
  <2>2. OneOwner
    BY <2>1 DEF OneOwner, OwnerIsReachable
  <2> QED BY <2>1, <2>2 DEF OwnedByOne
<1> QED BY <1>1, OwnershipAlways, PTL

(* A stop that was accepted cuts nothing short, nothing changes the state  *)
(* after it was written, and who is told that the daemon stopped is told   *)
(* the truth.                                                              *)
THEOREM StopsCleanlyAlways == Spec => []StopsCleanly
<1>1. OwnershipInv => StopsCleanly
  BY DEF OwnershipInv, CommandInv, StopsCleanly, NoLateMutation, Working
<1> QED BY <1>1, OwnershipAlways, PTL

=============================================================================
