---------------------------- MODULE DaemonProofs ----------------------------
(***************************************************************************)
(* Daemon uses the pool as ContextPool says, so that what is proved of the *)
(* pool holds of the daemon, and it shuts down in order, for every number  *)
(* of connections, contexts and slots.                                     *)
(***************************************************************************)
EXTENDS Daemon, ContextPoolProofs

(***************************************************************************)
(* The invariant.  A goroutine is in the pool only while its place outside *)
(* is at a Client call.  run is past each of the deferred calls only when  *)
(* that call has done its work.  And what has become of the listener, the  *)
(* path and the signal follows from how far run is.                        *)
(***************************************************************************)

CallsFromOutside ==
    \A p \in Workers : pc[p] # "idle" =>
        \/ p = Main /\ at[p] \in {"hello", "killed"}
        \/ p = Loop /\ at[p] = "round"
        \/ p \in Conns /\ at[p] \in Calls

DeferredInOrder ==
    /\ closer # "open" => at[Main] \in {"close", "exited"}
    /\ at[Main] \in {"close", "exited"} => at[Loop] = "stopped"
    /\ at[Main] = "exited" => closer = "closed"

starting == {"hello", "spawn", "mkdir", "remove", "bind"}
listening == {"chmod", "notify", "serve"}
leaving == {"stop", "join", "close", "exited"}

ListenerInOrder ==
    /\ ~notified => sig = "none"
    /\ at[Main] \in starting => listener = "none"
    /\ at[Main] \in starting \cup listening => code = 0
    /\ at[Main] \in listening => listener \in {"open", "closed"}
    /\ at[Main] \in listening /\ listener = "closed" => sig = "handled"
    /\ at[Main] \in leaving /\ code = 0 => listener = "closed" /\ sig = "handled"
    /\ listener = "closed" => sock = "none"

DaemonInv == OutsideTypeOK /\ CallsFromOutside /\ DeferredInOrder /\ ListenerInOrder

-----------------------------------------------------------------------------
(* The daemon uses the pool.                                               *)

\* Every step of the daemon is one of the pool, or leaves the pool alone.
LEMMA DaemonPoolStep == [DaemonNext]_daemonVars => [Next]_vars
<1> SUFFICES ASSUME [DaemonNext]_daemonVars PROVE Next \/ vars' = vars
  OBVIOUS
<1>1. ASSUME NEW p \in Workers, BeginCall(p) \/ Scheduled(p) PROVE Next
  BY <1>1 DEF BeginCall, Scheduled, InCall, EndCall, Next, WorkerStep
<1>2. CASE CloseClient
  BY <1>2 DEF CloseClient, Next
<1>3. ASSUME NEW c \in Conns, Accept(c) \/ Connect(c) \/ Check(c) \/ Read(c) \/ Write(c)
      PROVE  vars' = vars
  BY <1>3 DEF Accept, Connect, Check, Read, Write, vars, poolVars
<1>4. CASE MainRuns
  BY <1>4 DEF MainRuns, Spawn, MkdirAll, Remove, Bind, Chmod, Notify, ServeReturns, StopMaint,
              Join, Exit, vars, poolVars
<1>5. CASE AcceptFails \/ HandleSignal \/ Signal \/ Kill \/ Timer \/ Done
  BY <1>5 DEF AcceptFails, HandleSignal, Signal, Kill, Timer, Done, vars, poolVars
<1>6. CASE UNCHANGED daemonVars
  BY <1>6 DEF daemonVars, vars, poolVars
<1> QED  BY <1>1, <1>2, <1>3, <1>4, <1>5, <1>6 DEF DaemonNext

(***************************************************************************)
(* The daemon's goroutines follow the pool's protocol: requests, the loop, *)
(* ErrorMessage and run's deferred Close, in every order they can meet.    *)
(***************************************************************************)
THEOREM DaemonUsesPool == DaemonSpec => Spec
<1>1. DaemonInit => Init
  BY DEF DaemonInit
<1> QED  BY <1>1, DaemonPoolStep, PTL DEF DaemonSpec, Spec

-----------------------------------------------------------------------------
(* The invariant holds.                                                    *)

\* At the start, whatever is at the path.
LEMMA DaemonInitInv == DaemonInit => DaemonInv
<1> SUFFICES ASSUME DaemonInit PROVE DaemonInv
  OBVIOUS
<1>1. /\ Main # Loop /\ {Main, Loop} \cap Conns = {}
      /\ Workers = Conns \cup {Main, Loop}
  BY DaemonAssumption DEF DaemonAssumption
<1>2. /\ code = 0 /\ sig = "none" /\ listener = "none" /\ sock \in {"none", "stale"}
      /\ closer = "open" /\ pc = [p \in Workers |-> "idle"]
  BY DEF DaemonInit, Init
<1>3. cancelled \in BOOLEAN
  BY Zenon DEF DaemonInit
<1>4. OutsideTypeOK
  <2>1. \A p \in Workers : at[p] \in {"hello", "off", "none"}
    BY DEF DaemonInit
  <2>2. at = [p \in Workers |-> at[p]]
    BY DEF DaemonInit
  <2>3. at \in [Workers -> {"hello", "off", "none"}]
    BY <2>1, <2>2
  <2> QED  BY <1>2, <1>3, <2>3 DEF OutsideTypeOK
<1>5. at[Main] = "hello"
  BY <1>1 DEF DaemonInit
<1>6. CallsFromOutside
  BY <1>2 DEF CallsFromOutside
<1>7. DeferredInOrder /\ ListenerInOrder
  BY <1>2, <1>5 DEF DeferredInOrder, ListenerInOrder, starting, listening, leaving
<1> QED  BY <1>4, <1>6, <1>7 DEF DaemonInv

\* A goroutine that is not in the pool may go anywhere.
LEMMA MovesOutside ==
    ASSUME CallsFromOutside, pc' = pc,
           \A p \in Workers : \/ at'[p] = at[p] \/ pc[p] = "idle"
                              \/ p = Main /\ at'[p] = "killed"
    PROVE  CallsFromOutside'
BY DEF CallsFromOutside

\* What run and the loop do decides about the rest of the invariant: the
\* others do not matter.
LEMMA OthersMove ==
    ASSUME DeferredInOrder, ListenerInOrder, UNCHANGED outside, UNCHANGED closer,
           at'[Main] = at[Main], at'[Loop] = at[Loop]
    PROVE  DeferredInOrder' /\ ListenerInOrder'
BY DEF DeferredInOrder, ListenerInOrder, outside, notified, starting, listening, leaving

\* A goroutine of handleConn, outside the pool.
LEMMA ConnInv ==
    ASSUME DaemonInv, NEW c \in Conns,
           Accept(c) \/ Connect(c) \/ Check(c) \/ Read(c) \/ Write(c)
    PROVE  DaemonInv'
<1> USE DEF DaemonInv
<1>0. c \in Workers /\ c # Main /\ c # Loop /\ Main \in Workers /\ Loop \in Workers
  BY DaemonAssumption DEF DaemonAssumption
<1>1. UNCHANGED <<poolVars, outside>> /\ at[c] \in {"backlog", "none", "check", "read", "write"}
  BY DEF Accept, Connect, Check, Read, Write
<1>2. PICK l \in Calls \cup {"backlog", "none", "check", "read", "write"} :
         at' = [at EXCEPT ![c] = l]
  BY DEF Accept, Connect, Check, Read, Write, Goto, Calls
<1>3. OutsideTypeOK'
  BY <1>0, <1>1, <1>2 DEF OutsideTypeOK, outside
<1>4. pc[c] = "idle"
  BY <1>0, <1>1 DEF CallsFromOutside, Calls
<1>5. CallsFromOutside'
  BY <1>1, <1>2, <1>4, MovesOutside DEF OutsideTypeOK, poolVars
<1>6. at'[Main] = at[Main] /\ at'[Loop] = at[Loop]
  BY <1>0, <1>2 DEF OutsideTypeOK
<1> QED  BY <1>1, <1>3, <1>5, <1>6, OthersMove DEF poolVars

\* The loop, outside the pool.
LEMMA LoopInv ==
    ASSUME DaemonInv, Timer \/ Done
    PROVE  DaemonInv'
<1> USE DEF DaemonInv
<1>0. Main # Loop /\ Loop \notin Conns /\ Main \in Workers /\ Loop \in Workers
  BY DaemonAssumption DEF DaemonAssumption
<1>1. UNCHANGED <<poolVars, outside>> /\ at[Loop] = "wait"
  BY DEF Timer, Done
<1>2. PICK l \in {"round", "stopped"} : at' = [at EXCEPT ![Loop] = l]
  BY DEF Timer, Done, Goto
<1>3. OutsideTypeOK'
  BY <1>0, <1>1, <1>2 DEF OutsideTypeOK, outside
<1>4. pc[Loop] = "idle"
  BY <1>0, <1>1 DEF CallsFromOutside
<1>5. CallsFromOutside'
  BY <1>1, <1>2, <1>4, MovesOutside DEF OutsideTypeOK, poolVars
<1>6. at'[Main] = at[Main] /\ at[Main] \notin {"close", "exited"}
  BY <1>0, <1>1, <1>2 DEF OutsideTypeOK, DeferredInOrder
<1>7. DeferredInOrder'
  BY <1>1, <1>6 DEF DeferredInOrder, poolVars
<1>8. ListenerInOrder'
  BY <1>1, <1>6 DEF ListenerInOrder, outside, notified
<1> QED  BY <1>3, <1>5, <1>7, <1>8

\* A Client call begins, goes on or ends.
LEMMA CallInv ==
    ASSUME TypeOK, DaemonInv, alive, NEW p \in Workers, BeginCall(p) \/ Scheduled(p)
    PROVE  DaemonInv'
<1> USE DEF DaemonInv
<1>0. /\ Main # Loop /\ Main \notin Conns /\ Loop \notin Conns
      /\ Main \in Workers /\ Loop \in Workers /\ Workers = Conns \cup {Main, Loop}
  BY DaemonAssumption DEF DaemonAssumption
<1>1. UNCHANGED <<outside, closer>>
  BY DEF BeginCall, Scheduled, InCall, EndCall, AcquireSlot, Take, Create, Finish, Put, Drop,
         CreateFails
<1>2. PICK l \in {"take", "create", "use", "put", "drop", "idle"} : pc' = [pc EXCEPT ![p] = l]
  BY DEF BeginCall, Scheduled, InCall, EndCall, AcquireSlot, Take, Create, Finish, Put, Drop,
         CreateFails, releaseNext
<1>3. CASE BeginCall(p)
  <2>1. at' = at /\ callsClient(p)
    BY <1>3 DEF BeginCall
  <2>2. \/ p = Main /\ at[p] = "hello"
        \/ p = Loop /\ at[p] = "round"
        \/ p \in Conns /\ at[p] \in Calls
    BY <1>0, <2>1 DEF callsClient
  <2>3. CallsFromOutside'
    BY <1>0, <1>2, <2>1, <2>2 DEF CallsFromOutside, TypeOK
  <2> QED  BY <1>1, <2>1, <2>3, OthersMove DEF OutsideTypeOK, outside
<1>4. CASE InCall(p)
  <2>1. at' = at /\ pc[p] # "idle"
    BY <1>4 DEF InCall, Take, Create, Finish, Put
  <2>2. CallsFromOutside'
    BY <1>0, <1>2, <2>1 DEF CallsFromOutside, TypeOK
  <2> QED  BY <1>1, <2>1, <2>2, OthersMove DEF OutsideTypeOK, outside
<1>5. CASE EndCall(p)
  <2>1. pc[p] # "idle" /\ pc' = [pc EXCEPT ![p] = "idle"]
    BY <1>5 DEF EndCall, Drop, CreateFails, releaseNext
  <2>2. PICK ok \in BOOLEAN : at' = [at EXCEPT ![p] = returnsTo(p, ok)]
    BY <1>5 DEF EndCall, Goto
  <2>3. \/ p = Main /\ at[p] = "hello"
        \/ p = Loop /\ at[p] = "round"
        \/ p \in Conns /\ at[p] \in Calls
    BY <1>0, <2>1 DEF CallsFromOutside, alive
  <2>4. /\ p = Main => returnsTo(p, ok) = "spawn"
        /\ p = Loop => returnsTo(p, ok) = "wait"
        /\ p \in Conns => returnsTo(p, ok) \in Calls \cup {"write"}
    BY <1>0 DEF returnsTo, afterCall, Calls
  <2>5. OutsideTypeOK'
    BY <1>0, <1>1, <2>2, <2>4 DEF OutsideTypeOK, outside
  <2>6. CallsFromOutside'
    BY <2>1, <2>2 DEF CallsFromOutside, TypeOK, OutsideTypeOK
  <2>7. CASE p \in Conns
    <3>1. at'[Main] = at[Main] /\ at'[Loop] = at[Loop]
      BY <1>0, <2>2, <2>7 DEF OutsideTypeOK
    <3> QED  BY <1>1, <2>5, <2>6, <3>1, OthersMove
  <2>8. CASE p = Main
    <3>1. at[Main] = "hello" /\ at'[Main] = "spawn"
      BY <1>0, <2>2, <2>3, <2>4, <2>8 DEF OutsideTypeOK
    <3>2. DeferredInOrder' /\ ListenerInOrder'
      BY <1>1, <3>1 DEF DeferredInOrder, ListenerInOrder, outside, notified, starting, listening,
                        leaving
    <3> QED  BY <2>5, <2>6, <3>2
  <2>9. CASE p = Loop
    <3>1. at'[Main] = at[Main] /\ at[Loop] = "round"
      BY <1>0, <2>2, <2>3, <2>9 DEF OutsideTypeOK
    <3>2. DeferredInOrder' /\ ListenerInOrder'
      BY <1>1, <3>1 DEF DeferredInOrder, ListenerInOrder, outside, notified, starting, listening,
                        leaving
    <3> QED  BY <2>5, <2>6, <3>2
  <2> QED  BY <1>0, <2>7, <2>8, <2>9
<1> QED  BY <1>3, <1>4, <1>5 DEF Scheduled

\* run moves on from one statement to the next, all of them outside the pool
\* but the first.
LEMMA MainMoves ==
    ASSUME DaemonInv, NEW l, at[Main] # "hello", alive, at' = [at EXCEPT ![Main] = l], pc' = pc
    PROVE  /\ CallsFromOutside'
           /\ at'[Main] = l /\ at'[Loop] = at[Loop]
<1>0. Main # Loop /\ Main \notin Conns /\ Main \in Workers /\ Loop \in Workers
  BY DaemonAssumption DEF DaemonAssumption
<1>1. pc[Main] = "idle"
  BY <1>0 DEF DaemonInv, CallsFromOutside, alive
<1> QED  BY <1>0, <1>1, MovesOutside DEF DaemonInv, OutsideTypeOK

\* Start-up, before there is a listener.
LEMMA StartInv ==
    ASSUME DaemonInv, alive, Spawn \/ MkdirAll \/ Remove \/ Bind
    PROVE  DaemonInv'
<1> USE DEF DaemonInv
<1>0. Main # Loop /\ Main \notin Conns /\ Main \in Workers /\ Loop \in Workers
  BY DaemonAssumption DEF DaemonAssumption
<1>1. UNCHANGED poolVars /\ UNCHANGED <<sig, cancelled>>
  BY DEF Spawn, MkdirAll, Remove, Bind, outside
<1>2. at[Main] \in {"spawn", "mkdir", "remove", "bind"} /\ code = 0 /\ listener = "none"
  BY DEF Spawn, MkdirAll, Remove, Bind, MainGoes, Fail, ListenerInOrder, starting
<1>3. closer = "open" /\ closer' = "open" /\ sig = "none"
  BY <1>1, <1>2 DEF DeferredInOrder, ListenerInOrder, notified, OutsideTypeOK, poolVars
<1>4. CASE Spawn
  <2>1. at' = [at EXCEPT ![Main] = "mkdir", ![Loop] = "round"] /\ UNCHANGED outside
    BY <1>4 DEF Spawn
  <2>2. OutsideTypeOK'
    BY <1>0, <2>1 DEF OutsideTypeOK, outside
  <2>3. CallsFromOutside'
    <3>1. at[Main] = "spawn"
      BY <1>4 DEF Spawn
    <3>2. pc[Main] = "idle"
      BY <1>0, <3>1 DEF CallsFromOutside
    <3>3. pc' = pc
      BY <1>1 DEF poolVars
    <3>4. ASSUME NEW p \in Workers, pc'[p] # "idle"
          PROVE  \/ p = Main /\ at'[p] \in {"hello", "killed"}
                 \/ p = Loop /\ at'[p] = "round"
                 \/ p \in Conns /\ at'[p] \in Calls
      <4>1. p # Main
        BY <3>2, <3>3, <3>4
      <4>2. CASE p = Loop
        BY <1>0, <2>1, <4>2 DEF OutsideTypeOK
      <4>3. CASE p # Loop
        BY <2>1, <3>3, <3>4, <4>1, <4>3 DEF OutsideTypeOK, CallsFromOutside
      <4> QED  BY <4>2, <4>3
    <3> QED  BY <3>4 DEF CallsFromOutside
  <2>4. at'[Main] = "mkdir"
    BY <1>0, <2>1 DEF OutsideTypeOK
  <2>5. DeferredInOrder' /\ ListenerInOrder'
    BY <1>2, <1>3, <2>1, <2>4 DEF DeferredInOrder, ListenerInOrder, outside, notified, starting,
                                  listening, leaving
  <2> QED  BY <2>2, <2>3, <2>5
<1>5. CASE MkdirAll \/ Remove \/ Bind
  <2>1. PICK l \in {"remove", "bind", "chmod", "stop"} : at' = [at EXCEPT ![Main] = l]
    BY <1>5 DEF MkdirAll, Remove, Bind, MainGoes, Fail, Goto
  <2>2. CallsFromOutside' /\ at'[Main] = l /\ at'[Loop] = at[Loop]
    BY <1>1, <1>2, <2>1, MainMoves DEF poolVars
  <2>3. /\ l \in {"remove", "bind"} => code' = code /\ listener' = listener
        /\ l = "chmod" => code' = code /\ listener' = "open"
        /\ l = "stop" => code' = 1 /\ listener' = listener
    BY <1>0, <1>5, <2>1 DEF MkdirAll, Remove, Bind, MainGoes, Fail, Goto, OutsideTypeOK
  <2>4. sock' \in {"none", "stale", "mine"} /\ code' \in {0, 1} /\ listener' \in {"none", "open"}
    BY <1>2, <1>5 DEF MkdirAll, Remove, Bind, MainGoes, Fail, OutsideTypeOK
  <2>5. OutsideTypeOK'
    BY <1>0, <1>1, <2>1, <2>4 DEF OutsideTypeOK
  <2>6. DeferredInOrder' /\ ListenerInOrder'
    BY <1>1, <1>2, <1>3, <2>2, <2>3, <2>4 DEF DeferredInOrder, ListenerInOrder, notified, starting,
                                       listening, leaving
  <2> QED  BY <2>2, <2>5, <2>6
<1> QED  BY <1>4, <1>5

\* The listener is closed, by the failure of Chmod or by a signal: only
\* connections in its backlog move.
LEMMA BacklogReset ==
    ASSUME DaemonInv, alive, pc' = pc,
           at' = [p \in Workers |-> at'[p]],
           \A p \in Workers \ {Main} : at'[p] = resetBacklog(p),
           at'[Main] = at[Main] \/ (at'[Main] = "stop" /\ at[Main] # "hello")
    PROVE  /\ CallsFromOutside'
           /\ at' \in [Workers -> Calls \cup
                 {"none", "backlog", "check", "read", "write", "off", "round", "wait", "stopped",
                  "hello", "spawn", "mkdir", "remove", "bind", "chmod", "notify", "serve",
                  "stop", "join", "close", "exited", "killed"}]
           /\ at'[Loop] = at[Loop]
<1>0. Main # Loop /\ Main \notin Conns /\ Loop \notin Conns /\ Main \in Workers /\ Loop \in Workers
  BY DaemonAssumption DEF DaemonAssumption
<1>1. at[Main] # "hello" => pc[Main] = "idle"
  BY <1>0 DEF DaemonInv, CallsFromOutside, alive
<1>2. \A p \in Workers : \/ resetBacklog(p) = at[p]
                         \/ p \in Conns /\ at[p] = "backlog" /\ resetBacklog(p) = "none"
  BY DEF resetBacklog
<1>3. \A p \in Workers : at'[p] = at[p] \/ pc[p] = "idle"
  BY <1>0, <1>1, <1>2 DEF DaemonInv, CallsFromOutside, Calls
<1>4. CallsFromOutside'
  BY <1>3, MovesOutside DEF DaemonInv
<1>5. \A p \in Workers : at'[p] \in {at[p], "stop", "none"}
  BY <1>2
<1>6. at'[Loop] = at[Loop]
  BY <1>0, <1>2
<1> QED  BY <1>4, <1>5, <1>6 DEF DaemonInv, OutsideTypeOK

\* Between Bind and the deferred calls.
LEMMA ListenInv ==
    ASSUME DaemonInv, alive, Chmod \/ Notify \/ ServeReturns \/ AcceptFails
    PROVE  DaemonInv'
<1> USE DEF DaemonInv
<1>0. Main # Loop /\ Main \in Workers /\ Loop \in Workers
  BY DaemonAssumption DEF DaemonAssumption
<1>1. UNCHANGED poolVars /\ UNCHANGED <<sig, cancelled>>
  BY DEF Chmod, Notify, ServeReturns, AcceptFails, outside
<1>2. at[Main] \in listening /\ code = 0 /\ closer = "open" /\ closer' = "open"
  BY <1>1 DEF Chmod, Notify, ServeReturns, AcceptFails, MainGoes, Fail, ListenerInOrder,
              DeferredInOrder, listening, poolVars
<1>3. ASSUME NEW l \in {"notify", "serve", "stop"}, at' = [at EXCEPT ![Main] = l],
             UNCHANGED <<listener, sock>>,
             \/ l = "notify" /\ at[Main] = "chmod" /\ code' = code
             \/ l = "serve" /\ code' = code
             \/ l = "stop" /\ code' = 1
             \/ l = "stop" /\ code' = code /\ listener = "closed"
      PROVE  DaemonInv'
  <2>1. CallsFromOutside' /\ at'[Main] = l /\ at'[Loop] = at[Loop]
    BY <1>1, <1>2, <1>3, MainMoves DEF poolVars, listening
  <2>2. OutsideTypeOK'
    BY <1>0, <1>1, <1>3 DEF OutsideTypeOK
  <2>3. DeferredInOrder'
    BY <1>2, <2>1 DEF DeferredInOrder
  <2>4. ListenerInOrder'
    BY <1>1, <1>2, <1>3, <2>1 DEF ListenerInOrder, notified, starting, listening, leaving
  <2> QED  BY <2>1, <2>2, <2>3, <2>4
<1>4. CASE Chmod /\ ~ MainGoes("chmod", "notify")
  <2>1. /\ at[Main] = "chmod"
        /\ at' = [p \in Workers |-> IF p = Main THEN "stop" ELSE resetBacklog(p)]
        /\ code' = 1 /\ listener' = "closed" /\ sock' = "none"
    BY <1>4 DEF Chmod, CloseListener
  <2>2. CallsFromOutside' /\ at'[Main] = "stop" /\ at'[Loop] = at[Loop] /\ OutsideTypeOK'
    BY <1>0, <1>1, <2>1, BacklogReset DEF poolVars, OutsideTypeOK
  <2>3. DeferredInOrder' /\ ListenerInOrder'
    BY <1>1, <1>2, <2>1, <2>2 DEF DeferredInOrder, ListenerInOrder, notified, starting, listening,
                                  leaving
  <2> QED  BY <2>2, <2>3
<1>5. CASE Chmod /\ MainGoes("chmod", "notify")
  <2>1. at'[Main] = "notify"
    BY <1>0, <1>5 DEF MainGoes, Goto, OutsideTypeOK
  <2>2. UNCHANGED <<code, listener, sock>> /\ at[Main] = "chmod" /\ at' = [at EXCEPT ![Main] = "notify"]
    BY <1>0, <1>5, <2>1 DEF Chmod, MainGoes, Goto
  <2> QED  BY <1>3, <2>2
<1>6. CASE Notify
  BY <1>3, <1>6 DEF Notify, MainGoes, Goto, outside
<1>7. CASE ServeReturns
  BY <1>3, <1>7 DEF ServeReturns, MainGoes, Goto, outside
<1>8. CASE AcceptFails
  BY <1>3, <1>8 DEF AcceptFails, Fail, MainGoes, Goto
<1> QED  BY <1>4, <1>5, <1>6, <1>7, <1>8

\* The deferred calls: stopMaint, the wait for the loop, Close, the end.
LEMMA LeaveInv ==
    ASSUME DaemonInv, alive, StopMaint \/ Join \/ CloseClient \/ Exit
    PROVE  DaemonInv'
<1> USE DEF DaemonInv
<1>0. Main # Loop /\ Main \in Workers /\ Loop \in Workers
  BY DaemonAssumption DEF DaemonAssumption
<1>1. CASE CloseClient
  <2>1. at[Main] = "close" /\ UNCHANGED <<at, outside>>
    BY <1>1 DEF CloseClient
  <2>2. pc' = pc
    BY <1>1 DEF CloseClient, CloserStep, Close, Drain, CloseFree, FreeOne, CloseReturns
  <2>3. OutsideTypeOK' /\ CallsFromOutside'
    BY <2>1, <2>2 DEF OutsideTypeOK, CallsFromOutside, outside
  <2>4. DeferredInOrder' /\ ListenerInOrder'
    BY <2>1 DEF DeferredInOrder, ListenerInOrder, outside, notified
  <2> QED  BY <2>3, <2>4
<1>2. CASE StopMaint \/ Join \/ Exit
  <2>1. UNCHANGED <<poolVars, code, sig, listener>>
    BY <1>2 DEF StopMaint, Join, Exit, outside
  <2>2. PICK l \in {"join", "close", "exited"} :
           /\ at' = [at EXCEPT ![Main] = l]
           /\ l = "join" => at[Main] = "stop"
           /\ l = "close" => at[Main] = "join" /\ at[Loop] = "stopped"
           /\ l = "exited" => at[Main] = "close" /\ closer = "closed"
    BY <1>2 DEF StopMaint, Join, Exit, MainGoes, Goto, maintDone, clientClosed
  <2>3. CallsFromOutside' /\ at'[Main] = l /\ at'[Loop] = at[Loop]
    BY <2>1, <2>2, MainMoves DEF poolVars
  <2>4. cancelled' \in BOOLEAN
    BY <1>2, Zenon DEF StopMaint, Join, Exit, cancel, outside, OutsideTypeOK
  <2>5. sock' \in {"none", "stale", "mine"} /\ (sock = "none" => sock' = "none")
    BY <1>2 DEF StopMaint, Join, Exit, leave, outside, OutsideTypeOK
  <2>6. OutsideTypeOK'
    BY <1>0, <2>1, <2>2, <2>4, <2>5 DEF OutsideTypeOK
  <2>7. DeferredInOrder'
    BY <2>1, <2>2, <2>3 DEF DeferredInOrder, poolVars
  <2>8. ListenerInOrder'
    BY <2>1, <2>2, <2>3, <2>5 DEF ListenerInOrder, notified, starting, listening, leaving
  <2> QED  BY <2>3, <2>6, <2>7, <2>8
<1> QED  BY <1>1, <1>2

\* A signal arrives, is handled, or ends the process.
LEMMA SignalInv ==
    ASSUME DaemonInv, alive, HandleSignal \/ Signal \/ Kill
    PROVE  DaemonInv'
<1> USE DEF DaemonInv
<1>0. Main # Loop /\ Main \notin Conns /\ Main \in Workers /\ Loop \in Workers
  BY DaemonAssumption DEF DaemonAssumption
<1>1. UNCHANGED poolVars /\ UNCHANGED <<code, cancelled>>
  BY DEF HandleSignal, Signal, Kill
<1>2. CASE HandleSignal
  <2>1. /\ sig = "pending" /\ sig' = "handled"
        /\ listener = "open" /\ listener' = "closed" /\ sock' = "none"
        /\ at' = [p \in Workers |-> resetBacklog(p)]
    BY <1>2 DEF HandleSignal, CloseListener
  <2>2. CallsFromOutside' /\ at'[Main] = at[Main] /\ at'[Loop] = at[Loop] /\ OutsideTypeOK'
    <3>1. at'[Main] = at[Main]
      BY <1>0, <2>1 DEF resetBacklog
    <3> QED  BY <1>1, <2>1, <3>1, BacklogReset DEF poolVars, OutsideTypeOK
  <2>3. DeferredInOrder'
    BY <1>1, <2>2 DEF DeferredInOrder, poolVars
  <2>4. ListenerInOrder'
    BY <1>1, <2>1, <2>2 DEF ListenerInOrder, notified, starting, listening, leaving
  <2> QED  BY <2>2, <2>3, <2>4
<1>3. CASE Signal
  <2>1. notified /\ sig = "none" /\ sig' = "pending" /\ UNCHANGED <<at, listener, sock>>
    BY <1>3 DEF Signal
  <2>2. OutsideTypeOK' /\ CallsFromOutside' /\ DeferredInOrder'
    BY <1>1, <2>1 DEF OutsideTypeOK, CallsFromOutside, DeferredInOrder, poolVars
  <2>3. ListenerInOrder'
    BY <1>1, <2>1 DEF ListenerInOrder, notified
  <2> QED  BY <2>2, <2>3
<1>4. CASE Kill
  <2>1. /\ ~notified /\ at' = [at EXCEPT ![Main] = "killed"] /\ UNCHANGED <<sig, listener>>
        /\ sock' \in {"none", "stale"} /\ (sock = "none" => sock' = "none")
    BY <1>4 DEF Kill, Goto, leave, OutsideTypeOK
  <2>2. at'[Main] = "killed" /\ at'[Loop] = at[Loop]
    BY <1>0, <2>1 DEF OutsideTypeOK
  <2>3. OutsideTypeOK'
    BY <1>0, <1>1, <2>1 DEF OutsideTypeOK
  <2>4. CallsFromOutside'
    BY <1>1, <2>1, <2>2, MovesOutside DEF OutsideTypeOK, poolVars
  <2>5. DeferredInOrder'
    BY <1>1, <2>1, <2>2 DEF DeferredInOrder, notified, poolVars
  <2>6. ListenerInOrder'
    BY <1>1, <2>1, <2>2 DEF ListenerInOrder, notified, starting, listening, leaving
  <2> QED  BY <2>3, <2>4, <2>5, <2>6
<1> QED  BY <1>2, <1>3, <1>4

\* Every step preserves the invariant.
LEMMA DaemonNextInv ==
    ASSUME TypeOK, DaemonInv, [DaemonNext]_daemonVars
    PROVE  DaemonInv'
<1>1. CASE UNCHANGED daemonVars
  BY <1>1 DEF daemonVars, poolVars, outside, DaemonInv, OutsideTypeOK, CallsFromOutside,
              DeferredInOrder, ListenerInOrder, notified
<1>2. CASE DaemonNext
  BY <1>2, ConnInv, LoopInv, CallInv, StartInv, ListenInv, LeaveInv, SignalInv
     DEF DaemonNext, MainRuns
<1> QED  BY <1>1, <1>2

\* And so it always holds, with the pool's.
LEMMA DaemonAlways == DaemonSpec => [](PoolInv /\ DaemonInv)
<1>1. PoolInv => TypeOK
  BY DEF PoolInv
<1>2. DaemonSpec => []PoolInv
  BY DaemonUsesPool, PoolAlways, PTL
<1>3. DaemonSpec => []DaemonInv
  BY <1>1, <1>2, DaemonInitInv, DaemonNextInv, PTL DEF DaemonSpec
<1> QED  BY <1>2, <1>3, PTL

-----------------------------------------------------------------------------
(* What it gives.                                                          *)

(***************************************************************************)
(* The pool and the daemon around it keep their types.                     *)
(***************************************************************************)
THEOREM DaemonTypes == DaemonSpec => []DaemonTypeOK
<1>1. PoolInv /\ DaemonInv => DaemonTypeOK
  BY DEF PoolInv, DaemonInv, DaemonTypeOK
<1> QED  BY <1>1, DaemonAlways, PTL

(***************************************************************************)
(* In the daemon too, a krb5_context is one goroutine's, there are at most *)
(* MaxConcurrent of them, release never waits, and Close waits for all.    *)
(***************************************************************************)
THEOREM DaemonPoolSafety ==
    DaemonSpec => [](ContextsExclusive /\ PoolBounded /\ ReleaseNeverBlocks /\ CloseWaits)
BY DaemonUsesPool, ExclusionSafety, BoundSafety, ReleaseSafety, CloseSafety, PTL

(***************************************************************************)
(* And it implements BoundedService through the pool.                      *)
(***************************************************************************)
THEOREM DaemonImplementsService == DaemonSpec => ImplementsService
BY DaemonUsesPool, PoolImplementsService, PTL

(***************************************************************************)
(* On every path out of run, the loop has stopped before Close begins.     *)
(***************************************************************************)
THEOREM LoopStopped == DaemonSpec => []LoopStopsBeforeClose
<1>1. DaemonInv => LoopStopsBeforeClose
  BY DEF DaemonInv, DeferredInOrder, LoopStopsBeforeClose
<1> QED  BY <1>1, DaemonAlways, PTL

(***************************************************************************)
(* However run returns, every context has been freed and no goroutine has  *)
(* one; it returns 0 only after a signal, and leaves no stale socket then. *)
(***************************************************************************)
THEOREM ExitSafety == DaemonSpec => []CleanExit
<1>1. PoolInv /\ DaemonInv => CleanExit
  <2> SUFFICES ASSUME PoolInv, DaemonInv, at[Main] = "exited"
               PROVE  /\ live = {}
                      /\ \A p \in Workers : ctx[p] = Nil
                      /\ code = 0 => sig = "handled" /\ sock # "stale"
    BY DEF CleanExit
  <2>1. closer = "closed" /\ closed
    BY DEF DaemonInv, DeferredInOrder, PoolInv, CloserInOrder
  <2>2. live = {} /\ \A p \in Workers : pc[p] = "idle"
    BY <2>1, InvCloses DEF CloseWaits
  <2>3. \A p \in Workers : ctx[p] = Nil
    BY <2>2 DEF PoolInv, NoContextLeft, using
  <2>4. code = 0 => sig = "handled" /\ sock # "stale"
    BY DEF DaemonInv, ListenerInOrder, leaving
  <2> QED  BY <2>2, <2>3, <2>4
<1> QED  BY <1>1, DaemonAlways, PTL

=============================================================================
