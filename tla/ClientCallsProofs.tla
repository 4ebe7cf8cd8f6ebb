------------------------- MODULE ClientCallsProofs --------------------------
(***************************************************************************)
(* Safety of FlightGroup for every number of callers, keys and records;    *)
(* then the calls of a Client use its flights as FlightGroup says, no      *)
(* flight is overtaken by a change of the cache, requests with one key     *)
(* have one template, and callers never wait in a circle, for every number *)
(* of callers, match-credentials and records.                              *)
(***************************************************************************)
EXTENDS ClientCalls, WellFoundedInduction, SequenceTheorems, TLAPS

-----------------------------------------------------------------------------
(* flightGroup on its own.                                                 *)

(***************************************************************************)
(* OneRunPerKey, AnswersAreComplete and WaitersHaveALeader are not         *)
(* inductive.  What makes them so is the correspondence between the map,   *)
(* the leaders and the records: a leader that has not deleted its key is   *)
(* the one the map knows, no two leaders share a record, an open record    *)
(* has a leader and a closed one a value.                                  *)
(***************************************************************************)

inMap == {"run", "delete"}

MapKnowsLeaders == \A p \in Callers : pc[p] \in inMap => m[key[p]] = f[p]

MapHasLeaders ==
    \A k \in Keys : m[k] # Nil =>
        \E p \in Callers : pc[p] \in inMap /\ key[p] = k /\ f[p] = m[k]

RecordsUnshared == \A p, q \in leading : f[p] = f[q] => p = q

OpenWhileLed == \A p \in leading : f[p] \notin done

WrittenBeforeClosed ==
    \A p \in Callers :
        /\ pc[p] \in {"delete", "close"} => val[f[p]] # Nil
        /\ pc[p] # "idle" /\ f[p] \in done => val[f[p]] # Nil

ReturnedFromClosed == \A p \in Callers : pc[p] = "return" => f[p] \in done

FlightInv ==
    /\ TypeOK
    /\ MapKnowsLeaders
    /\ MapHasLeaders
    /\ RecordsUnshared
    /\ OpenWhileLed
    /\ WrittenBeforeClosed
    /\ ReturnedFromClosed
    /\ AnswersAreComplete
    /\ WaitersHaveALeader

\* The invariant holds when no call has been made.
LEMMA FlightInit == Init => FlightInv
BY FlightAssumption
   DEF Init, FlightInv, FlightAssumption, TypeOK, MapKnowsLeaders, MapHasLeaders, RecordsUnshared,
       OpenWhileLed, WrittenBeforeClosed, ReturnedFromClosed, AnswersAreComplete,
       WaitersHaveALeader, leading, inMap

\* Every step of do preserves the invariant.
LEMMA FlightNext ==
    ASSUME FlightInv, Next
    PROVE  FlightInv'
<1> USE FlightAssumption DEF FlightInv, FlightAssumption, leading, inMap
<1>1. ASSUME NEW p \in Callers, NEW k \in Keys, Join(p, k) PROVE FlightInv'
  <2> USE <1>1 DEF Join, inFlight
  <2>1. TypeOK'
    BY DEF TypeOK
  <2>2. PICK q \in Callers : pc[q] \in inMap /\ key[q] = k /\ f[q] = m[k]
    BY DEF MapHasLeaders
  <2>3. MapKnowsLeaders' /\ RecordsUnshared' /\ OpenWhileLed' /\ ReturnedFromClosed'
    BY DEF TypeOK, MapKnowsLeaders, RecordsUnshared, OpenWhileLed, ReturnedFromClosed
  <2>4. MapHasLeaders'
    BY DEF TypeOK, MapHasLeaders
  <2>5. WrittenBeforeClosed' /\ AnswersAreComplete'
    BY <2>2 DEF TypeOK, WrittenBeforeClosed, AnswersAreComplete, OpenWhileLed
  <2>6. WaitersHaveALeader'
    BY <2>2 DEF TypeOK, WaitersHaveALeader
  <2> QED  BY <2>1, <2>3, <2>4, <2>5, <2>6
<1>2. ASSUME NEW p \in Callers, NEW k \in Keys, Start(p, k) PROVE FlightInv'
  <2> USE DEF Start, inFlight
  <2>1. PICK x \in unused :
          /\ m' = [m EXCEPT ![k] = x]
          /\ f' = [f EXCEPT ![p] = x]
          /\ done' = done \ {x}
          /\ val' = [val EXCEPT ![x] = Nil]
    BY <1>2
  <2>2. x \in Flights /\ (\A j \in Keys : m[j] # x) /\ (\A q \in Callers : f[q] # x)
    BY <2>1 DEF unused
  <2>3. /\ pc[p] = "idle" /\ m[k] = Nil
        /\ key' = [key EXCEPT ![p] = k]
        /\ pc' = [pc EXCEPT ![p] = "run"]
        /\ answer' = answer
    BY <1>2
  <2> USE <2>1, <2>2, <2>3
  <2>4. TypeOK'
    BY DEF TypeOK
  <2>5. MapKnowsLeaders'
    BY DEF TypeOK, MapKnowsLeaders
  <2>6. MapHasLeaders'
    BY DEF TypeOK, MapHasLeaders
  <2>7. RecordsUnshared' /\ OpenWhileLed' /\ ReturnedFromClosed'
    BY DEF TypeOK, RecordsUnshared, OpenWhileLed, ReturnedFromClosed
  <2>8. WrittenBeforeClosed' /\ AnswersAreComplete'
    BY DEF TypeOK, WrittenBeforeClosed, AnswersAreComplete
  <2>9. WaitersHaveALeader'
    BY DEF TypeOK, WaitersHaveALeader
  <2> QED  BY <2>4, <2>5, <2>6, <2>7, <2>8, <2>9
<1>3. ASSUME NEW p \in Callers, Run(p) PROVE FlightInv'
  <2>1. PICK v \in Values : val' = [val EXCEPT ![f[p]] = v]
    BY <1>3 DEF Run
  <2>2. /\ pc[p] = "run" /\ pc' = [pc EXCEPT ![p] = "delete"]
        /\ UNCHANGED <<m, done, key, f, answer>>
    BY <1>3 DEF Run
  <2> USE <2>1, <2>2
  <2>3. TypeOK'
    BY DEF TypeOK
  <2>4. MapKnowsLeaders' /\ MapHasLeaders'
    BY DEF TypeOK, MapKnowsLeaders, MapHasLeaders
  <2>5. RecordsUnshared' /\ OpenWhileLed' /\ ReturnedFromClosed'
    BY DEF TypeOK, RecordsUnshared, OpenWhileLed, ReturnedFromClosed
  <2>6. WrittenBeforeClosed'
    BY DEF TypeOK, WrittenBeforeClosed, OpenWhileLed
  <2>7. AnswersAreComplete'
    BY DEF TypeOK, AnswersAreComplete, ReturnedFromClosed, OpenWhileLed
  <2>8. WaitersHaveALeader'
    BY DEF TypeOK, WaitersHaveALeader
  <2> QED  BY <2>3, <2>4, <2>5, <2>6, <2>7, <2>8
<1>4. ASSUME NEW p \in Callers, Delete(p) PROVE FlightInv'
  <2> USE <1>4 DEF Delete
  <2>1. TypeOK'
    BY DEF TypeOK
  <2>2. MapKnowsLeaders'
    BY DEF TypeOK, MapKnowsLeaders, RecordsUnshared
  <2>3. MapHasLeaders'
    BY DEF TypeOK, MapHasLeaders
  <2>4. RecordsUnshared' /\ OpenWhileLed' /\ ReturnedFromClosed'
    BY DEF TypeOK, RecordsUnshared, OpenWhileLed, ReturnedFromClosed
  <2>5. WrittenBeforeClosed' /\ AnswersAreComplete'
    BY DEF TypeOK, WrittenBeforeClosed, AnswersAreComplete
  <2>6. WaitersHaveALeader'
    BY DEF TypeOK, WaitersHaveALeader
  <2> QED  BY <2>1, <2>2, <2>3, <2>4, <2>5, <2>6
<1>5. ASSUME NEW p \in Callers, CloseDone(p) PROVE FlightInv'
  <2> USE <1>5 DEF CloseDone, closeDone
  <2>1. TypeOK'
    BY DEF TypeOK
  <2>2. MapKnowsLeaders' /\ MapHasLeaders'
    BY DEF TypeOK, MapKnowsLeaders, MapHasLeaders
  <2>3. RecordsUnshared' /\ OpenWhileLed' /\ ReturnedFromClosed'
    BY DEF TypeOK, RecordsUnshared, OpenWhileLed, ReturnedFromClosed
  <2>4. WrittenBeforeClosed' /\ AnswersAreComplete'
    BY DEF TypeOK, WrittenBeforeClosed, AnswersAreComplete
  <2>5. WaitersHaveALeader'
    BY DEF TypeOK, WaitersHaveALeader
  <2> QED  BY <2>1, <2>2, <2>3, <2>4, <2>5
<1>6. ASSUME NEW p \in Callers, Wait(p) PROVE FlightInv'
  <2> USE <1>6 DEF Wait, isDone
  <2>1. TypeOK'
    BY DEF TypeOK
  <2>2. MapKnowsLeaders' /\ MapHasLeaders'
    BY DEF TypeOK, MapKnowsLeaders, MapHasLeaders
  <2>3. RecordsUnshared' /\ OpenWhileLed' /\ ReturnedFromClosed'
    BY DEF TypeOK, RecordsUnshared, OpenWhileLed, ReturnedFromClosed
  <2>4. WrittenBeforeClosed' /\ AnswersAreComplete'
    BY DEF TypeOK, WrittenBeforeClosed, AnswersAreComplete
  <2>5. WaitersHaveALeader'
    BY DEF TypeOK, WaitersHaveALeader
  <2> QED  BY <2>1, <2>2, <2>3, <2>4, <2>5
<1>7. ASSUME NEW p \in Callers, Return(p) PROVE FlightInv'
  <2> USE <1>7 DEF Return
  <2>1. TypeOK'
    BY DEF TypeOK
  <2>2. MapKnowsLeaders' /\ MapHasLeaders'
    BY DEF TypeOK, MapKnowsLeaders, MapHasLeaders
  <2>3. RecordsUnshared' /\ OpenWhileLed' /\ ReturnedFromClosed'
    BY DEF TypeOK, RecordsUnshared, OpenWhileLed, ReturnedFromClosed
  <2>4. WrittenBeforeClosed' /\ AnswersAreComplete'
    BY DEF TypeOK, WrittenBeforeClosed, AnswersAreComplete
  <2>5. WaitersHaveALeader'
    BY DEF TypeOK, WaitersHaveALeader
  <2> QED  BY <2>1, <2>2, <2>3, <2>4, <2>5
<1> QED  BY <1>1, <1>2, <1>3, <1>4, <1>5, <1>6, <1>7 DEF Next, Step

\* And so does stuttering.
LEMMA FlightStutter ==
    ASSUME FlightInv, UNCHANGED vars
    PROVE  FlightInv'
BY DEF FlightInv, TypeOK, MapKnowsLeaders, MapHasLeaders, RecordsUnshared, OpenWhileLed,
       WrittenBeforeClosed, ReturnedFromClosed, AnswersAreComplete, WaitersHaveALeader,
       leading, inMap, vars

\* Two runs for a key would both be known to the map.
LEMMA InvGivesOneRun == FlightInv => OneRunPerKey
BY DEF FlightInv, OneRunPerKey, MapKnowsLeaders, RecordsUnshared, leading, inMap

\* The invariant always holds.
LEMMA FlightAlways == Spec => []FlightInv
<1>1. FlightInv /\ [Next]_vars => FlightInv'
  BY FlightNext, FlightStutter
<1> QED  BY <1>1, FlightInit, PTL DEF Spec

(***************************************************************************)
(* However many callers, keys and flight records there are, every part of  *)
(* the group keeps its type, and a caller in do has a key and a flight.    *)
(***************************************************************************)
THEOREM FlightTypes == Spec => []TypeOK
BY FlightAlways, PTL DEF FlightInv

(***************************************************************************)
(* do never runs fn twice at once for a key.                               *)
(***************************************************************************)
THEOREM FlightSafety == Spec => []OneRunPerKey
BY FlightAlways, InvGivesOneRun, PTL

(***************************************************************************)
(* do hands every caller the complete result of its own flight, although   *)
(* the record of a flight nobody refers to any more is used again.         *)
(***************************************************************************)
THEOREM AnswerSafety == Spec => []AnswersAreComplete
BY FlightAlways, PTL DEF FlightInv

(***************************************************************************)
(* do leaves no joiner without a leader to wait for.                       *)
(***************************************************************************)
THEOREM WaiterSafety == Spec => []WaitersHaveALeader
BY FlightAlways, PTL DEF FlightInv

-----------------------------------------------------------------------------
(* The calls of a Client.                                                  *)

(***************************************************************************)
(* The invariant.  A caller holds the lock, or waits for it, only in a     *)
(* section of the right kind; it is in do only in Retrieve's last section, *)
(* with the read lock and the key of its own request; and callers of the   *)
(* same flight have the same key.                                          *)
(***************************************************************************)

maintained == {"check", "reload", "renew", "install", "warn", "sweep"}

SectionsTyped ==
    /\ sec \in [Callers -> {"idle"} \cup reads \cup writes]
    /\ last \in [Callers -> {"do", "list", "wake", Nil}]
    /\ mc \in [Callers -> MatchCreds \cup {Nil}]
    /\ \A p \in Callers : sec[p] \in maintained => last[p] \in {"do", "list", "wake"}
    /\ \A p \in Callers : sec[p] \in maintained /\ last[p] = "do" => mc[p] \in MatchCreds
    /\ \A p \in Callers : sec[p] = "do" => mc[p] \in MatchCreds

LockInOrder ==
    /\ active \in SUBSET Callers
    /\ blocked \in SUBSET Callers
    /\ writer \in Callers \cup {Nil}
    /\ active \cap blocked = {}
    /\ \A p \in active \cup blocked : sec[p] \in reads
    /\ writer # Nil => sec[writer] \in writes

FlightsUnderLock ==
    \A p \in Callers : pc[p] # "idle" => sec[p] = "do" /\ p \in active

OwnKeys ==
    \A p \in Callers :
        /\ pc[p] # "idle" => key[p] = matchKey(mc[p])
        /\ f[p] # Nil => pc[p] # "idle"

OneKeyPerFlight ==
    \A p, q \in Callers :
        pc[p] # "idle" /\ pc[q] # "idle" /\ f[p] = f[q] => key[p] = key[q]

CallsInv ==
    /\ FlightInv
    /\ SectionsTyped
    /\ LockInOrder
    /\ FlightsUnderLock
    /\ OwnKeys
    /\ OneKeyPerFlight

\* It holds before the first call.
LEMMA CallsInitInv == CallsInit => CallsInv
<1> SUFFICES ASSUME CallsInit PROVE CallsInv
  OBVIOUS
<1>1. FlightInv
  BY FlightInit DEF CallsInit
<1>2. pc = [p \in Callers |-> "idle"] /\ f = [p \in Callers |-> Nil]
  BY DEF CallsInit, Init
<1>3. SectionsTyped /\ LockInOrder
  BY DEF CallsInit, SectionsTyped, LockInOrder, maintained, reads, writes
<1>4. FlightsUnderLock /\ OwnKeys /\ OneKeyPerFlight
  BY <1>2 DEF FlightsUnderLock, OwnKeys, OneKeyPerFlight
<1> QED  BY <1>1, <1>3, <1>4 DEF CallsInv

-----------------------------------------------------------------------------
(* Sections.                                                               *)

\* A call begins.
LEMMA BeginInv ==
    ASSUME CallsInv, NEW p \in Callers, BeginMaintained(p) \/ BeginSingle(p)
    PROVE  CallsInv'
<1> USE DEF CallsInv
<1>1. UNCHANGED vars /\ UNCHANGED lockVars /\ sec[p] = "idle"
  BY DEF BeginMaintained, BeginSingle
<1>2. FlightInv'
  BY <1>1, FlightStutter
<1>3. PICK l \in {"check", "read", "change"} : sec' = [sec EXCEPT ![p] = l]
  BY DEF BeginMaintained, BeginSingle
<1>4. p \notin active \cup blocked /\ pc[p] = "idle" /\ (writer # Nil => writer # p)
  BY <1>1 DEF LockInOrder, FlightsUnderLock, reads, writes
<1>5. SectionsTyped'
  <2>1. CASE BeginSingle(p)
    BY <2>1 DEF BeginSingle, SectionsTyped, maintained, reads, writes
  <2>2. CASE BeginMaintained(p)
    <3>1. PICK k \in {"do", "list", "wake"} :
             /\ last' = [last EXCEPT ![p] = k]
             /\ mc' = mc \/ \E c \in MatchCreds : mc' = [mc EXCEPT ![p] = c]
             /\ k = "do" => \E c \in MatchCreds : mc' = [mc EXCEPT ![p] = c]
      BY <2>2 DEF BeginMaintained
    <3>2. sec' = [sec EXCEPT ![p] = "check"]
      BY <2>2 DEF BeginMaintained
    <3>3. /\ mc' \in [Callers -> MatchCreds \cup {Nil}]
          /\ \A q \in Callers \ {p} : mc'[q] = mc[q]
          /\ k = "do" => mc'[p] \in MatchCreds
      BY <3>1 DEF SectionsTyped
    <3> QED  BY <3>1, <3>2, <3>3 DEF SectionsTyped, maintained, reads, writes
  <2> QED  BY <2>1, <2>2
<1>6. LockInOrder'
  BY <1>1, <1>3, <1>4 DEF LockInOrder, lockVars, SectionsTyped
<1>7. FlightsUnderLock' /\ OneKeyPerFlight'
  BY <1>1, <1>3, <1>4 DEF FlightsUnderLock, OneKeyPerFlight, SectionsTyped, vars, lockVars
<1>8. OwnKeys'
  <2>1. \A q \in Callers \ {p} : mc'[q] = mc[q]
    BY DEF BeginMaintained, BeginSingle, SectionsTyped
  <2> QED  BY <1>1, <1>4, <2>1 DEF OwnKeys, vars
<1> QED  BY <1>2, <1>5, <1>6, <1>7, <1>8

\* RLock and Lock.
LEMMA EnterInv ==
    ASSUME CallsInv, NEW p \in Callers, EnterRead(p) \/ EnterWrite(p)
    PROVE  CallsInv'
<1> USE DEF CallsInv
<1>1. UNCHANGED <<vars, sec, last, mc>>
  BY DEF EnterRead, EnterWrite
<1>2. FlightInv'
  BY <1>1, FlightStutter
<1>3. SectionsTyped' /\ OwnKeys' /\ OneKeyPerFlight'
  BY <1>1 DEF SectionsTyped, OwnKeys, OneKeyPerFlight, vars
<1>4. LockInOrder' /\ active \subseteq active'
  <2>1. CASE EnterRead(p)
    BY <1>1, <2>1 DEF EnterRead, RLock, LockInOrder
  <2>2. CASE EnterWrite(p)
    BY <1>1, <2>2 DEF EnterWrite, Lock, LockInOrder
  <2> QED  BY <2>1, <2>2
<1>5. FlightsUnderLock'
  BY <1>1, <1>4 DEF FlightsUnderLock, vars
<1> QED  BY <1>2, <1>3, <1>4, <1>5

\* A section ends, and with it what do has returned.
LEMMA LeaveInv ==
    ASSUME CallsInv, NEW p \in Callers, LeaveSection(p) \/ LeaveDo(p)
    PROVE  CallsInv'
<1> USE DEF CallsInv
<1>1. FlightInv'
  <2>1. LeaveDo(p) => Next
    BY DEF LeaveDo, Next, Step
  <2> QED  BY <2>1, FlightNext, FlightStutter DEF LeaveSection
<1>2. /\ Leave(p) /\ pc'[p] = "idle"
      /\ \A q \in Callers \ {p} : pc'[q] = pc[q] /\ f'[q] = f[q] /\ key'[q] = key[q]
      /\ f'[p] = Nil
  BY DEF LeaveSection, LeaveDo, Return, vars, FlightInv, TypeOK, OwnKeys
<1>3. PICK l \in follows(p) :
         /\ sec' = [sec EXCEPT ![p] = l]
         /\ last' = [last EXCEPT ![p] = IF l = "idle" THEN Nil ELSE last[p]]
         /\ mc' = [mc EXCEPT ![p] = IF l = "idle" THEN Nil ELSE mc[p]]
  BY <1>2 DEF Leave, SectionsTyped
<1>4. /\ l \in {"idle"} \cup reads \cup writes
      /\ l # "idle" => sec[p] \in maintained
      /\ l \notin maintained \cup {"idle"} => l = last[p]
  BY DEF follows, SectionsTyped, maintained, reads, writes
<1>5. SectionsTyped'
  <2>1. sec' \in [Callers -> {"idle"} \cup reads \cup writes]
    BY <1>3, <1>4 DEF SectionsTyped
  <2>2. /\ last' \in [Callers -> {"do", "list", "wake", Nil}]
        /\ mc' \in [Callers -> MatchCreds \cup {Nil}]
    BY <1>3 DEF SectionsTyped
  <2>3. sec'[p] = l /\ (l # "idle" => last'[p] = last[p] /\ mc'[p] = mc[p])
    BY <1>3 DEF SectionsTyped
  <2>4. \A q \in Callers \ {p} : sec'[q] = sec[q] /\ last'[q] = last[q] /\ mc'[q] = mc[q]
    BY <1>3 DEF SectionsTyped
  <2>5. l = "do" => last[p] = "do" /\ sec[p] \in maintained
    BY <1>4 DEF maintained
  <2>6. "idle" \notin maintained
    BY DEF maintained
  <2> QED  BY <1>4, <2>1, <2>2, <2>3, <2>4, <2>5, <2>6 DEF SectionsTyped
<1>6. LockInOrder' /\ active \ {p} \subseteq active'
  <2>1. CASE sec[p] \in reads
    <3>1. p \in active /\ active' = active \ {p} /\ UNCHANGED <<blocked, writer>>
      BY <1>2, <2>1 DEF Leave, RUnlock
    <3>2. writer # p
      BY <2>1, CallsAssumption DEF LockInOrder, reads, writes, CallsAssumption
    <3> QED  BY <1>3, <3>1, <3>2 DEF LockInOrder, SectionsTyped
  <2>2. CASE sec[p] \notin reads
    <3>1. active = {} /\ active' = blocked /\ blocked' = {} /\ writer' = Nil
      BY <1>2, <2>2 DEF Leave, Unlock, writing
    <3>2. p \notin blocked
      BY <2>2 DEF LockInOrder
    <3> QED  BY <1>3, <3>1, <3>2 DEF LockInOrder, SectionsTyped
  <2> QED  BY <2>1, <2>2
<1>7. FlightsUnderLock'
  BY <1>2, <1>3, <1>6 DEF FlightsUnderLock, SectionsTyped
<1>8. OwnKeys' /\ OneKeyPerFlight'
  BY <1>2, <1>3 DEF OwnKeys, OneKeyPerFlight, SectionsTyped
<1> QED  BY <1>1, <1>5, <1>6, <1>7, <1>8

-----------------------------------------------------------------------------
(* Flights.                                                                *)

\* do is called with the key of the request's match-credential.
LEMMA KeyOfRequest ==
    ASSUME CallsInv, NEW p \in Callers, sec[p] = "do"
    PROVE  matchKey(mc[p]) \in Keys
<1>1. mc[p] \in MatchCreds
  BY DEF CallsInv, SectionsTyped
<1> QED  BY <1>1, CallsAssumption, Zenon DEF CallsAssumption

\* A step of do.
LEMMA DoInv ==
    ASSUME CallsInv, NEW p \in Callers, Do(p)
    PROVE  CallsInv' /\ Next
<1> USE DEF CallsInv
<1>0. UNCHANGED <<sec, last, mc, lockVars>>
  BY DEF Do
<1>1. SectionsTyped' /\ LockInOrder'
  BY <1>0 DEF SectionsTyped, LockInOrder, lockVars
<1>2. ASSUME NEW k \in Keys, k = matchKey(mc[p]), mayFly(p), Join(p, k) \/ Start(p, k)
      PROVE  CallsInv' /\ Next
  <2>1. Next
    BY <1>2 DEF Next
  <2>2. FlightInv'
    BY <2>1, FlightNext
  <2>3. /\ pc[p] = "idle" /\ pc'[p] # "idle" /\ key'[p] = k
        /\ \A q \in Callers \ {p} : pc'[q] = pc[q] /\ f'[q] = f[q] /\ key'[q] = key[q]
    BY <1>2 DEF Join, Start, FlightInv, TypeOK
  <2>4. sec[p] = "do" /\ p \in active
    BY <1>2 DEF mayFly
  <2>5. FlightsUnderLock'
    BY <1>0, <2>3, <2>4 DEF FlightsUnderLock, lockVars
  <2>6. OwnKeys'
    BY <1>0, <1>2, <2>3 DEF OwnKeys
  <2>7. ASSUME NEW q \in Callers \ {p}, pc[q] # "idle", f'[q] = f'[p] PROVE key'[q] = k
    <3>1. CASE Join(p, k)
      <4>1. f'[p] = m[k] /\ m[k] # Nil
        BY <3>1 DEF Join, inFlight, FlightInv, TypeOK
      <4>2. PICK r \in Callers : pc[r] \in inMap /\ key[r] = k /\ f[r] = m[k]
        BY <4>1 DEF FlightInv, MapHasLeaders
      <4> QED  BY <2>3, <2>7, <4>1, <4>2 DEF OneKeyPerFlight, inMap
    <3>2. CASE Start(p, k)
      <4>1. PICK x \in unused : f' = [f EXCEPT ![p] = x]
        BY <3>2 DEF Start
      <4>2. f'[p] = x /\ f[q] # x
        BY <4>1 DEF unused, FlightInv, TypeOK
      <4> QED  BY <2>3, <2>7, <4>2
    <3> QED  BY <1>2, <3>1, <3>2
  <2>8. OneKeyPerFlight'
    BY <2>3, <2>7 DEF OneKeyPerFlight
  <2> QED  BY <1>1, <2>1, <2>2, <2>5, <2>6, <2>8
<1>3. CASE Run(p) \/ Delete(p) \/ CloseDone(p) \/ Wait(p)
  <2>1. Next
    BY <1>3 DEF Next, Step
  <2>2. FlightInv'
    BY <2>1, FlightNext
  <2>3. UNCHANGED <<key, f>> /\ pc[p] # "idle" /\ \A q \in Callers \ {p} : pc'[q] = pc[q]
    BY <1>3 DEF Run, Delete, CloseDone, Wait, FlightInv, TypeOK
  <2>4. pc'[p] # "idle"
    BY <1>3 DEF Run, Delete, CloseDone, Wait, FlightInv, TypeOK
  <2>5. FlightsUnderLock' /\ OwnKeys' /\ OneKeyPerFlight'
    BY <1>0, <2>3, <2>4 DEF FlightsUnderLock, OwnKeys, OneKeyPerFlight, lockVars
  <2> QED  BY <1>1, <2>1, <2>2, <2>5
<1>4. CASE mayFly(p) /\ (Join(p, matchKey(mc[p])) \/ Start(p, matchKey(mc[p])))
  <2>1. matchKey(mc[p]) \in Keys
    BY <1>4, KeyOfRequest DEF mayFly
  <2> QED  BY <1>2, <1>4, <2>1
<1> QED  BY <1>3, <1>4 DEF Do

-----------------------------------------------------------------------------
(* Keys.                                                                   *)

(***************************************************************************)
(* Names never contain a NUL, however long they are: escape leaves none,   *)
(* and joining strings adds none.  So the first NUL of a key ends the      *)
(* client's name and the second one, if there is one, the server's; and    *)
(* what follows a later NUL says which of the optional fields it is.       *)
(* FlattenSeq is a recursive function: what it returns is shown by the     *)
(* least number for which it would not.                                    *)
(***************************************************************************)

\* A set of numbers has a least element...
LEMMA Least == \A T \in SUBSET Nat : T # {} => \E x \in T : \A y \in T : x <= y
<1> DEFINE R == OpToRel(<, Nat)
<1>1. IsWellFoundedOn(R, Nat)
  BY NatLessThanWellFounded
<1>2. \A a, b \in Nat : a < b => <<a, b>> \in R
  BY DEF OpToRel
<1> HIDE DEF R
<1> SUFFICES ASSUME NEW T \in SUBSET Nat, T # {} PROVE \E x \in T : \A y \in T : x <= y
  OBVIOUS
<1>3. PICK x \in T : \A y \in T : ~(<<y, x>> \in R)
  BY <1>1, WFMin
<1>4. \A y \in T : ~(y < x)
  BY <1>2, <1>3
<1>5. \A y \in T : x <= y
  BY <1>4
<1> QED BY <1>5

\* ... which is how a number is reached step by step.
LEMMA Upward ==
    \A n \in Nat : \A G \in SUBSET Nat :
        0 \in G /\ (\A k \in Nat : k < n /\ k \in G => k+1 \in G) => n \in G
<1> SUFFICES ASSUME NEW n \in Nat, NEW G \in SUBSET Nat, 0 \in G,
                    \A k \in Nat : k < n /\ k \in G => k+1 \in G, n \notin G
             PROVE  FALSE
  OBVIOUS
<1> DEFINE B == {k \in Nat : k <= n /\ k \notin G}
<1>0. B \in SUBSET Nat /\ B # {}
  OBVIOUS
<1>1. PICK x \in B : \A y \in B : x <= y
  <2> HIDE DEF B
  <2> QED BY <1>0, Least
<1>2. x \in Nat /\ x # 0 /\ x <= n /\ x \notin G
  BY <1>1
<1>3. x - 1 \in Nat /\ x - 1 < n /\ x - 1 \notin B /\ (x - 1) + 1 = x
  BY <1>1, <1>2
<1>4. x - 1 \in G
  BY <1>3
<1> QED BY <1>2, <1>3, <1>4

\* g joins the first n of the strings ss, as FlattenSeq does.
flat(ss, g, n) == \A i \in 1..n : g[i] = IF i = 1 THEN ss[i] ELSE g[i-1] \o ss[i]

\* What is joined from strings over S is a string over S.
LEMMA Flatten ==
    ASSUME NEW S, NEW ss \in Seq(Seq(S))
    PROVE  FlattenSeq(ss) \in Seq(S)
<1> DEFINE n == Len(ss)
           G == {k \in Nat : k <= n => \E g \in [1..k -> Seq(S)] : flat(ss, g, k)}
<1>0. n \in Nat /\ \A i \in 1..n : ss[i] \in Seq(S)
  OBVIOUS
<1>1. 0 \in G
  <2>1. [i \in 1..0 |-> <<>>] \in [1..0 -> Seq(S)]
    OBVIOUS
  <2>2. \A g : flat(ss, g, 0)
    BY DEF flat
  <2> QED BY <1>0, <2>1, <2>2
<1>2. ASSUME NEW k \in Nat, k < n, k \in G PROVE k+1 \in G
  <2>1. PICK g \in [1..k -> Seq(S)] : flat(ss, g, k)
    BY <1>0, <1>2
  <2>2. PICK e \in Seq(S) : e = IF k = 0 THEN ss[k+1] ELSE g[k] \o ss[k+1]
    <3>1. CASE k = 0
      BY <1>0, <1>2, <3>1
    <3>2. CASE k # 0
      <4>1. g[k] \in Seq(S) /\ ss[k+1] \in Seq(S)
        BY <1>0, <1>2, <2>1, <3>2
      <4>2. g[k] \o ss[k+1] \in Seq(S)
        BY <4>1
      <4> QED BY <3>2, <4>2
    <3> QED BY <3>1, <3>2
  <2> DEFINE h == [i \in 1..k+1 |-> IF i = k+1 THEN e ELSE g[i]]
  <2>3. h \in [1..k+1 -> Seq(S)]
    BY <2>1, <2>2
  <2>4. flat(ss, h, k+1)
    <3> SUFFICES ASSUME NEW i \in 1..k+1
                 PROVE  h[i] = IF i = 1 THEN ss[i] ELSE h[i-1] \o ss[i]
      BY DEF flat
    <3>1. CASE i = k+1
      <4>1. h[i] = e /\ (i # 1 => h[i-1] = g[k])
        BY <1>2, <3>1
      <4> HIDE DEF h
      <4> QED BY <1>2, <2>2, <3>1, <4>1
    <3>2. CASE i # k+1
      <4>1. i \in 1..k /\ h[i] = g[i] /\ (i # 1 => h[i-1] = g[i-1])
        BY <1>2, <3>2
      <4> HIDE DEF h
      <4> QED BY <2>1, <4>1 DEF flat
    <3> QED BY <3>1, <3>2
  <2> HIDE DEF h
  <2>5. k+1 \in Nat /\ \E j \in [1..k+1 -> Seq(S)] : flat(ss, j, k+1)
    BY <2>3, <2>4
  <2> QED BY <2>5
<1>3. n \in G
  <2>1. G \in SUBSET Nat
    OBVIOUS
  <2>2. \A k \in Nat : k < n /\ k \in G => k+1 \in G
    BY <1>2
  <2> HIDE DEF G, n
  <2> QED BY <1>0, <1>1, <2>1, <2>2, Upward
<1>4. PICK g \in [1..n -> Seq(S)] : flat(ss, g, n)
  BY <1>0, <1>3
<1>5. g = [i \in 1..n |-> IF i = 1 THEN ss[i] ELSE g[i-1] \o ss[i]]
  BY <1>4 DEF flat
<1> DEFINE F == CHOOSE h : h = [i \in 1..n |-> IF i = 1 THEN ss[i] ELSE h[i-1] \o ss[i]]
<1>6. F = [i \in 1..n |-> IF i = 1 THEN ss[i] ELSE F[i-1] \o ss[i]]
  BY <1>5, Zenon
<1>7. CASE n = 0
  BY <1>7, SMT DEF FlattenSeq
<1>8. CASE n # 0
  <2>1. FlattenSeq(ss) = F[n]
    BY <1>8, Zenon DEF FlattenSeq
  <2> HIDE DEF F
  <2> DEFINE H == {k \in Nat : k = 0 \/ F[k] \in Seq(S)}
  <2>2. ASSUME NEW k \in Nat, k < n, k \in H PROVE k+1 \in H
    <3>0. k+1 \in 1..n /\ (k # 0 => (k+1)-1 = k /\ k+1 # 1)
      BY <1>0, <2>2
    <3>1. F[k+1] = IF k+1 = 1 THEN ss[k+1] ELSE F[(k+1)-1] \o ss[k+1]
      BY <1>6, <3>0
    <3>2. F[k+1] \in Seq(S)
      <4>1. CASE k = 0
        BY <1>0, <3>0, <3>1, <4>1
      <4>2. CASE k # 0
        <5>1. F[k+1] = F[k] \o ss[k+1] /\ F[k] \in Seq(S) /\ ss[k+1] \in Seq(S)
          BY <1>0, <2>2, <3>0, <3>1, <4>2
        <5> QED BY <5>1
      <4> QED BY <4>1, <4>2
    <3> QED BY <3>2
  <2>3. n \in H
    <3>1. 0 \in H /\ H \in SUBSET Nat
      OBVIOUS
    <3>2. \A k \in Nat : k < n /\ k \in H => k+1 \in H
      BY <2>2
    <3> HIDE DEF H, n
    <3> QED BY <1>0, <3>1, <3>2, Upward
  <2> QED BY <1>8, <2>1, <2>3
<1> QED BY <1>7, <1>8

text == Symbols \ {"NUL"}

LEMMA TextSeq ==
    /\ \A x \in Symbols : x \in text <=> x # "NUL"
    /\ <<>> \in Seq(text)
    /\ \A x \in text : <<x>> \in Seq(text)
    /\ \A x, y \in text : <<x, y>> \in Seq(text)
<1>1. \A x \in Symbols : x \in text <=> x # "NUL"
  BY DEF text
<1> QED  BY <1>1

\* escapeComponent leaves no NUL.
LEMMA EscapedText == \A s \in Seq(Symbols) : escapeComponent(s) \in Seq(text)
<1> SUFFICES ASSUME NEW s \in Seq(Symbols) PROVE escapeComponent(s) \in Seq(text)
  OBVIOUS
<1>1. ASSUME NEW ch \in Symbols PROVE escape(ch) \in Seq(text)
  <2>1. {"\\", "/", "@", "t", "n", "b", "0"} \subseteq text
    BY CallsAssumption, TextSeq DEF CallsAssumption
  <2>2. \/ ch # "NUL" /\ escape(ch) \in {<<"\\", ch>>, <<ch>>}
        \/ \E x \in {"t", "n", "b", "0"} : escape(ch) = <<"\\", x>>
    BY DEF escape
  <2> QED  BY <2>1, <2>2, TextSeq
<1> DEFINE ss == [i \in DOMAIN s |-> escape(s[i])]
<1>2. ss \in Seq(Seq(text))
  <2>1. DOMAIN s = 1..Len(s) /\ Len(s) \in Nat /\ \A i \in 1..Len(s) : s[i] \in Symbols
    OBVIOUS
  <2>2. ss \in [1..Len(s) -> Seq(text)]
    BY <1>1, <2>1
  <2> HIDE DEF ss
  <2> QED  BY <2>1, <2>2
<1>3. FlattenSeq(ss) \in Seq(text)
  <2> HIDE DEF ss
  <2> QED  BY <1>2, Flatten
<1> QED  BY <1>3, Zenon DEF escapeComponent

\* UnparseName gives none either, nor does an absent name.
LEMMA NameText == \A p \in Principal \cup {Nil} : nameKey(p) \in Seq(text)
<1>0. <<>> \in Seq(text) /\ <<"/">> \in Seq(text) /\ <<"@">> \in Seq(text)
  BY CallsAssumption, TextSeq DEF CallsAssumption
<1>1. ASSUME NEW p \in Principal PROVE UnparseName(p) \in Seq(text)
  <2>1. p.comps \in Seq(Seq(Symbols)) /\ p.realm \in Seq(Symbols)
    BY DEF Principal
  <2> DEFINE ss == [i \in DOMAIN p.comps |->
                      (IF i > 1 THEN <<"/">> ELSE <<>>) \o escapeComponent(p.comps[i])]
             r == IF p.realm = <<>> THEN <<>> ELSE <<"@">> \o escapeComponent(p.realm)
  <2>2. \A i \in DOMAIN p.comps :
           (IF i > 1 THEN <<"/">> ELSE <<>>) \o escapeComponent(p.comps[i]) \in Seq(text)
    <3> SUFFICES ASSUME NEW i \in DOMAIN p.comps
                 PROVE  (IF i > 1 THEN <<"/">> ELSE <<>>) \o escapeComponent(p.comps[i]) \in Seq(text)
      OBVIOUS
    <3>1. p.comps[i] \in Seq(Symbols)
      BY <2>1
    <3>2. escapeComponent(p.comps[i]) \in Seq(text)
      BY <3>1, EscapedText
    <3> QED  BY <1>0, <3>2
  <2>3. ss \in Seq(Seq(text))
    <3>1. DOMAIN p.comps = 1..Len(p.comps) /\ Len(p.comps) \in Nat
      BY <2>1
    <3>2. ss \in [1..Len(p.comps) -> Seq(text)]
      BY <2>2, <3>1
    <3> HIDE DEF ss
    <3> QED  BY <3>1, <3>2
  <2>4. FlattenSeq(ss) \in Seq(text)
    <3> HIDE DEF ss
    <3> QED  BY <2>3, Flatten
  <2>5. r \in Seq(text)
    <3>1. escapeComponent(p.realm) \in Seq(text)
      BY <2>1, EscapedText
    <3> QED  BY <1>0, <3>1
  <2>6. UnparseName(p) = FlattenSeq(ss) \o r
    BY Zenon DEF UnparseName
  <2> HIDE DEF ss, r
  <2> QED  BY <2>4, <2>5, <2>6
<1> QED  BY <1>0, <1>1 DEF nameKey

\* Nothing, or a NUL and more.
opens(t) == t = <<>> \/ t[1] = "NUL"

\* The text before the first NUL can be told from what follows.
LEMMA TextEnds ==
    ASSUME NEW a \in Seq(text), NEW b \in Seq(text), NEW x \in Seq(Symbols), NEW y \in Seq(Symbols),
           opens(x), opens(y), a \o x = b \o y
    PROVE  a = b /\ x = y
<1>1. a \in Seq(Symbols) /\ b \in Seq(Symbols) /\ Len(a) \in Nat /\ Len(b) \in Nat
  BY DEF text
<1>2. \A i \in 1..Len(a) : a[i] # "NUL" /\ (a \o x)[i] = a[i]
  BY <1>1 DEF text
<1>3. \A i \in 1..Len(b) : b[i] # "NUL" /\ (b \o y)[i] = b[i]
  BY <1>1 DEF text
<1>4. Len(a) + Len(x) = Len(b) + Len(y) /\ Len(x) \in Nat /\ Len(y) \in Nat
  <2>1. Len(a \o x) = Len(a) + Len(x) /\ Len(b \o y) = Len(b) + Len(y)
    BY <1>1
  <2> QED  BY <2>1
<1>5. Len(x) # 0 => (a \o x)[Len(a) + 1] = "NUL"
  <2>1. Len(x) # 0 => x[1] = "NUL" /\ (a \o x)[Len(a) + 1] = x[1]
    BY <1>1 DEF opens
  <2> QED  BY <2>1
<1>6. Len(y) # 0 => (b \o y)[Len(b) + 1] = "NUL"
  <2>1. Len(y) # 0 => y[1] = "NUL" /\ (b \o y)[Len(b) + 1] = y[1]
    BY <1>1 DEF opens
  <2> QED  BY <2>1
<1>7. Len(a) = Len(b)
  <2>1. CASE Len(a) < Len(b)
    <3>1. Len(x) # 0 /\ Len(a) + 1 \in 1..Len(b)
      BY <1>1, <1>4, <2>1
    <3> QED  BY <1>3, <1>5, <3>1
  <2>2. CASE Len(b) < Len(a)
    <3>1. Len(y) # 0 /\ Len(b) + 1 \in 1..Len(a)
      BY <1>1, <1>4, <2>2
    <3> QED  BY <1>2, <1>6, <3>1
  <2> QED  BY <1>1, <2>1, <2>2
<1>8. a = b
  BY <1>1, <1>2, <1>3, <1>7, SeqEqual
<1> QED  BY <1>1, <1>8, ConcatSimplifications

\* The optional fields of a key.
enctypeKey(c) == IF c.enctype = Nil THEN <<>> ELSE <<"NUL", "enctype=", c.enctype>>
skeyKey(c) == IF c.isSKey THEN <<"NUL", "skey">> ELSE <<>>
secondKey(c) == IF c.second \in {Nil, <<>>} THEN <<>> ELSE <<"NUL", "second=">> \o c.second

\* Two keys with the same optional fields in a row have each of them in common:
\* the word after the NUL says which field it is.
LEMMA FieldsApart ==
    ASSUME NEW c \in MatchCredential, NEW d \in MatchCredential,
           enctypeKey(c) \o (skeyKey(c) \o secondKey(c)) = enctypeKey(d) \o (skeyKey(d) \o secondKey(d))
    PROVE  /\ enctypeKey(c) = enctypeKey(d) /\ skeyKey(c) = skeyKey(d) /\ secondKey(c) = secondKey(d)
<1> DEFINE S == Seq(Symbols)
           tag(t, w) == Len(t) >= 2 /\ t[2] = w
<1>0. {"NUL", "enctype=", "skey", "second="} \subseteq Symbols
  BY CallsAssumption DEF CallsAssumption
<1>1. \A x \in MatchCredential :
         /\ secondKey(x) \in S
         /\ secondKey(x) = <<>> \/ tag(secondKey(x), "second=")
  <2> SUFFICES ASSUME NEW x \in MatchCredential
               PROVE  secondKey(x) \in S /\ (secondKey(x) = <<>> \/ tag(secondKey(x), "second="))
    OBVIOUS
  <2>1. CASE x.second \in {Nil, <<>>}
    BY <2>1 DEF secondKey
  <2>2. CASE x.second \notin {Nil, <<>>}
    <3>1. x.second \in S /\ <<"NUL", "second=">> \in S
      BY <1>0, <2>2 DEF MatchCredential
    <3> QED  BY <2>2, <3>1 DEF secondKey
  <2> QED  BY <2>1, <2>2
<1>2. \A x \in MatchCredential :
         /\ skeyKey(x) \in S
         /\ skeyKey(x) \in {<<>>, <<"NUL", "skey">>}
  BY <1>0 DEF skeyKey
<1>3. \A x \in MatchCredential :
         /\ enctypeKey(x) \in S
         /\ enctypeKey(x) = <<>> \/ (Len(enctypeKey(x)) = 3 /\ enctypeKey(x)[1] = "NUL" /\ tag(enctypeKey(x), "enctype="))
  BY <1>0 DEF enctypeKey, MatchCredential
<1>4. \A x \in MatchCredential :
         LET t == skeyKey(x) \o secondKey(x)
         IN  /\ t \in S
             /\ skeyKey(x) = <<>> => t = <<>> \/ tag(t, "second=")
             /\ skeyKey(x) # <<>> => tag(t, "skey")
  <2> SUFFICES ASSUME NEW x \in MatchCredential, NEW k \in S, NEW z \in S,
                      k \in {<<>>, <<"NUL", "skey">>}, z = <<>> \/ tag(z, "second=")
               PROVE  /\ k \o z \in S
                      /\ k = <<>> => k \o z = <<>> \/ tag(k \o z, "second=")
                      /\ k # <<>> => tag(k \o z, "skey")
    BY <1>1, <1>2
  <2> QED  OBVIOUS
<1>5. \A x \in MatchCredential :
         LET t == skeyKey(x) \o secondKey(x)
         IN  /\ enctypeKey(x) = <<>> => enctypeKey(x) \o t = t
             /\ enctypeKey(x) # <<>> => tag(enctypeKey(x) \o t, "enctype=")
  <2> SUFFICES ASSUME NEW x \in MatchCredential, NEW e \in S, NEW t \in S,
                      e = <<>> \/ tag(e, "enctype=")
               PROVE  (e = <<>> => e \o t = t) /\ (e # <<>> => tag(e \o t, "enctype="))
    BY <1>3, <1>4
  <2> QED  OBVIOUS
<1> DEFINE rest(x) == skeyKey(x) \o secondKey(x)
<1>6. enctypeKey(c) = <<>> <=> enctypeKey(d) = <<>>
  <2>1. \A x \in {c, d} : ~tag(rest(x), "enctype=")
    <3>1. \A t : t = <<>> \/ tag(t, "second=") \/ tag(t, "skey") => ~tag(t, "enctype=")
      OBVIOUS
    <3> HIDE DEF tag
    <3> QED  BY <1>4, <3>1
  <2> HIDE DEF tag
  <2> QED  BY <1>5, <2>1
<1>7. enctypeKey(c) = enctypeKey(d)
  <2> SUFFICES ASSUME enctypeKey(c) # <<>>, enctypeKey(d) # <<>>
               PROVE  enctypeKey(c) = enctypeKey(d)
    BY <1>6
  <2>1. \A x \in {c, d} : enctypeKey(x) = <<"NUL", "enctype=", x.enctype>>
    BY DEF enctypeKey
  <2>2. ASSUME NEW e \in Seq(Symbols), NEW t \in Seq(Symbols), Len(e) = 3 PROVE (e \o t)[3] = e[3]
    <3>1. Len(e) \in Nat /\ Len(t) \in Nat /\ 3 \in 1..(Len(e) + Len(t)) /\ 3 <= Len(e)
      BY <2>2
    <3> QED  BY <3>1, ConcatProperties
  <2>3. \A x \in {c, d} : (enctypeKey(x) \o rest(x))[3] = enctypeKey(x)[3]
    BY <1>3, <1>4, <2>2
  <2>4. \A x \in {c, d} : enctypeKey(x)[3] = x.enctype
    BY <2>1
  <2>5. c.enctype = d.enctype
    BY <2>3, <2>4
  <2> QED  BY <2>1, <2>5
<1>8. rest(c) = rest(d)
  <2>1. enctypeKey(c) \o rest(c) = enctypeKey(c) \o rest(d)
    BY <1>7
  <2>2. rest(c) \in Seq(Symbols) /\ rest(d) \in Seq(Symbols) /\ enctypeKey(c) \in Seq(Symbols)
    BY <1>3, <1>4
  <2> HIDE DEF rest
  <2> QED  BY <2>1, <2>2, ConcatSimplifications
<1>9. skeyKey(c) = skeyKey(d)
  <2>1. \A t : t = <<>> \/ tag(t, "second=") => ~tag(t, "skey")
    OBVIOUS
  <2>2. skeyKey(c) = <<>> <=> skeyKey(d) = <<>>
    <3> HIDE DEF tag
    <3> QED  BY <1>4, <1>8, <2>1
  <2> QED  BY <1>2, <2>2
<1>10. secondKey(c) = secondKey(d)
  <2>1. skeyKey(c) \o secondKey(c) = skeyKey(c) \o secondKey(d)
    BY <1>8, <1>9
  <2> QED  BY <1>1, <1>2, <2>1, ConcatSimplifications
<1> QED  BY <1>7, <1>9, <1>10

\* So match-credentials with the same key have the same names and fields.
LEMMA KeyFields ==
    ASSUME NEW c \in MatchCredential, NEW d \in MatchCredential, matchKey(c) = matchKey(d)
    PROVE  /\ nameKey(c.client) = nameKey(d.client) /\ nameKey(c.server) = nameKey(d.server)
           /\ enctypeKey(c) = enctypeKey(d) /\ skeyKey(c) = skeyKey(d) /\ secondKey(c) = secondKey(d)
<1> DEFINE fields(x) == enctypeKey(x) \o (skeyKey(x) \o secondKey(x))
           tail(x) == <<"NUL">> \o (nameKey(x.server) \o fields(x))
<1>0. {"NUL", "enctype=", "skey", "second="} \subseteq Symbols
  BY CallsAssumption DEF CallsAssumption
<1>1. \A x \in MatchCredential : matchKey(x) = nameKey(x.client) \o tail(x)
  BY Zenon DEF matchKey, enctypeKey, skeyKey, secondKey
<1>2. \A x \in MatchCredential : nameKey(x.client) \in Seq(text) /\ nameKey(x.server) \in Seq(text)
  <2>1. \A x \in MatchCredential : x.client \in Principal \cup {Nil} /\ x.server \in Principal \cup {Nil}
    BY DEF MatchCredential
  <2> QED  BY <2>1, NameText
<1>3. \A x \in MatchCredential : fields(x) \in Seq(Symbols) /\ opens(fields(x))
  <2> SUFFICES ASSUME NEW x \in MatchCredential PROVE fields(x) \in Seq(Symbols) /\ opens(fields(x))
    OBVIOUS
  <2> DEFINE S == Seq(Symbols)
  <2>1. \A s, t \in S : opens(s) /\ opens(t) => s \o t \in S /\ opens(s \o t)
    BY DEF opens
  <2>2. enctypeKey(x) \in S /\ opens(enctypeKey(x))
    BY <1>0 DEF enctypeKey, opens, MatchCredential
  <2>3. skeyKey(x) \in S /\ opens(skeyKey(x))
    BY <1>0 DEF skeyKey, opens
  <2>4. secondKey(x) \in S /\ opens(secondKey(x))
    <3>1. CASE x.second \in {Nil, <<>>}
      BY <3>1 DEF secondKey, opens
    <3>2. CASE x.second \notin {Nil, <<>>}
      <4>1. x.second \in S /\ <<"NUL", "second=">> \in S
        BY <1>0, <3>2 DEF MatchCredential
      <4> QED  BY <3>2, <4>1 DEF secondKey, opens
    <3> QED  BY <3>1, <3>2
  <2> HIDE DEF S
  <2>5. fields(x) \in S /\ opens(fields(x))
    BY <2>1, <2>2, <2>3, <2>4
  <2> QED  BY <2>5 DEF S
<1> HIDE DEF fields
<1>4. \A x \in MatchCredential :
         /\ nameKey(x.server) \o fields(x) \in Seq(Symbols)
         /\ tail(x) \in Seq(Symbols) /\ opens(tail(x))
  <2>1. \A t \in Seq(text) : t \in Seq(Symbols)
    BY DEF text
  <2>2. \A x \in MatchCredential : nameKey(x.server) \o fields(x) \in Seq(Symbols)
    BY <1>2, <1>3, <2>1
  <2>3. \A t \in Seq(Symbols) : <<"NUL">> \o t \in Seq(Symbols) /\ (<<"NUL">> \o t)[1] = "NUL"
    BY <1>0
  <2> QED  BY <2>2, <2>3 DEF opens
<1>5. nameKey(c.client) = nameKey(d.client) /\ tail(c) = tail(d)
  <2> HIDE DEF tail
  <2> QED  BY <1>1, <1>2, <1>4, TextEnds
<1>6. nameKey(c.server) \o fields(c) = nameKey(d.server) \o fields(d)
  <2>1. <<"NUL">> \in Seq(Symbols)
    BY <1>0
  <2>2. \A s, t \in Seq(Symbols) : <<"NUL">> \o s = <<"NUL">> \o t => s = t
    BY <2>1, ConcatSimplifications
  <2> QED  BY <1>4, <1>5, <2>2
<1>7. nameKey(c.server) = nameKey(d.server) /\ fields(c) = fields(d)
  BY <1>2, <1>3, <1>6, TextEnds
<1> QED  BY <1>5, <1>7, FieldsApart DEF fields

\* And, unless one of them names nobody, the same template.
LEMMA KeyTemplate ==
    ASSUME NEW c \in MatchCredential, NEW d \in MatchCredential, matchKey(c) = matchKey(d),
           ~namesNobody(c), ~namesNobody(d)
    PROVE  buildMatchTemplate(c) = buildMatchTemplate(d)
<1>1. /\ c.client = Nil <=> nameKey(c.client) = <<>>
      /\ c.server = Nil <=> nameKey(c.server) = <<>>
      /\ d.client = Nil <=> nameKey(d.client) = <<>>
      /\ d.server = Nil <=> nameKey(d.server) = <<>>
  BY DEF namesNobody, nameKey
<1>2. /\ c.client = Nil <=> d.client = Nil
      /\ c.server = Nil <=> d.server = Nil
  BY <1>1, KeyFields
<1>3. /\ c.client # Nil => buildPrincipal(c.client) = buildPrincipal(d.client)
      /\ c.server # Nil => buildPrincipal(c.server) = buildPrincipal(d.server)
  <2>1. /\ c.client # Nil => UnparseName(c.client) = UnparseName(d.client)
        /\ c.server # Nil => UnparseName(c.server) = UnparseName(d.server)
    BY <1>2, KeyFields DEF nameKey
  <2> QED  BY <2>1, Zenon DEF buildPrincipal
<1>4. c.enctype = d.enctype
  <2>1. enctypeKey(c) = enctypeKey(d)
    BY KeyFields
  <2>2. \A x : <<"NUL", "enctype=", x>> # <<>> /\ <<"NUL", "enctype=", x>>[3] = x
    OBVIOUS
  <2> QED  BY <2>1, <2>2 DEF enctypeKey
<1>5. c.isSKey = d.isSKey
  <2>1. skeyKey(c) = skeyKey(d) /\ c.isSKey \in BOOLEAN /\ d.isSKey \in BOOLEAN
    BY KeyFields DEF MatchCredential
  <2>2. <<"NUL", "skey">> # <<>>
    OBVIOUS
  <2> QED  BY <2>1, <2>2 DEF skeyKey
<1>6. (IF c.second = <<>> THEN Nil ELSE c.second) = (IF d.second = <<>> THEN Nil ELSE d.second)
  <2>1. secondKey(c) = secondKey(d)
    BY KeyFields
  <2>2. \A x \in {c, d} : x.second \notin {Nil, <<>>} => x.second \in Seq(Symbols)
    BY DEF MatchCredential
  <2>3. <<"NUL", "second=">> \in Seq(Symbols)
    BY CallsAssumption DEF CallsAssumption
  <2>4. \A s \in Seq(Symbols) : <<"NUL", "second=">> \o s # <<>>
    BY <2>3
  <2>5. \A s, t \in Seq(Symbols) : <<"NUL", "second=">> \o s = <<"NUL", "second=">> \o t => s = t
    BY <2>3, ConcatSimplifications
  <2>6. CASE c.second \in {Nil, <<>>} \/ d.second \in {Nil, <<>>}
    BY <2>1, <2>2, <2>4, <2>6 DEF secondKey
  <2>7. CASE c.second \notin {Nil, <<>>} /\ d.second \notin {Nil, <<>>}
    BY <2>1, <2>2, <2>5, <2>7 DEF secondKey
  <2> QED  BY <2>6, <2>7
<1> QED  BY <1>2, <1>3, <1>4, <1>5, <1>6 DEF buildMatchTemplate

-----------------------------------------------------------------------------
(* The whole.                                                              *)

\* Every step preserves the invariant.
LEMMA CallsNextInv ==
    ASSUME CallsInv, [CallsNext]_callVars
    PROVE  CallsInv'
<1>1. CASE UNCHANGED callVars
  <2>1. FlightInv'
    BY <1>1, FlightStutter DEF CallsInv, callVars
  <2> QED
    BY <1>1, <2>1 DEF CallsInv, callVars, lockVars, vars, SectionsTyped, LockInOrder,
                      FlightsUnderLock, OwnKeys, OneKeyPerFlight
<1>2. CASE CallsNext
  BY <1>2, BeginInv, EnterInv, DoInv, LeaveInv DEF CallsNext
<1> QED  BY <1>1, <1>2

\* And so it always holds.
LEMMA CallsAlways == CallsSpec => []CallsInv
BY CallsInitInv, CallsNextInv, PTL DEF CallsSpec

(***************************************************************************)
(* Behind the lock, with the rules of sync.RWMutex and in every order of   *)
(* requests and maintenance, the calls use flightGroup as FlightGroup says.*)
(***************************************************************************)
THEOREM CallsUseFlights == CallsSpec => Spec
<1>1. CallsInit => Init
  BY DEF CallsInit
<1>2. ASSUME CallsInv, [CallsNext]_callVars PROVE [Next]_vars
  <2>1. ASSUME NEW p \in Callers, LeaveDo(p) PROVE Next
    BY <2>1 DEF LeaveDo, Next, Step
  <2>2. ASSUME NEW p \in Callers,
               BeginMaintained(p) \/ BeginSingle(p) \/ EnterRead(p) \/ EnterWrite(p) \/ LeaveSection(p)
        PROVE  UNCHANGED vars
    BY <2>2 DEF BeginMaintained, BeginSingle, EnterRead, EnterWrite, LeaveSection
  <2>3. UNCHANGED callVars => UNCHANGED vars
    BY DEF callVars
  <2> QED  BY <1>2, <2>1, <2>2, <2>3, DoInv DEF CallsNext
<1> QED  BY <1>1, <1>2, CallsAlways, PTL DEF CallsSpec, Spec

(***************************************************************************)
(* So the safety of flights holds for the calls of a Client too.           *)
(***************************************************************************)
THEOREM CallsFlightSafety ==
    CallsSpec => [](TypeOK /\ OneRunPerKey /\ AnswersAreComplete /\ WaitersHaveALeader)
BY CallsUseFlights, FlightTypes, FlightSafety, AnswerSafety, WaiterSafety, PTL

(***************************************************************************)
(* No call changes the TGT or the cache's principal while a RETRIEVE is in *)
(* flight, however many callers there are.                                 *)
(***************************************************************************)
THEOREM FlightsUndisturbed == CallsSpec => []NoChangeInFlight
<1>1. CallsInv => NoChangeInFlight
  BY DEF CallsInv, FlightsUnderLock, NoChangeInFlight, writing
<1> QED  BY <1>1, CallsAlways, PTL

(***************************************************************************)
(* Whatever match-credentials requests come with, of any length and with   *)
(* any characters, two requests share a flight only if they build the same *)
(* match template, or one of them carries an empty principal.              *)
(***************************************************************************)
THEOREM SharedAnswers == CallsSpec => []SharedAnswerFits
<1>1. CallsInv => SharedAnswerFits
  <2> SUFFICES ASSUME CallsInv, NEW p \in Callers, NEW q \in Callers, f[p] # Nil, f[p] = f[q],
                      ~namesNobody(mc[p]), ~namesNobody(mc[q])
               PROVE  buildMatchTemplate(mc[p]) = buildMatchTemplate(mc[q])
    BY DEF SharedAnswerFits
  <2>1. pc[p] # "idle" /\ pc[q] # "idle"
    BY DEF CallsInv, OwnKeys
  <2>2. matchKey(mc[p]) = matchKey(mc[q])
    BY <2>1 DEF CallsInv, OwnKeys, OneKeyPerFlight
  <2>3. mc[p] \in MatchCreds /\ mc[q] \in MatchCreds
    BY <2>1 DEF CallsInv, FlightsUnderLock, SectionsTyped
  <2>4. mc[p] \in MatchCredential /\ mc[q] \in MatchCredential
    BY <2>3, CallsAssumption DEF CallsAssumption
  <2> QED  BY <2>2, <2>4, KeyTemplate
<1> QED  BY <1>1, CallsAlways, PTL

(***************************************************************************)
(* Callers never wait for each other in a circle.  A leader waits for      *)
(* nobody, so no joiner is part of a circle; every other active reader     *)
(* waits for nobody either, so no writer is; and everybody else waits for  *)
(* the writer.                                                             *)
(***************************************************************************)
THEOREM NoDeadlock == CallsSpec => []NoWaitCycle
<1>1. CallsInv => NoWaitCycle
  <2> SUFFICES ASSUME CallsInv, NEW S \in (SUBSET Callers) \ {{}},
                      \A p \in S : waitsFor(p) \cap S # {}
               PROVE  FALSE
    BY DEF NoWaitCycle
  <2> USE DEF CallsInv
  <2>0. Nil \notin Callers
    BY CallsAssumption DEF CallsAssumption
  <2>1. ASSUME NEW p \in S, p \in active PROVE FALSE
    <3>1. p \notin blocked /\ writer # p /\ sec[p] \notin writes
      BY <2>0, <2>1 DEF LockInOrder, reads, writes
    <3>2. CASE pc[p] = "wait" /\ ~isDone(f[p])
      <4>1. waitsFor(p) = {q \in leading : f[q] = f[p]}
        BY <3>1, <3>2 DEF waitsFor
      <4>2. PICK q \in S : q \in leading
        BY <4>1
      <4>3. q \in active /\ sec[q] = "do" /\ pc[q] # "wait"
        BY <4>2 DEF leading, FlightsUnderLock
      <4>4. q \notin blocked /\ writer # q /\ sec[q] \notin writes
        BY <4>3, <2>0 DEF LockInOrder, reads, writes
      <4>5. waitsFor(q) = {}
        BY <4>3, <4>4 DEF waitsFor
      <4> QED  BY <4>5
    <3>3. CASE ~(pc[p] = "wait" /\ ~isDone(f[p]))
      <4>1. waitsFor(p) = {}
        BY <3>1, <3>3 DEF waitsFor
      <4> QED  BY <4>1
    <3> QED  BY <3>2, <3>3
  <2>2. writer \notin S
    <3> SUFFICES ASSUME writer \in S PROVE FALSE
      OBVIOUS
    <3>1. sec[writer] \in writes /\ writer \notin blocked /\ writer \in Callers
      BY <2>0 DEF LockInOrder, reads, writes
    <3>2. pc[writer] # "wait"
      BY <3>1 DEF FlightsUnderLock, writes
    <3>3. waitsFor(writer) = active
      BY <3>1, <3>2 DEF waitsFor
    <3> QED  BY <2>1, <3>3
  <2>3. PICK p \in S : TRUE
    OBVIOUS
  <2>4. p \notin active /\ writer # p
    BY <2>1, <2>2, <2>3
  <2>5. pc[p] = "idle"
    BY <2>4 DEF FlightsUnderLock
  <2>6. CASE p \in blocked
    <3>1. sec[p] \notin writes
      BY <2>6 DEF LockInOrder, reads, writes
    <3>2. waitsFor(p) = {writer}
      BY <2>4, <2>5, <2>6, <3>1 DEF waitsFor
    <3> QED  BY <2>2, <3>2
  <2>7. CASE p \notin blocked
    <3>1. waitsFor(p) = {writer} \/ waitsFor(p) = {}
      BY <2>4, <2>5, <2>7 DEF waitsFor
    <3> QED  BY <2>2, <3>1
  <2> QED  BY <2>6, <2>7
<1> QED  BY <1>1, CallsAlways, PTL

=============================================================================
