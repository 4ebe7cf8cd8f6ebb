-------------------------- MODULE Krb5ClientSafety --------------------------
(***************************************************************************)
(* Safety of Krb5Client for every value of its constants: renewals,        *)
(* flights, the lock and what the answers may contain.                     *)
(***************************************************************************)
EXTENDS Krb5ClientProofs

-----------------------------------------------------------------------------
(* Most steps neither renew nor touch a flight.                            *)

InFlight == {"lead", "tgs", "land", "joined"}

Special == InFlight \cup {"exchange", "install"}

\* p takes a step outside renewTGT and flights.do.
Quiet(p) ==
    /\ pc[p] \notin Special /\ pc'[p] \notin Special
    /\ \A q \in Threads \ {p} : pc'[q] = pc[q] /\ req'[q] = req[q]
    /\ UNCHANGED <<flights, renewing>>

\* A step of p that does not move it.
Still == UNCHANGED <<pc, req, flights, renewing>>

RenewalStep(p) == RenewStart(p) \/ RenewExchange(p) \/ RenewInstall(p)

FlightStep(p) == Lookup(p) \/ Lead(p) \/ Tgs(p) \/ Land(p)

\* Every step is a quiet one, a step of renewTGT, a step of flights.do, or
\* moves nobody.
LEMMA StepKinds ==
    ASSUME TypeInv, Next
    PROVE  \/ \E p \in Threads : Quiet(p) \/ RenewalStep(p)
           \/ \E p \in Procs : FlightStep(p)
           \/ Still
<1> USE DEF TypeInv, TypeOK, Special, InFlight, Quiet
<1> Procs \subseteq Threads /\ Background \subseteq Threads
  BY DEF Threads
<1>1. ASSUME NEW p \in Threads, Maintain(p) PROVE Quiet(p)
  BY <1>1 DEF Maintain, Goto, afterCheck
<1>2. ASSUME NEW p \in Threads, Reload(p) PROVE Quiet(p)
  BY <1>2 DEF Reload, Goto, afterCheck
<1>3. ASSUME NEW p \in Threads, Adopt(p) PROVE Quiet(p)
  BY <1>3 DEF Adopt, Goto, afterCheck
<1>4. ASSUME NEW p \in Threads, Sweep(p) PROVE Quiet(p)
  <2>1. pc[p] = "sweep" /\ UNCHANGED <<req, flights, renewing>>
    BY <1>4 DEF Sweep
  <2>2. afterMaintain(p) \in {"lookup", "list", "plan"}
    BY <2>1, AfterMaintain
  <2>3. \E l \in {"lookup", "list", "plan", "evict"} : pc' = [pc EXCEPT ![p] = l]
    BY <1>4, <2>2 DEF Sweep, Goto
  <2> QED  BY <2>1, <2>3
<1>5. ASSUME NEW p \in Threads, Evict(p) PROVE Quiet(p)
  <2>1. pc[p] = "evict" /\ UNCHANGED <<req, flights, renewing>>
    BY <1>5 DEF Evict
  <2>2. afterMaintain(p) \in {"lookup", "list", "plan"}
    BY <2>1, AfterMaintain
  <2> QED  BY <1>5, <2>1, <2>2 DEF Evict, Goto
<1>6. ASSUME NEW p \in Procs, Retrieve(p) PROVE Quiet(p)
  BY <1>6 DEF Retrieve, BeginMaintain, Goto
<1>7. ASSUME NEW p \in Procs, Enumerate(p) PROVE Quiet(p)
  BY <1>7 DEF Enumerate, BeginMaintain, Goto
<1>8. ASSUME NEW p \in Procs, List(p) PROVE Quiet(p)
  BY <1>8 DEF List, Answer, Goto
<1>9. ASSUME NEW p \in Procs, Return(p) PROVE Quiet(p)
  BY <1>9 DEF Return, Goto
<1>10. ASSUME NEW p \in Procs, Destroy(p) \/ DestroyInitialize(p) PROVE Quiet(p)
  BY <1>10 DEF Destroy, DestroyInitialize, Goto
<1>11. ASSUME NEW p \in Procs, KinitKCM(p) \/ KinitStore(p) PROVE Quiet(p)
  BY <1>11 DEF KinitKCM, CanWrite, KinitStore, Goto
<1>12. ASSUME NEW p \in Procs, Initialize(p) \/ Store(p) \/ Remove(p) PROVE Still
  BY <1>12 DEF Initialize, Store, Remove, Still
<1>13. ASSUME NEW p \in Background, Wake(p) \/ Plan(p) PROVE Quiet(p)
  BY <1>13 DEF Wake, Plan, BeginMaintain, Goto
<1>14. ASSUME Tick \/ ChangeFile PROVE Still
  BY <1>14 DEF Tick, ChangeFile, Still
<1> QED  BY <1>1, <1>2, <1>3, <1>4, <1>5, <1>6, <1>7, <1>8, <1>9, <1>10, <1>11, <1>12, <1>13,
            <1>14
         DEF Next, MaintainStep, RequestStep, LoopStep, RenewalStep, FlightStep

-----------------------------------------------------------------------------
(* Renewals.                                                               *)

\* flights.do does not touch a renewal.
LEMMA FlightStepShape ==
    ASSUME TypeInv, NEW p \in Procs, FlightStep(p)
    PROVE  /\ UNCHANGED renewing
           /\ \A q \in Threads : pc'[q] \in {"exchange", "install"}
                                     <=> pc[q] \in {"exchange", "install"}
<1> USE DEF TypeInv, TypeOK
<1> p \in Threads
  BY DEF Threads
<1>1. CASE Lookup(p)
  BY <1>1 DEF Lookup, Answer, Goto
<1>2. CASE Lead(p)
  BY <1>2 DEF Lead, Landed, Goto
<1>3. CASE Tgs(p)
  BY <1>3 DEF Tgs, Landed, Goto
<1>4. CASE Land(p)
  BY <1>4 DEF Land, crew
<1> QED  BY <1>1, <1>2, <1>3, <1>4 DEF FlightStep

\* Every step keeps renewals apart.
LEMMA RenewalsNext ==
    ASSUME TypeInv, RenewalsNeverOverlap, Next
    PROVE  RenewalsNeverOverlap'
<1> USE DEF TypeInv, TypeOK, RenewalsNeverOverlap, exchanging
<1>1. ASSUME UNCHANGED renewing,
             \A q \in Threads : pc'[q] \in {"exchange", "install"}
                                    <=> pc[q] \in {"exchange", "install"}
      PROVE  RenewalsNeverOverlap'
  <2>1. exchanging' = exchanging
    BY <1>1
  <2> QED  BY <2>1, <1>1, Zenon
<1>2. ASSUME NEW p \in Threads, RenewStart(p) PROVE RenewalsNeverOverlap'
  <2>1. CASE mayRenew(tgt, renewing)
    <3>1. renewing' = TRUE /\ pc' = [pc EXCEPT ![p] = "exchange"]
      BY <1>2, <2>1, Zenon DEF RenewStart, Goto
    <3>2. ~renewing
      BY <2>1, Zenon DEF mayRenew
    <3>3. exchanging = {}
      BY <3>2, Zenon
    <3>4. exchanging' = {p}
      BY <3>1, <3>3
    <3> QED  BY <3>1, <3>4, Zenon
  <2>2. CASE ~mayRenew(tgt, renewing)
    <3>1. renewing' = renewing /\ pc' = [pc EXCEPT ![p] = "sweep"] /\ pc[p] = "renew"
      BY <1>2, <2>2, Zenon DEF RenewStart, Goto
    <3> QED  BY <3>1, <1>1
  <2> QED  BY <2>1, <2>2
<1>3. ASSUME NEW p \in Threads, RenewExchange(p) PROVE RenewalsNeverOverlap'
  <2>1. renewing' = renewing /\ pc' = [pc EXCEPT ![p] = "install"] /\ pc[p] = "exchange"
    BY <1>3 DEF RenewExchange, Goto
  <2> QED  BY <2>1, <1>1
<1>4. ASSUME NEW p \in Threads, RenewInstall(p) PROVE RenewalsNeverOverlap'
  <2>1. /\ renewing' = FALSE
        /\ pc' = [pc EXCEPT ![p] = "sweep"]
        /\ pc[p] = "install"
    BY <1>4, Zenon DEF RenewInstall, endRenewing, Goto
  <2>2. exchanging = {p}
    BY <2>1
  <2>3. exchanging' = {}
    BY <2>1, <2>2
  <2> QED  BY <2>1, <2>3, Zenon
<1>5. ASSUME NEW p \in Threads, Quiet(p) PROVE RenewalsNeverOverlap'
  BY <1>5, <1>1 DEF Quiet, Special
<1>6. ASSUME NEW p \in Procs, FlightStep(p) PROVE RenewalsNeverOverlap'
  BY <1>6, <1>1, FlightStepShape
<1>7. ASSUME Still PROVE RenewalsNeverOverlap'
  BY <1>7, <1>1 DEF Still
<1> QED  BY StepKinds, <1>2, <1>3, <1>4, <1>5, <1>6, <1>7 DEF RenewalStep

(***************************************************************************)
(* Whatever threads do, at most one renewal is between renewTGT's two      *)
(* critical sections, so that renewExchange has its process-global scratch *)
(* cache to itself, and c.renewing says exactly whether there is one.      *)
(***************************************************************************)
THEOREM RenewalSafety == Spec => []RenewalsNeverOverlap
<1>1. Init => RenewalsNeverOverlap
  <2> SUFFICES ASSUME Init PROVE RenewalsNeverOverlap
    OBVIOUS
  <2>1. exchanging = {}
    BY DEF Init, exchanging
  <2>2. renewing = FALSE
    BY Zenon DEF Init, Open
  <2> QED  BY <2>1, <2>2, Zenon DEF RenewalsNeverOverlap
<1>2. TypeInv /\ RenewalsNeverOverlap /\ [Next]_vars => RenewalsNeverOverlap'
  <2>1. CASE UNCHANGED vars
    BY <2>1, Zenon DEF vars, RenewalsNeverOverlap, exchanging
  <2> QED  BY <2>1, RenewalsNext
<1> QED  BY <1>1, <1>2, TypeAlways, PTL DEF Spec

-----------------------------------------------------------------------------
(* Flights.                                                                *)

\* A step of p outside flights.do leaves the flights as they are.
LEMMA FlightFrame ==
    ASSUME TypeInv, FlightsHaveLeaders, NEW p \in Threads,
           pc[p] \notin InFlight, pc'[p] \notin InFlight,
           \A q \in Threads \ {p} : pc'[q] = pc[q] /\ req'[q] = req[q],
           UNCHANGED flights
    PROVE  FlightsHaveLeaders'
<1> Procs \subseteq Threads /\ Nil \notin Procs
  BY ClientAssumption DEF Threads, ClientAssumption
<1>1. ASSUME NEW k \in Keys, flights[k] # Nil
      PROVE  pc'[flights[k]] \in {"lead", "tgs", "land"} /\ matchKey(req'[flights[k]]) = k
  BY <1>1 DEF TypeInv, TypeOK, FlightsHaveLeaders, InFlight
<1>2. ASSUME NEW q \in Procs, pc'[q] \in InFlight
      PROVE  pc[q] = pc'[q] /\ req'[q] = req[q]
  BY <1>2
<1> QED  BY <1>1, <1>2 DEF FlightsHaveLeaders, InFlight

\* Every step keeps flights and their leaders together.
LEMMA FlightsNext ==
    ASSUME TypeInv, FlightsHaveLeaders, Next
    PROVE  FlightsHaveLeaders'
<1> Procs \subseteq Threads /\ Nil \notin Procs
  BY ClientAssumption DEF Threads, ClientAssumption
<1>1. ASSUME NEW p \in Threads, Quiet(p) PROVE FlightsHaveLeaders'
  BY <1>1, FlightFrame DEF Quiet, Special
<1>2. ASSUME NEW p \in Threads, RenewalStep(p) PROVE FlightsHaveLeaders'
  <2>1. /\ pc[p] \in {"renew", "exchange", "install"}
        /\ \E l \in {"sweep", "exchange", "install"} : pc' = [pc EXCEPT ![p] = l]
        /\ UNCHANGED <<req, flights>>
    BY <1>2 DEF RenewalStep, RenewStart, RenewExchange, RenewInstall, Goto
  <2> QED  BY <2>1, FlightFrame DEF TypeInv, TypeOK, InFlight
<1>3. ASSUME Still PROVE FlightsHaveLeaders'
  BY <1>3 DEF Still, FlightsHaveLeaders
<1>4. ASSUME NEW p \in Procs, Lookup(p) PROVE FlightsHaveLeaders'
  <2>1. pc[p] = "lookup" /\ UNCHANGED req
    BY <1>4 DEF Lookup
  <2>2. matchKey(req[p]) \in Keys
    BY <2>1 DEF TypeInv, LocalsSet
  <2>3. CASE pc' = [pc EXCEPT ![p] = "reply"] /\ UNCHANGED flights
    BY <2>1, <2>3, FlightFrame DEF TypeInv, TypeOK, InFlight
  <2>4. CASE inFlight(req[p]) /\ pc' = [pc EXCEPT ![p] = "joined"] /\ UNCHANGED flights
    BY <2>1, <2>2, <2>4 DEF TypeInv, TypeOK, FlightsHaveLeaders, inFlight
  <2>5. CASE /\ ~inFlight(req[p])
             /\ pc' = [pc EXCEPT ![p] = "lead"]
             /\ flights' = [flights EXCEPT ![matchKey(req[p])] = p]
    <3>1. \A k \in Keys : flights[k] # p
      BY <2>1 DEF FlightsHaveLeaders
    <3>2. flights[matchKey(req[p])] = Nil
      BY <2>5 DEF inFlight
    <3> QED  BY <2>1, <2>2, <2>5, <3>1, <3>2 DEF TypeInv, TypeOK, FlightsHaveLeaders
  <2> QED  BY <1>4, <2>3, <2>4, <2>5 DEF Lookup, Answer, Goto
<1>5. ASSUME NEW p \in Procs, Lead(p) \/ Tgs(p) PROVE FlightsHaveLeaders'
  <2>1. /\ pc[p] \in {"lead", "tgs"}
        /\ \E l \in {"tgs", "land"} : pc' = [pc EXCEPT ![p] = l]
        /\ UNCHANGED <<req, flights>>
    BY <1>5 DEF Lead, Tgs, Landed, Goto
  <2> QED  BY <2>1 DEF TypeInv, TypeOK, FlightsHaveLeaders
<1>6. ASSUME NEW p \in Procs, Land(p) PROVE FlightsHaveLeaders'
  <2>1. /\ pc[p] = "land" /\ UNCHANGED req
        /\ flights' = [flights EXCEPT ![matchKey(req[p])] = Nil]
        /\ pc' = [q \in Threads |-> IF q \in crew(p) THEN "reply" ELSE pc[q]]
    BY <1>6 DEF Land, deleteFlight
  <2>2. matchKey(req[p]) \in Keys /\ flights[matchKey(req[p])] = p
    BY <2>1 DEF TypeInv, LocalsSet, FlightsHaveLeaders
  <2>3. \A q \in Procs : pc[q] \in {"lead", "tgs", "land", "joined"} =>
          matchKey(req[q]) \in Keys
    BY DEF TypeInv, LocalsSet
  <2> QED  BY <2>1, <2>2, <2>3 DEF TypeInv, TypeOK, FlightsHaveLeaders, crew
<1> QED  BY StepKinds, <1>1, <1>2, <1>3, <1>4, <1>5, <1>6 DEF FlightStep

(***************************************************************************)
(* A key in the map always has a live leader working on exactly that key,  *)
(* every leader is the one the map knows, and nobody waits for a flight    *)
(* that is gone.                                                           *)
(***************************************************************************)
THEOREM FlightsSafety == Spec => []FlightsHaveLeaders
<1>1. Init => FlightsHaveLeaders
  BY ClientAssumption DEF Init, Open, FlightsHaveLeaders, Threads, ClientAssumption
<1>2. TypeInv /\ FlightsHaveLeaders /\ [Next]_vars => FlightsHaveLeaders'
  <2>1. CASE UNCHANGED vars
    BY <2>1 DEF vars, FlightsHaveLeaders
  <2> QED  BY <2>1, FlightsNext
<1> QED  BY <1>1, <1>2, TypeAlways, PTL DEF Spec

-----------------------------------------------------------------------------
(* The lock.                                                               *)

\* While one thread is inside Adopt's critical section nobody reads.
LockExclusive ==
    \A p, q \in Threads : pc[p] = "adopt" /\ pc[q] \in Reading \cup {"adopt"} => p = q

\* No step lets a thread in: whoever holds the lock held it before.
LEMMA LockKept ==
    ASSUME LockExclusive,
           \A q \in Threads : /\ pc'[q] = "adopt" => pc[q] = "adopt"
                              /\ pc'[q] \in Reading => pc[q] \in Reading
    PROVE  LockExclusive'
BY DEF LockExclusive

\* Nobody writes, and nobody starts to.
LEMMA LockRead ==
    ASSUME canRLock, \A q \in Threads : pc'[q] = "adopt" => pc[q] = "adopt"
    PROVE  LockExclusive'
BY DEF LockExclusive, canRLock

\* Every step respects the RWMutex.
LEMMA LockNext ==
    ASSUME TypeInv, LockExclusive, Next
    PROVE  LockExclusive'
<1> USE DEF TypeInv, TypeOK
<1> Procs \subseteq Threads /\ Background \subseteq Threads
  BY DEF Threads
<1> canLock => canRLock
  BY DEF canLock, canRLock
<1>1. ASSUME NEW p \in Threads, Maintain(p) PROVE LockExclusive'
  BY <1>1, LockRead DEF Maintain, Goto, afterCheck
<1>2. ASSUME NEW p \in Threads, Reload(p) PROVE LockExclusive'
  <2>1. canLock /\ \A q \in Threads \ {p} : pc'[q] = pc[q]
    BY <1>2 DEF Reload, Goto
  <2> QED  BY <2>1 DEF LockExclusive, canLock, Reading
<1>3. ASSUME NEW p \in Threads, Adopt(p) PROVE LockExclusive'
  BY <1>3, LockKept DEF Adopt, Goto, afterCheck, Reading
<1>4. ASSUME NEW p \in Threads, RenewStart(p) PROVE LockExclusive'
  BY <1>4, LockRead DEF RenewStart, Goto
<1>5. ASSUME NEW p \in Threads, RenewExchange(p) PROVE LockExclusive'
  BY <1>5, LockKept DEF RenewExchange, Goto, Reading
<1>6. ASSUME NEW p \in Threads, RenewInstall(p) PROVE LockExclusive'
  BY <1>6, LockRead DEF RenewInstall, Goto
<1>7. ASSUME NEW p \in Threads, Sweep(p) PROVE LockExclusive'
  <2>1. pc[p] = "sweep" /\ canRLock
    BY <1>7 DEF Sweep
  <2>2. afterMaintain(p) \in {"lookup", "list", "plan"}
    BY <2>1, AfterMaintain
  <2>3. \E l \in {"lookup", "list", "plan", "evict"} : pc' = [pc EXCEPT ![p] = l]
    BY <1>7, <2>2 DEF Sweep, Goto
  <2> QED  BY <2>1, <2>3, LockRead
<1>8. ASSUME NEW p \in Threads, Evict(p) PROVE LockExclusive'
  <2>1. afterMaintain(p) \in {"lookup", "list", "plan"}
    BY <1>8, AfterMaintain DEF Evict
  <2> QED  BY <1>8, <2>1, LockKept DEF Evict, Goto, Reading
<1>9. ASSUME NEW p \in Procs, Retrieve(p) \/ Enumerate(p) PROVE LockExclusive'
  BY <1>9, LockKept DEF Retrieve, Enumerate, BeginMaintain, Goto, Reading
<1>10. ASSUME NEW p \in Procs, Lookup(p) \/ List(p) PROVE LockExclusive'
  BY <1>10, LockRead DEF Lookup, List, Answer, Goto
<1>11. ASSUME NEW p \in Procs, Lead(p) \/ Tgs(p) PROVE LockExclusive'
  BY <1>11, LockKept DEF Lead, Tgs, Landed, Goto, Reading
<1>12. ASSUME NEW p \in Procs, Land(p) PROVE LockExclusive'
  BY <1>12, LockKept DEF Land, crew, Reading
<1>13. ASSUME NEW p \in Procs, Return(p) PROVE LockExclusive'
  BY <1>13, LockKept DEF Return, Goto, Reading
<1>14. ASSUME NEW p \in Procs, Initialize(p) \/ Store(p) \/ Remove(p) PROVE LockExclusive'
  BY <1>14, LockKept DEF Initialize, Store, Remove
<1>15. ASSUME NEW p \in Procs, Destroy(p) \/ DestroyInitialize(p) PROVE LockExclusive'
  BY <1>15, LockRead DEF Destroy, DestroyInitialize, Goto
<1>16. ASSUME NEW p \in Procs, KinitKCM(p) \/ KinitStore(p) PROVE LockExclusive'
  BY <1>16, LockRead DEF KinitKCM, KinitStore, CanWrite, Goto
<1>17. ASSUME NEW p \in Background, Wake(p) \/ Plan(p) PROVE LockExclusive'
  BY <1>17, LockKept DEF Wake, Plan, BeginMaintain, Goto, Reading
<1>18. ASSUME Tick \/ ChangeFile PROVE LockExclusive'
  BY <1>18, LockKept DEF Tick, ChangeFile
<1> QED  BY <1>1, <1>2, <1>3, <1>4, <1>5, <1>6, <1>7, <1>8, <1>9, <1>10, <1>11, <1>12, <1>13,
            <1>14, <1>15, <1>16, <1>17, <1>18
         DEF Next, MaintainStep, RequestStep, LoopStep

\* The lock read off the pcs is one: Adopt's writer excludes everybody.
LEMMA LockAlways == Spec => []LockExclusive
<1>1. Init => LockExclusive
  BY DEF Init, LockExclusive
<1>2. TypeInv /\ LockExclusive /\ [Next]_vars => LockExclusive'
  <2>1. CASE UNCHANGED vars
    BY <2>1 DEF vars, LockExclusive
  <2> QED  BY <2>1, LockNext
<1> QED  BY <1>1, <1>2, TypeAlways, PTL DEF Spec

-----------------------------------------------------------------------------
(* A step is somebody's, and leaves everybody else's locals alone.         *)

Kept(q) ==
    /\ pc'[q] = pc[q] /\ req'[q] = req[q] /\ now'[q] = now[q]
    /\ stale'[q] = stale[q] /\ result'[q] = result[q]

Moves(q) ==
    \/ MaintainStep(q)
    \/ q \in Procs /\ RequestStep(q)
    \/ q \in Background /\ LoopStep(q)

\* A thread's locals are changed by its own steps, and by the landing of the
\* flight it is in.
LEMMA LocalFrame ==
    ASSUME TypeInv, Next, NEW q \in Threads
    PROVE  Kept(q) \/ Moves(q) \/ \E p \in Procs : Land(p) /\ q \in crew(p)
<1> USE DEF TypeInv, TypeOK, Kept
<1> Procs \subseteq Threads /\ Background \subseteq Threads
  BY DEF Threads
<1>1. ASSUME NEW p \in Threads, p # q, MaintainStep(p) PROVE Kept(q)
  <2>1. CASE Maintain(p)
    BY <1>1, <2>1 DEF Maintain, Goto
  <2>2. CASE Reload(p)
    BY <1>1, <2>2 DEF Reload, Goto
  <2>3. CASE Adopt(p)
    BY <1>1, <2>3 DEF Adopt, Goto
  <2>4. CASE RenewalStep(p)
    BY <1>1, <2>4 DEF RenewalStep, RenewStart, RenewExchange, RenewInstall, Goto
  <2>5. CASE Sweep(p)
    BY <1>1, <2>5 DEF Sweep, Goto
  <2>6. CASE Evict(p)
    BY <1>1, <2>6 DEF Evict, Goto
  <2> QED  BY <1>1, <2>1, <2>2, <2>3, <2>4, <2>5, <2>6 DEF MaintainStep, RenewalStep
<1>2. ASSUME NEW p \in Procs, p # q, RequestStep(p)
      PROVE  Kept(q) \/ (Land(p) /\ q \in crew(p))
  <2>1. ASSUME Retrieve(p) PROVE Kept(q)
    BY <1>2, <2>1 DEF Retrieve, BeginMaintain, Goto
  <2>2. ASSUME Lookup(p) PROVE Kept(q)
    BY <1>2, <2>2 DEF Lookup, Answer, Goto
  <2>3. ASSUME Lead(p) PROVE Kept(q)
    BY <1>2, <2>3 DEF Lead, Landed, Goto
  <2>4. ASSUME Tgs(p) PROVE Kept(q)
    BY <1>2, <2>4 DEF Tgs, Landed, Goto
  <2>5. ASSUME Land(p), q \notin crew(p) PROVE Kept(q)
    BY <1>2, <2>5 DEF Land
  <2>6. ASSUME Enumerate(p) PROVE Kept(q)
    BY <1>2, <2>6 DEF Enumerate, BeginMaintain, Goto
  <2>7. ASSUME List(p) PROVE Kept(q)
    BY <1>2, <2>7 DEF List, Answer, Goto
  <2>8. ASSUME Return(p) PROVE Kept(q)
    BY <1>2, <2>8 DEF Return, Goto
  <2>9. ASSUME Initialize(p) \/ Store(p) \/ Remove(p) PROVE Kept(q)
    BY <2>9 DEF Initialize, Store, Remove
  <2>10. ASSUME Destroy(p) \/ DestroyInitialize(p) PROVE Kept(q)
    BY <1>2, <2>10 DEF Destroy, DestroyInitialize, Goto
  <2>11. ASSUME KinitKCM(p) \/ KinitStore(p) PROVE Kept(q)
    BY <1>2, <2>11 DEF KinitKCM, KinitStore, Goto
  <2> QED  BY <1>2, <2>1, <2>2, <2>3, <2>4, <2>5, <2>6, <2>7, <2>8, <2>9, <2>10, <2>11
           DEF RequestStep
<1>3. ASSUME NEW p \in Background, p # q, LoopStep(p) PROVE Kept(q)
  BY <1>3 DEF LoopStep, Wake, Plan, BeginMaintain, Goto
<1>4. ASSUME Tick \/ ChangeFile PROVE Kept(q)
  BY <1>4 DEF Tick, ChangeFile
<1> QED  BY <1>1, <1>2, <1>3, <1>4 DEF Next, Moves

\* The cache's principal and the held TGT only change when nobody reads.
LEMMA WriteFrame ==
    ASSUME TypeInv, LockExclusive, Next, NEW q \in Threads, pc[q] \in Reading
    PROVE  UNCHANGED <<princ, tgt>>
<1> USE DEF TypeInv, TypeOK
<1> Procs \subseteq Threads /\ Background \subseteq Threads
  BY DEF Threads
<1>1. ~canLock
  BY DEF canLock
<1>2. ASSUME NEW p \in Threads PROVE pc[p] # "adopt"
  BY DEF LockExclusive, Reading
<1>3. ASSUME NEW p \in Threads, MaintainStep(p) PROVE UNCHANGED <<princ, tgt>>
  BY <1>1, <1>2, <1>3 DEF MaintainStep, Maintain, Reload, Adopt, RenewStart, RenewExchange,
                          RenewInstall, Sweep, Evict, cache
<1>4. ASSUME NEW p \in Procs, RequestStep(p) PROVE UNCHANGED <<princ, tgt>>
  BY <1>1, <1>4 DEF RequestStep, Retrieve, Lookup, Lead, Tgs, Land, Enumerate, List, Return,
                    Initialize, Store, Remove, CanWrite, Destroy, DestroyInitialize,
                    KinitKCM, KinitStore, cache
<1>5. ASSUME NEW p \in Background, LoopStep(p) PROVE UNCHANGED <<princ, tgt>>
  BY <1>5 DEF LoopStep, Wake, Plan, cache
<1>6. ASSUME Tick \/ ChangeFile PROVE UNCHANGED <<princ, tgt>>
  BY <1>6 DEF Tick, ChangeFile, cache
<1> QED  BY <1>3, <1>4, <1>5, <1>6 DEF Next

-----------------------------------------------------------------------------
(* Whom an answer is for.                                                  *)

\* The inductive form: it holds from the moment a leader has the answer.
AnswersFit ==
    \A p \in Procs : pc[p] \in {"land", "reply"} /\ req[p].op = "retrieve" =>
        \A e \in result[p].entries :
            /\ e.cred.client = templateClient(req[p].client)
            /\ e.cred.server = req[p].server

\* Whoever answers p's step takes the answer from the cache or the KDC.
LEMMA FreshAnswer ==
    ASSUME TypeInv, NEW p \in Procs, Lead(p) \/ Tgs(p), pc'[p] = "land"
    PROVE  \A e \in result'[p].entries :
              /\ e.cred.client = templateClient(req[p].client)
              /\ e.cred.server = req[p].server
<1> USE DEF TypeInv, TypeOK
<1> p \in Threads
  BY DEF Threads
<1>1. CASE Lead(p)
  <2>1. CASE \E code \in Codes : Landed(p, code, {})
    BY <2>1 DEF Landed
  <2>2. CASE \E c \in cc_lookup(creds, templateClient(req[p].client), req[p].server, clock) :
                Landed(p, "OK", {[cred |-> c, key |-> TRUE]})
    BY <2>2 DEF Landed, cc_lookup
  <2>3. CASE pc' = [pc EXCEPT ![p] = "tgs"]
    BY <2>3
  <2> QED  BY <1>1, <2>1, <2>2, <2>3 DEF Lead, Goto, Codes
<1>2. CASE Tgs(p)
  <2>1. CASE Landed(p, "KDCError", {})
    BY <2>1 DEF Landed
  <2>2. CASE \E g \in usableTGTs(p), life \in SvcLives :
                Landed(p, "OK", {[cred |-> newTicket(g, req[p].server, clock, life),
                                  key |-> TRUE]})
    <3>1. PICK g \in usableTGTs(p), life \in SvcLives :
                Landed(p, "OK", {[cred |-> newTicket(g, req[p].server, clock, life),
                                  key |-> TRUE]})
      BY <2>2
    <3>2. g.client = templateClient(req[p].client)
      BY DEF usableTGTs, cc_lookup
    <3> QED  BY <3>1, <3>2 DEF Landed, newTicket
  <2> QED  BY <1>2, <2>1, <2>2 DEF Tgs
<1> QED  BY <1>1, <1>2

\* Who gets as far as an answer has just been given it.
LEMMA ReplySources ==
    ASSUME TypeInv, Next, NEW q \in Procs, pc'[q] \in {"land", "reply"}
    PROVE  \/ Kept(q)
           \/ \E p \in Procs : Land(p) /\ q \in crew(p)
           \/ Lookup(q) \/ Lead(q) \/ Tgs(q) \/ List(q)
<1> USE DEF TypeInv, TypeOK
<1> q \in Threads
  BY DEF Threads
<1>1. ASSUME MaintainStep(q) PROVE FALSE
  <2>1. pc[q] = "sweep" \/ pc[q] = "evict" => afterMaintain(q) \in {"lookup", "list", "plan"}
    BY AfterMaintain
  <2>2. ~Sweep(q)
    BY <2>1 DEF Sweep, Goto
  <2>3. ~Evict(q)
    BY <2>1 DEF Evict, Goto
  <2> QED  BY <1>1, <2>2, <2>3 DEF MaintainStep, Maintain, Reload, Adopt, RenewStart, RenewExchange,
                        RenewInstall, Goto, afterCheck
<1>2. ASSUME RequestStep(q)
      PROVE  Lookup(q) \/ Lead(q) \/ Tgs(q) \/ Land(q) \/ List(q)
  <2>1. ~Retrieve(q) /\ ~Enumerate(q) /\ ~Return(q)
    BY DEF Retrieve, Enumerate, Return, BeginMaintain, Goto
  <2>2. ~Initialize(q) /\ ~Store(q) /\ ~Remove(q)
    BY DEF Initialize, Store, Remove, CanWrite
  <2>3. ~Destroy(q) /\ ~DestroyInitialize(q) /\ ~KinitKCM(q) /\ ~KinitStore(q)
    BY DEF Destroy, DestroyInitialize, KinitKCM, KinitStore, Goto
  <2> QED  BY <1>2, <2>1, <2>2, <2>3 DEF RequestStep
<1>3. q \notin Background
  BY ClientAssumption DEF ClientAssumption
<1>4. Land(q) => q \in crew(q)
  BY DEF crew
<1> QED  BY LocalFrame, <1>1, <1>2, <1>3, <1>4 DEF Moves

\* Every step keeps the answers fitting the requests.
LEMMA AnswersNext ==
    ASSUME TypeInv, LockExclusive, AnswersFit, Next
    PROVE  AnswersFit'
<1> USE DEF TypeInv, TypeOK
<1> Procs \subseteq Threads
  BY DEF Threads
<1> SUFFICES ASSUME NEW q \in Procs, pc'[q] \in {"land", "reply"}, req'[q].op = "retrieve",
                    NEW e \in result'[q].entries
             PROVE  e.cred.client = templateClient(req[q].client)' /\ e.cred.server = req'[q].server
  BY DEF AnswersFit
<1>1. CASE Kept(q)
  <2>1. UNCHANGED princ
    BY <1>1, WriteFrame DEF Kept, Reading
  <2> QED  BY <1>1, <2>1 DEF Kept, AnswersFit, templateClient
<1>2. CASE \E p \in Procs : Land(p) /\ q \in crew(p)
  <2>1. PICK p \in Procs : Land(p) /\ q \in crew(p)
    BY <1>2
  <2>2. /\ pc[p] = "land" /\ result'[q] = result[p]
        /\ UNCHANGED <<req, princ>>
    BY <2>1 DEF Land, cache
  <2>3. req[p].op = "retrieve"
    BY <2>2 DEF LocalsSet
  <2>4. req[q].client = req[p].client /\ req[q].server = req[p].server
    BY <2>1 DEF crew, matchKey
  <2> QED  BY <2>2, <2>3, <2>4 DEF AnswersFit, templateClient
<1>3. CASE Lead(q) \/ Tgs(q)
  <2>1. UNCHANGED <<req, princ>> /\ pc'[q] = "land"
    BY <1>3 DEF Lead, Tgs, Landed, Goto, cache
  <2> QED  BY <1>3, <2>1, FreshAnswer DEF templateClient
<1>4. CASE Lookup(q)
  BY <1>4 DEF Lookup, Answer, Goto
<1>5. CASE List(q)
  BY <1>5 DEF List, LocalsSet
<1> QED  BY ReplySources, <1>1, <1>2, <1>3, <1>4, <1>5

(***************************************************************************)
(* A RETRIEVE that is answered with a ticket gets one for the server it    *)
(* asked for and for the client it named or, if it named none, for the     *)
(* principal the cache has when the answer is returned, whether the answer *)
(* is its own or another thread's flight's.                                *)
(***************************************************************************)
THEOREM AnswerSafety == Spec => []AnswerForCurrentPrincipal
<1>1. Init => AnswersFit
  BY DEF Init, AnswersFit, Threads
<1>2. TypeInv /\ LockExclusive /\ AnswersFit /\ [Next]_vars => AnswersFit'
  <2>1. CASE UNCHANGED vars
    BY <2>1 DEF vars, cache, AnswersFit, templateClient
  <2> QED  BY <2>1, AnswersNext
<1>3. AnswersFit => AnswerForCurrentPrincipal
  BY DEF AnswersFit, AnswerForCurrentPrincipal
<1> QED  BY <1>1, <1>2, <1>3, TypeAlways, LockAlways, PTL DEF Spec

-----------------------------------------------------------------------------
(* Session keys of TGTs.                                                   *)

\* What a listing shows of an entry has no TGT's key.
LEMMA ListedWithoutKey ==
    ASSUME NEW c \in Cred, NEW held \in TGTInfo \cup {Nil}
    PROVE  /\ listed(c, held).key => ~isTGTServer(listed(c, held).cred.server)
           /\ listed(c, held).key \in BOOLEAN
<1>1. CASE isTGTServer(c.server)
  BY <1>1 DEF listed
<1>2. CASE ~isTGTServer(c.server)
  BY <1>2 DEF listed
<1> QED  BY <1>1, <1>2

\* Every step keeps the keys of TGTs out of the answers.
LEMMA NoTGTKeyNext ==
    ASSUME TypeInv, NoTGTKeyInReplies, Next
    PROVE  NoTGTKeyInReplies'
<1> USE DEF TypeInv, TypeOK
<1> Procs \subseteq Threads
  BY DEF Threads
<1> SUFFICES ASSUME NEW q \in Procs, result'[q] # Nil, NEW e \in result'[q].entries, e.key
             PROVE  ~isTGTServer(e.cred.server)
  BY DEF NoTGTKeyInReplies
<1>1. ASSUME result'[q] = result[q] PROVE ~isTGTServer(e.cred.server)
  BY <1>1 DEF NoTGTKeyInReplies
<1>2. CASE \E p \in Procs : Land(p) /\ q \in crew(p)
  <2>1. PICK p \in Procs : Land(p) /\ q \in crew(p)
    BY <1>2
  <2>2. result'[q] = result[p]
    BY <2>1 DEF Land
  <2> QED  BY <2>2 DEF NoTGTKeyInReplies
<1>3. CASE Lead(q) \/ Tgs(q)
  <2>1. req[q].op = "retrieve" /\ pc[q] # "refused"
    BY <1>3 DEF Lead, Tgs, LocalsSet
  <2>2. CASE pc'[q] = "land"
    <3>1. e.cred.server = req[q].server
      BY <1>3, <2>2, FreshAnswer
    <3>2. CASE req[q].server # Nil
      BY <2>1, <3>1, <3>2 DEF LocalsSet
    <3>3. CASE req[q].server = Nil
      <4>1. pc[q] # "tgs"
        BY <3>3 DEF LocalsSet
      <4>2. Landed(q, "Malformed", {})
        BY <1>3, <4>1, <3>3 DEF Lead, Tgs
      <4> QED  BY <4>2 DEF Landed
    <3> QED  BY <3>2, <3>3
  <2>3. CASE pc'[q] # "land"
    BY <1>3, <2>3, <1>1 DEF Lead, Tgs, Landed, Goto
  <2> QED  BY <2>2, <2>3
<1>4. CASE Lookup(q)
  BY <1>4, <1>1 DEF Lookup, Answer
<1>5. CASE List(q)
  <2>1. CASE \E code \in Codes : Answer(q, code, {})
    BY <2>1 DEF Answer
  <2>2. CASE \E cs \in SUBSET creds : Answer(q, "OK", {listed(c, tgt) : c \in cs})
    <3>1. PICK cs \in SUBSET creds : Answer(q, "OK", {listed(c, tgt) : c \in cs})
      BY <2>2
    <3>2. PICK c \in cs : e = listed(c, tgt)
      BY <3>1 DEF Answer
    <3>3. c \in Cred
      BY <3>1, <3>2
    <3> QED  BY <3>2, <3>3, ListedWithoutKey
  <2>3. CASE \E c \in creds : Answer(q, "OK", {listed(c, tgt)})
    <3>1. PICK c \in creds : Answer(q, "OK", {listed(c, tgt)})
      BY <2>3
    <3>2. e = listed(c, tgt)
      BY <3>1 DEF Answer
    <3> QED  BY <3>2, ListedWithoutKey
  <2>4. {c \in creds : ~isConfigPrincipal(c.server)} \in SUBSET creds
    OBVIOUS
  <2> QED  BY <1>5, <2>1, <2>2, <2>3, <2>4 DEF List, Codes
<1>6. CASE Retrieve(q)
  BY <1>6, <1>1 DEF Retrieve
<1>7. ASSUME MaintainStep(q) PROVE result' = result
  BY <1>7 DEF MaintainStep, Maintain, Reload, Adopt, RenewStart, RenewExchange, RenewInstall,
              Sweep, Evict
<1>8. ASSUME RequestStep(q), ~Retrieve(q), ~Lookup(q), ~Lead(q), ~Tgs(q), ~Land(q), ~List(q)
      PROVE  result' = result
  <2>1. ~Return(q)
    BY DEF Return
  <2> QED  BY <1>8, <2>1 DEF RequestStep, Enumerate, Initialize, Store, Remove, Destroy,
                             DestroyInitialize, KinitKCM, KinitStore
<1>9. q \notin Background
  BY ClientAssumption DEF ClientAssumption
<1>10. Land(q) => q \in crew(q)
  BY DEF crew
<1> QED  BY LocalFrame, <1>1, <1>2, <1>3, <1>4, <1>5, <1>6, <1>7, <1>8, <1>9, <1>10
         DEF Moves, Kept

(***************************************************************************)
(* No answer to any operation carries the session key of a TGT, a          *)
(* cross-realm one that libkrb5 left in the cache included.                *)
(***************************************************************************)
THEOREM KeySafety == Spec => []NoTGTKeyInReplies
<1>1. Init => NoTGTKeyInReplies
  BY DEF Init, NoTGTKeyInReplies, Threads
<1>2. TypeInv /\ NoTGTKeyInReplies /\ [Next]_vars => NoTGTKeyInReplies'
  <2>1. CASE UNCHANGED vars
    BY <2>1 DEF vars, NoTGTKeyInReplies
  <2> QED  BY <2>1, NoTGTKeyNext
<1> QED  BY <1>1, <1>2, TypeAlways, PTL DEF Spec

-----------------------------------------------------------------------------
(* Evictions.                                                              *)

\* What a scan found stays stale until the removals are done.
DoomedAreStale ==
    \A p \in Threads : pc[p] = "evict" =>
        \A d \in stale[p] : /\ ~isConfigPrincipal(d.server)
                            /\ mustEvict(d, IF tgt = Nil THEN Nil ELSE tgt.cred, now[p])

\* Every step keeps the doomed stale.
LEMMA DoomedNext ==
    ASSUME TypeInv, LockExclusive, DoomedAreStale, Next
    PROVE  DoomedAreStale'
<1> USE DEF TypeInv, TypeOK
<1> SUFFICES ASSUME NEW q \in Threads, pc'[q] = "evict", NEW d \in stale'[q]
             PROVE  /\ ~isConfigPrincipal(d.server)
                    /\ mustEvict(d, IF tgt' = Nil THEN Nil ELSE tgt'.cred, now'[q])
  BY DEF DoomedAreStale
<1>1. CASE Kept(q)
  <2>1. UNCHANGED tgt
    BY <1>1, WriteFrame DEF Kept, Reading
  <2> QED  BY <1>1, <2>1 DEF Kept, DoomedAreStale
<1>2. CASE Sweep(q)
  BY <1>2 DEF Sweep, staleEntries
<1>3. ASSUME NEW p \in Procs, Land(p), q \in crew(p) PROVE FALSE
  BY <1>3 DEF Land
<1>4. ASSUME MaintainStep(q) PROVE Sweep(q)
  <2>1. ~Evict(q)
    BY AfterMaintain DEF Evict, Goto
  <2> QED  BY <1>4, <2>1 DEF MaintainStep, Maintain, Reload, Adopt, RenewStart, RenewExchange,
                             RenewInstall, Goto, afterCheck
<1>5. ASSUME q \in Procs, RequestStep(q) PROVE FALSE
  <2>1. ~Retrieve(q) /\ ~Enumerate(q) /\ ~Return(q) /\ ~List(q)
    BY DEF Retrieve, Enumerate, Return, List, Answer, BeginMaintain, Goto
  <2>2. ~Initialize(q) /\ ~Store(q) /\ ~Remove(q)
    BY DEF Initialize, Store, Remove, CanWrite
  <2>3. ~Destroy(q) /\ ~DestroyInitialize(q) /\ ~KinitKCM(q) /\ ~KinitStore(q)
    BY DEF Destroy, DestroyInitialize, KinitKCM, KinitStore, Goto
  <2>4. ~Lookup(q) /\ ~Lead(q) /\ ~Tgs(q)
    BY DEF Lookup, Lead, Tgs, Landed, Answer, Goto
  <2>5. ~Land(q)
    BY <1>5, <1>3 DEF crew
  <2> QED  BY <1>5, <2>1, <2>2, <2>3, <2>4, <2>5 DEF RequestStep
<1>6. ASSUME q \in Background, LoopStep(q) PROVE FALSE
  BY <1>6 DEF LoopStep, Wake, Plan, BeginMaintain, Goto
<1> QED  BY LocalFrame, <1>1, <1>2, <1>3, <1>4, <1>5, <1>6 DEF Moves

\* The lock keeps them so, whoever else runs.
LEMMA DoomedAlways == Spec => []DoomedAreStale
<1>1. Init => DoomedAreStale
  BY DEF Init, DoomedAreStale
<1>2. TypeInv /\ LockExclusive /\ DoomedAreStale /\ [Next]_vars => DoomedAreStale'
  <2>1. CASE UNCHANGED vars
    BY <2>1 DEF vars, DoomedAreStale
  <2> QED  BY <2>1, DoomedNext
<1> QED  BY <1>1, <1>2, TypeAlways, LockAlways, PTL DEF Spec

\* Leaving the removals, a thread has taken out only stale entries.
LEMMA EvictStep ==
    ASSUME TypeInv, DoomedAreStale, Next, NEW q \in Threads,
           pc[q] = "evict", pc'[q] # "evict"
    PROVE  creds \ creds' \subseteq staleEntries(creds, tgt, now[q])
<1> USE DEF TypeInv, TypeOK
<1>1. Evict(q)
  <2>1. ~Kept(q)
    BY DEF Kept
  <2>2. ASSUME NEW p \in Procs, Land(p) PROVE q \notin crew(p)
    BY <2>2 DEF Land, crew
  <2>3. MaintainStep(q) => Evict(q)
    BY DEF MaintainStep, Maintain, Reload, Adopt, RenewStart, RenewExchange, RenewInstall, Sweep
  <2>4. ~RequestStep(q)
    BY DEF RequestStep, Retrieve, Lookup, Lead, Tgs, Land, Enumerate, List, Return, Initialize,
           Store, Remove, CanWrite, Destroy, DestroyInitialize, KinitKCM, KinitStore
  <2>5. ~LoopStep(q)
    BY DEF LoopStep, Wake, Plan
  <2> QED  BY LocalFrame, <2>1, <2>2, <2>3, <2>4, <2>5 DEF Moves
<1>2. creds' = evicted(creds, stale[q])
  BY <1>1 DEF Evict
<1>3. ASSUME NEW c \in creds, c \notin creds'
      PROVE  c \in staleEntries(creds, tgt, now[q])
  <2>1. PICK d \in stale[q] : samePrincipals(d, c) /\ sameTimes(d, c)
    BY <1>2, <1>3 DEF evicted, cc_remove_exact
  <2>2. /\ ~isConfigPrincipal(d.server)
        /\ mustEvict(d, IF tgt = Nil THEN Nil ELSE tgt.cred, now[q])
    BY DEF DoomedAreStale
  <2>3. c.server = d.server /\ c.client = d.client /\ c.end = d.end
    BY <2>1 DEF samePrincipals, sameTimes
  <2> QED  BY <2>2, <2>3 DEF staleEntries, mustEvict, remaining
<1> QED  BY <1>3

(***************************************************************************)
(* sweep's removals take only what is stale for the TGT held when they     *)
(* take effect, although they happen after the scan and other readers      *)
(* store tickets meanwhile: the read lock keeps the TGT in place, and the  *)
(* exact match on times spares a fresh ticket for the same service.        *)
(***************************************************************************)
THEOREM EvictionSafety == Spec => EvictsOnlyStale
<1>1. TypeInv /\ DoomedAreStale /\ [Next]_vars =>
        [\A p \in Threads : pc[p] = "evict" /\ pc'[p] # "evict" =>
            creds \ creds' \subseteq staleEntries(creds, tgt, now[p])]_vars
  BY EvictStep
<1> QED  BY <1>1, TypeAlways, DoomedAlways, PTL DEF Spec, EvictsOnlyStale

-----------------------------------------------------------------------------
(* File checks.                                                            *)

\* Only Reload records a file check, and only when one is due, so that the time
\* recorded never goes back, whichever thread comes first.
LEMMA FileCheckStep ==
    ASSUME TypeInv, Next, lastFileCheck' # lastFileCheck
    PROVE  lastFileCheck' >= lastFileCheck + FileCheckInterval
<1>1. ASSUME NEW p \in Threads, Reload(p)
      PROVE  lastFileCheck' >= lastFileCheck + FileCheckInterval
  <2>1. fileCheckDue(now[p], lastFileCheck) /\ lastFileCheck' = now[p]
    BY <1>1 DEF Reload
  <2> QED  BY <2>1, PolicyAssumption DEF fileCheckDue, TypeInv, TypeOK, PolicyAssumption
<1>2. ASSUME NEW p \in Threads, MaintainStep(p) PROVE Reload(p)
  BY <1>2 DEF MaintainStep, Maintain, Adopt, RenewStart, RenewExchange, RenewInstall, Sweep,
              Evict
<1>3. ASSUME NEW p \in Procs, RequestStep(p) PROVE FALSE
  BY <1>3 DEF RequestStep, Retrieve, Lookup, Lead, Tgs, Land, Enumerate, List, Return,
              Initialize, Store, Remove, Destroy, DestroyInitialize, KinitKCM, KinitStore
<1>4. ASSUME NEW p \in Background, LoopStep(p) PROVE FALSE
  BY <1>4 DEF LoopStep, Wake, Plan
<1>5. ~Tick /\ ~ChangeFile
  BY DEF Tick, ChangeFile
<1> QED  BY <1>1, <1>2, <1>3, <1>4, <1>5 DEF Next

=============================================================================
