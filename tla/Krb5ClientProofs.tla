-------------------------- MODULE Krb5ClientProofs --------------------------
(***************************************************************************)
(* Theorems about Krb5Client, for every value of its constants.            *)
(***************************************************************************)
EXTENDS Krb5Client, TLAPS

-----------------------------------------------------------------------------
(* Type facts about the operators the actions are built from.              *)

\* A pair is a sequence, as krbtgt needs.
LEMMA PairSeq ==
    ASSUME NEW S, NEW x \in S, NEW y \in S
    PROVE  <<x, y>> \in Seq(S)
OBVIOUS

\* The shorter of two lives is an integer.
LEMMA MinType ==
    ASSUME NEW a \in Int, NEW b \in Int
    PROVE  min(a, b) \in Int
BY DEF min

\* krbtgt(to, realm) is a principal.
LEMMA KrbtgtType ==
    ASSUME ClientAssumption, NEW r \in Names, NEW r2 \in Names
    PROVE  krbtgt(r2, r) \in Principal
<1>1. <<"krbtgt", r2>> \in Seq(Names)
  BY PairSeq DEF ClientAssumption
<1> QED  BY <1>1 DEF Principal, krbtgt

\* A TGT as kinit obtains it is a credential.
LEMMA TicketTypes ==
    ASSUME PolicyAssumption, ClientAssumption, NEW c \in Principal, NEW t \in Int,
           NEW life \in Nat, NEW rl \in Nat, NEW fl \in SUBSET {Renewable}
    PROVE  newTGT(c, t, life, rl, fl) \in Cred
<1>1. krbtgt(c.realm, c.realm) \in Principal
  <2>1. c.realm \in Names
    BY DEF Principal
  <2> QED  BY <2>1, KrbtgtType
<1>2. ZeroTime \in Int
  BY DEF PolicyAssumption, ZeroTime
<1> QED  BY <1>1, <1>2 DEF newTGT, Cred

\* So is a service ticket issued under any credential.
LEMMA ServiceTicketType ==
    ASSUME PolicyAssumption, NEW g \in Cred, NEW s \in Principal, NEW t \in Int,
           NEW life \in Nat
    PROVE  newTicket(g, s, t, life) \in Cred
BY DEF newTicket, min, Cred, PolicyAssumption, ZeroTime

\* So is a renewed TGT.
LEMMA RenewedType ==
    ASSUME NEW g \in Cred, NEW t \in Int
    PROVE  renewedTGT(g, t) \in Cred
<1>1. g.end \in Int /\ g.start \in Int /\ g.renewTill \in Int
  BY DEF Cred
<1>2. t + (g.end - g.start) \in Int
  BY <1>1
<1>3. min(t + (g.end - g.start), g.renewTill) \in Int
  BY <1>1, <1>2, MinType
<1> QED  BY <1>3 DEF renewedTGT, Cred

\* And so are the cross-realm TGTs left on the way.
LEMMA ReferralsType ==
    ASSUME PolicyAssumption, ClientAssumption, NEW g \in Cred, NEW s \in Principal,
           NEW t \in Int, NEW life \in Nat
    PROVE  referrals(g, s, t, life) \subseteq Cred
<1> SUFFICES \A r \in {s.realm} \ {g.client.realm} :
               newTicket(g, krbtgt(r, g.client.realm), t, life) \in Cred
  BY DEF referrals
<1> TAKE r \in {s.realm} \ {g.client.realm}
<1>1. r \in Names /\ g.client.realm \in Names
  BY DEF Cred, Principal
<1>2. krbtgt(r, g.client.realm) \in Principal
  BY <1>1, KrbtgtType
<1> QED  BY <1>2, ServiceTicketType

\* storeTGT's copy is a credential.
LEMMA ClearedType ==
    ASSUME NEW c \in Cred
    PROVE  cleared(c) \in Cred
BY DEF cleared, Cred

\* What peekTGT finds is one of the file's credentials, or nothing.
LEMMA PeekType ==
    ASSUME NEW s \in Seq(Cred)
    PROVE  peekTGT(s) \in Cred \cup {Nil}
<1>1. CASE firstTGT(s) = {}
  BY <1>1 DEF peekTGT
<1>2. CASE firstTGT(s) # {}
  <2>1. (CHOOSE i \in firstTGT(s) : TRUE) \in firstTGT(s)
    BY <1>2
  <2>2. firstTGT(s) \subseteq DOMAIN s
    BY DEF firstTGT
  <2> QED  BY <1>2, <2>1, <2>2 DEF peekTGT
<1> QED  BY <1>1, <1>2

\* loadFrom leaves credentials in the cache.
LEMMA LoadType ==
    ASSUME NEW s \in Seq(Cred), NEW t \in Int
    PROVE  loadFrom(s, t) \subseteq Cred
<1>1. \A i \in firstTGT(s) : cleared(s[i]) \in Cred
  BY ClearedType DEF firstTGT
<1>2. {s[i] : i \in DOMAIN s} \subseteq Cred
  OBVIOUS
<1> QED  BY <1>1, <1>2 DEF loadFrom

\* setTGT leaves credentials in the cache.
LEMMA SetTGTType ==
    ASSUME NEW cs \in SUBSET Cred, NEW held, NEW c \in Cred
    PROVE  setTGT(cs, held, c) \in SUBSET Cred
BY ClearedType DEF setTGT, storeTGT, cc_store_cred, cc_remove_exact

\* A listed entry has the type of an answer.
LEMMA ListedType ==
    ASSUME NEW c \in Cred, NEW held \in TGTInfo \cup {Nil}
    PROVE  listed(c, held) \in [cred : Cred, key : BOOLEAN]
BY DEF listed, Cred, TGTInfo

\* kinit obtains credentials.
LEMMA KinitTypes ==
    ASSUME PolicyAssumption, ClientAssumption, NEW c \in Principal, NEW t \in Int
    PROVE  kinitTGTs(c, t) \subseteq Cred
<1> SUFFICES ASSUME NEW life \in TGTLives, NEW rl \in RenewLives, NEW fl \in TGTFlags
             PROVE  newTGT(c, t, life, rl, fl) \in Cred
  BY DEF kinitTGTs
<1>1. life \in Nat /\ rl \in Nat /\ fl \in SUBSET {Renewable}
  BY DEF ClientAssumption
<1> QED  BY <1>1, TicketTypes

\* What kinit writes is a cache file.
LEMMA FilesType ==
    ASSUME PolicyAssumption, ClientAssumption, NEW c \in Clients, NEW t \in Nat,
           NEW s \in fileContents(c, t)
    PROVE  cacheFile(c, s) \in File
<1>1. c \in Principal
  BY DEF ClientAssumption
<1>2. kinitTGTs(c, t) \subseteq Cred
  BY <1>1, KinitTypes
<1>3. CASE s = <<>>
  BY <1>1, <1>3 DEF cacheFile, File
<1>4. ASSUME NEW g \in kinitTGTs(c, t), s = <<g>>
      PROVE  cacheFile(c, s) \in File
  <2>1. g \in Cred
    BY <1>2
  <2>2. s \in Seq(Cred)
    BY <1>4, <2>1
  <2> QED  BY <1>1, <2>2 DEF cacheFile, File
<1>5. ASSUME NEW g \in kinitTGTs(c, t), NEW v \in StoreServers, NEW life \in SvcLives,
             s = <<newTicket(g, v, t, life), g>>
      PROVE  cacheFile(c, s) \in File
  <2>1. g \in Cred
    BY <1>2
  <2>2. v \in Principal /\ life \in Nat /\ t \in Int
    BY DEF ClientAssumption
  <2>3. newTicket(g, v, t, life) \in Cred
    BY <2>1, <2>2, ServiceTicketType
  <2>4. s \in Seq(Cred)
    BY <1>5, <2>1, <2>3, PairSeq
  <2> QED  BY <1>1, <2>4 DEF cacheFile, File
<1> QED  BY <1>3, <1>4, <1>5 DEF fileContents

\* The loop's next wake-up is a time.
LEMMA WakeType ==
    ASSUME PolicyAssumption, NEW c \in Cred \cup {Nil}, NEW t \in Int, NEW r \in Int
    PROVE  nextWake(c, t, r) \in Int
<1>1. ASSUME c \in Cred PROVE renewPoint(c) \in Int
  BY <1>1 DEF renewPoint, Cred
<1> QED  BY <1>1 DEF nextWake, PolicyAssumption

-----------------------------------------------------------------------------
(* Type correctness.  TypeOK is not inductive alone: Adopt initialises the *)
(* cache with seen[p], Tgs asks for req[p].server, and so on, so that the  *)
(* locals have to be known to be set where they are used (LocalsSet).      *)

\* A thread's locals are set where the code uses them: a principal it has read
\* before it initialises the cache with it, the TGT a renewal started from, a
\* request that is not for a TGT and whose key the flight group knows.
LocalsSet ==
    /\ \A p \in Background : /\ req[p] = LoopRequest
                             /\ pc[p] \in InMaintain \cup {"sleep", "plan", "skipped", "panic"}
    /\ \A p \in Procs : req[p].op # "loop" /\ pc[p] \notin {"sleep", "plan", "skipped"}
    /\ \A p \in Threads :
          /\ pc[p] \in {"adopt", "destroy", "kinit"} => seen[p] # Nil
          /\ pc[p] \in {"exchange", "install"} => started[p] # Nil
          /\ pc[p] \in InMaintain => req[p].op # "none"
          /\ pc[p] \in {"lookup", "lead", "joined", "tgs", "land"} => req[p].op = "retrieve"
          /\ pc[p] = "list" => req[p].op \in {"list", "entry"}
          /\ pc[p] \in {"land", "reply", "refused"} => result[p] # Nil
          /\ pc[p] = "tgs" => req[p].server # Nil
          /\ req[p].op = "retrieve" =>
                /\ matchKey(req[p]) \in Keys
                /\ pc[p] # "refused" /\ req[p].server # Nil => ~isTGTServer(req[p].server)

TypeInv == TypeOK /\ LocalsSet

\* Open leaves everything well typed.
LEMMA TypeInit == Init => TypeInv
<1> SUFFICES ASSUME Init PROVE TypeInv
  OBVIOUS
<1> USE DEF Init, Open
<1>1. file \in File /\ file.creds \in Seq(Cred) /\ file.princ \in Principal
  <2>1. file \in File
    BY FilesType, PolicyAssumption, ClientAssumption
  <2> QED  BY <2>1 DEF File
<1>2. peekTGT(file.creds) \in Cred \cup {Nil}
  BY <1>1, PeekType
<1>3. creds \subseteq Cred
  BY <1>1, LoadType
<1>4. tgt \in TGTInfo \cup {Nil}
  BY <1>2 DEF TGTInfo
<1>5. ZeroTime \in Int
  BY PolicyAssumption DEF PolicyAssumption, ZeroTime
<1>6. TypeOK
  <2>1. NoRequest \in Request /\ LoopRequest \in Request
    BY DEF Request, NoRequest, LoopRequest
  <2>2. pc \in [Threads -> Labels]
    BY DEF Labels
  <2>3. req \in [Threads -> Request]
    BY <2>1
  <2>4. /\ princ \in Principal
        /\ lastFileCheck \in Int
        /\ renewRetryAt \in Int
        /\ renewBackoff \in Nat
        /\ flights \in [Keys -> Procs \cup {Nil}]
        /\ clock \in Nat
        /\ wakeAt \in Int
    BY <1>1, <1>5
  <2>6. renewing \in BOOLEAN
    BY Zenon
  <2>5. /\ now \in [Threads -> Nat]
        /\ seen \in [Threads -> Principal \cup {Nil}]
        /\ started \in [Threads -> TGTInfo \cup {Nil}]
        /\ renewed \in [Threads -> Cred \cup {Nil}]
        /\ stale \in [Threads -> SUBSET Cred]
        /\ result \in [Threads -> Result \cup {Nil}]
    OBVIOUS
  <2> QED  BY <1>1, <1>3, <1>4, <2>2, <2>3, <2>4, <2>5, <2>6 DEF TypeOK
<1>7. LocalsSet
  BY ClientAssumption
     DEF ClientAssumption, LocalsSet, InMaintain, NoRequest, LoopRequest, Threads
<1> QED  BY <1>6, <1>7 DEF TypeInv

\* What a client may STORE is a credential.
LEMMA StorableType ==
    ASSUME PolicyAssumption, ClientAssumption, NEW c \in Principal, clock \in Nat
    PROVE  storable(c) \subseteq Cred
<1>1. kinitTGTs(c, clock) \subseteq Cred
  BY KinitTypes
<1>2. ZeroTime \in Int
  BY DEF PolicyAssumption, ZeroTime
<1>3. ASSUME NEW s \in StoreServers PROVE configEntry(c, s) \in Cred
  <2>1. newTGT(c, ZeroTime, 0, 0, {}) \in Cred
    BY <1>2, TicketTypes
  <2> QED  BY <2>1 DEF configEntry, Cred, ClientAssumption
<1>4. ASSUME NEW s \in StoreServers, NEW life \in SvcLives
      PROVE  newTicket(newTGT(c, clock, life, 0, {}), s, clock, life) \in Cred
  <2>1. s \in Principal /\ life \in Nat
    BY DEF ClientAssumption
  <2>2. newTGT(c, clock, life, 0, {}) \in Cred
    BY <2>1, TicketTypes
  <2> QED  BY <2>1, <2>2, ServiceTicketType
<1> QED  BY <1>1, <1>3, <1>4 DEF storable

\* Where a thread goes from maintain, by the operation it runs.
LEMMA AfterMaintain ==
    ASSUME TypeInv, NEW p \in Threads, pc[p] \in {"sweep", "evict"}
    PROVE  /\ afterMaintain(p) \in {"lookup", "list", "plan"}
           /\ p \in Background => afterMaintain(p) = "plan"
           /\ p \in Procs => afterMaintain(p) # "plan"
           /\ afterMaintain(p) = "lookup" => req[p].op = "retrieve"
           /\ afterMaintain(p) = "list" => req[p].op \in {"list", "entry"}
BY ClientAssumption, SMTT(20)
   DEF afterMaintain, TypeInv, TypeOK, LocalsSet, ClientAssumption, InMaintain, Threads, Labels,
       Request, cache, backoff, world, renewal, LoopRequest

\* Every action preserves the types and the facts about locals.
LEMMA TypeNext ==
    ASSUME TypeInv, Next
    PROVE  TypeInv'
<1> USE PolicyAssumption, ClientAssumption
<1>z. ZeroTime \in Int
  BY DEF PolicyAssumption, ZeroTime
<1>i. ASSUME NEW c \in Cred, install(c)
      PROVE  /\ creds' \in SUBSET Cred
             /\ tgt' \in TGTInfo \cup {Nil}
             /\ renewBackoff' \in Nat
             /\ renewRetryAt' \in Int
  BY <1>i, <1>z, SetTGTType DEF install, freePtrs, TGTInfo, resetRenewBackoff, TypeInv, TypeOK
<1>s. ASSUME NEW c \in Cred, store(c)
      PROVE  /\ creds' \in SUBSET Cred
             /\ tgt' \in TGTInfo \cup {Nil}
             /\ renewBackoff' \in Nat
             /\ renewRetryAt' \in Int
  BY <1>s, <1>i DEF store, cc_store_cred, TypeInv, TypeOK, backoff
<1>n. ASSUME NEW c \in Principal, initialize(c)
      PROVE  /\ princ' \in Principal
             /\ creds' \in SUBSET Cred
             /\ tgt' \in TGTInfo \cup {Nil}
             /\ renewBackoff' \in Nat
             /\ renewRetryAt' \in Int
  BY <1>n, <1>z DEF initialize, resetRenewBackoff
<1>1. ASSUME NEW p \in Threads, Maintain(p) PROVE TypeInv'
  <2>1. TypeOK'
    BY <1>1, SMTT(20)
       DEF Maintain, TypeInv, TypeOK, LocalsSet, ClientAssumption, InMaintain, Threads,
           Labels, Request, cache, backoff, world, renewal, Goto, afterCheck
  <2>2. LocalsSet'
    BY <1>1, SMTT(20)
       DEF Maintain, TypeInv, TypeOK, LocalsSet, ClientAssumption, InMaintain, Threads,
           Labels, Request, cache, backoff, world, renewal, Goto, afterCheck
  <2> QED  BY <2>1, <2>2 DEF TypeInv
<1>2. ASSUME NEW p \in Threads, Reload(p) PROVE TypeInv'
  <2>1. newer(file, tgt, now[p]) => file.princ \in Principal 
    BY DEF newer, TypeInv, TypeOK, File
  <2>1a. newer(file, tgt, now[p]) => file.princ # Nil
    BY <2>1 DEF ClientAssumption
  <2>2. lastFileCheck' \in Int
    BY <1>2 DEF Reload, TypeInv, TypeOK
  <2>3. /\ seen' \in [Threads -> Principal \cup {Nil}]
        /\ pc' \in [Threads -> Labels]
        /\ pc[p] = "reload"
        /\ pc'[p] \in {"adopt", "renew", "sweep"}
        /\ pc'[p] = "adopt" => seen'[p] # Nil
        /\ \A q \in Threads \ {p} : pc'[q] = pc[q] /\ seen'[q] = seen[q]
    BY <1>2, <2>1, <2>1a, SMTT(20)
       DEF Reload, Goto, afterCheck, readPrincipal, TypeInv, TypeOK, LocalsSet, ClientAssumption,
           InMaintain, Threads, Labels, Request, cache, backoff, world, renewal
  <2>4. TypeOK'
    BY <1>2, <2>2, <2>3 DEF Reload, TypeInv, TypeOK, cache, backoff, world, renewal
  <2>5. UNCHANGED <<req, started, result>>
    BY <1>2 DEF Reload, renewal
  <2>6. LocalsSet'
    BY <2>3, <2>5, SMTT(20)
       DEF TypeInv, TypeOK, LocalsSet, ClientAssumption, InMaintain, Threads, Labels,
           Request, cache, backoff, world, renewal
  <2> QED  BY <2>4, <2>6 DEF TypeInv
<1>3. ASSUME NEW p \in Threads, Adopt(p) PROVE TypeInv'
  <2>1. pc[p] = "adopt" /\ princ' = seen[p] /\ seen' = [seen EXCEPT ![p] = Nil]
    BY <1>3 DEF Adopt
  <2>2. princ' \in Principal
    BY <2>1 DEF TypeInv, TypeOK, LocalsSet
  <2>3. file # Nil => file.creds \in Seq(Cred)
    BY DEF TypeInv, TypeOK, File
  <2>4. creds' \in SUBSET Cred
    BY <1>3, <2>3, LoadType DEF Adopt, TypeInv, TypeOK
  <2>5. tgt' \in TGTInfo \cup {Nil}
    <3>1. CASE tgt' = Nil
      BY <3>1
    <3>2. CASE /\ file # Nil /\ peekTGT(file.creds) # Nil
               /\ \E a \in freePtrs : tgt' = [ptr |-> a, cred |-> peekTGT(file.creds)]
      BY <3>2, <2>3, PeekType DEF freePtrs, TGTInfo
    <3> QED  BY <1>3, <3>1, <3>2 DEF Adopt
  <2>6. renewBackoff' \in Nat /\ renewRetryAt' \in Int
    BY <1>3, <1>z DEF Adopt, TypeInv, TypeOK, resetRenewBackoff, backoff
  <2>7. \E l \in {"sweep", "panic", "renew"} : pc' = [pc EXCEPT ![p] = l]
    BY <1>3 DEF Adopt, Goto, afterCheck
  <2>8. TypeOK'
    BY <1>3, <2>1, <2>2, <2>4, <2>5, <2>6, <2>7
       DEF Adopt, TypeInv, TypeOK, Labels, world, renewal
  <2>9. UNCHANGED <<req, started, result>>
    BY <1>3 DEF Adopt, renewal
  <2>10. LocalsSet'
    BY <2>1, <2>7, <2>9, SMTT(20)
       DEF TypeInv, TypeOK, LocalsSet, ClientAssumption, InMaintain, Threads, Labels,
           Request, cache, backoff, world, renewal
  <2> QED  BY <2>8, <2>10 DEF TypeInv
<1>4. ASSUME NEW p \in Threads, RenewStart(p) PROVE TypeInv'
  <2>1. TypeOK'
    <3>1. renewing' \in BOOLEAN
      BY <1>4, Zenon DEF RenewStart, TypeInv, TypeOK
    <3>2. pc' \in [Threads -> Labels] /\ started' \in [Threads -> TGTInfo \cup {Nil}]
      BY <1>4 DEF RenewStart, TypeInv, TypeOK, Goto, Labels
    <3> QED  BY <1>4, <3>1, <3>2
             DEF RenewStart, TypeInv, TypeOK, cache, backoff, world, renewal
  <2>2. LocalsSet'
    BY <1>4, SMTT(20)
       DEF RenewStart, mayRenew, TypeInv, TypeOK, LocalsSet, ClientAssumption, InMaintain, Threads,
           Labels, Request, cache, backoff, world, renewal, Goto
  <2> QED  BY <2>1, <2>2 DEF TypeInv
<1>5. ASSUME NEW p \in Threads, RenewExchange(p) PROVE TypeInv'
  <2>1. started[p] \in TGTInfo
    BY <1>5 DEF RenewExchange, TypeInv, TypeOK, LocalsSet
  <2>2. PICK r \in {Nil} \cup {renewedTGT(g, clock) :
                    g \in {c \in {started[p].cred} : kdcRenews(c, clock)}} :
          renewed' = [renewed EXCEPT ![p] = r]
    BY <1>5 DEF RenewExchange
  <2>3. r \in Cred \cup {Nil}
    BY <2>1, <2>2, RenewedType DEF TGTInfo, TypeInv, TypeOK
  <2>4. TypeOK'
    BY <1>5, <2>2, <2>3
       DEF RenewExchange, Goto, Labels, TypeInv, TypeOK, cache, backoff, world, renewal
  <2>5. LocalsSet'
    BY <1>5, SMTT(20)
       DEF RenewExchange, Goto, TypeInv, TypeOK, LocalsSet, ClientAssumption, InMaintain,
           Threads, Labels, Request, cache, backoff, world, renewal
  <2> QED  BY <2>4, <2>5 DEF TypeInv
<1>6. ASSUME NEW p \in Threads, RenewInstall(p) PROVE TypeInv'
  <2>1. /\ creds' \in SUBSET Cred
        /\ tgt' \in TGTInfo \cup {Nil}
        /\ renewBackoff' \in Nat
        /\ renewRetryAt' \in Int
    <3>1. CASE UNCHANGED <<creds, tgt, backoff>>
      BY <3>1 DEF backoff, TypeInv, TypeOK
    <3>2. CASE noteRenewFailure(now[p]) /\ UNCHANGED <<creds, tgt>>
      <4>1. nextBackoff(renewBackoff) \in Nat
        BY DEF nextBackoff, PolicyAssumption, TypeInv, TypeOK
      <4> QED  BY <3>2, <4>1 DEF noteRenewFailure, TypeInv, TypeOK
    <3>3. CASE renewed[p] # Nil /\ install(renewed[p])
      BY <3>3, <1>i DEF TypeInv, TypeOK
    <3> QED  BY <1>6, <3>1, <3>2, <3>3 DEF RenewInstall
  <2>2. renewing' \in BOOLEAN
    BY <1>6, Zenon DEF RenewInstall, endRenewing
  <2>3. /\ pc[p] = "install"
        /\ pc' = [pc EXCEPT ![p] = "sweep"]
        /\ started' = [started EXCEPT ![p] = Nil]
        /\ renewed' = [renewed EXCEPT ![p] = Nil]
    BY <1>6 DEF RenewInstall, Goto
  <2>4. TypeOK'
    BY <1>6, <2>1, <2>2, <2>3 DEF RenewInstall, Labels, TypeInv, TypeOK, world
  <2>5. UNCHANGED <<req, seen, result>>
    BY <1>6 DEF RenewInstall
  <2>6. LocalsSet'
    BY <2>3, <2>5, SMTT(20)
       DEF TypeInv, TypeOK, LocalsSet, ClientAssumption, InMaintain, Threads, Labels,
           Request, cache, backoff, world, renewal
  <2> QED  BY <2>4, <2>6 DEF TypeInv
<1>7. ASSUME NEW p \in Threads, Sweep(p) PROVE TypeInv'
  <2>1. TypeOK'
    BY <1>7, AfterMaintain, SMTT(20)
       DEF Sweep, TypeInv, TypeOK, LocalsSet, ClientAssumption, InMaintain, Threads,
           Labels, Request, cache, backoff, world, renewal, Goto, staleEntries
  <2>2. LocalsSet'
    <3>1. stale'[p] = {} => pc' = [pc EXCEPT ![p] = afterMaintain(p)]
      BY <1>7 DEF Sweep, Goto
    <3>2. stale'[p] # {} => pc' = [pc EXCEPT ![p] = "evict"]
      BY <1>7 DEF Sweep, Goto
    <3>3. pc[p] = "sweep" /\ UNCHANGED <<req, seen, started, result>>
      BY <1>7 DEF Sweep, renewal
    <3> QED  BY <3>1, <3>2, <3>3, AfterMaintain, SMTT(20)
         DEF TypeInv, TypeOK, LocalsSet, ClientAssumption, InMaintain,
             Threads, Labels, Request, cache, backoff, world, renewal
  <2> QED  BY <2>1, <2>2 DEF TypeInv
<1>8. ASSUME NEW p \in Threads, Evict(p) PROVE TypeInv'
  <2>1. TypeOK'
    BY <1>8, AfterMaintain, SMTT(20)
       DEF Evict, TypeInv, TypeOK, LocalsSet, ClientAssumption, InMaintain, Threads,
           Labels, Request, cache, backoff, world, renewal, Goto, evicted, cc_remove_exact
  <2>2. LocalsSet'
    <3>1. /\ pc[p] = "evict"
          /\ pc' = [pc EXCEPT ![p] = afterMaintain(p)]
          /\ UNCHANGED <<req, seen, started, result>>
      BY <1>8 DEF Evict, Goto, renewal
    <3> QED  BY <3>1, AfterMaintain, SMTT(20)
         DEF TypeInv, TypeOK, LocalsSet, ClientAssumption, InMaintain,
             Threads, Labels, Request, cache, backoff, world, renewal
  <2> QED  BY <2>1, <2>2 DEF TypeInv
<1>9. ASSUME NEW p \in Procs, Retrieve(p) PROVE TypeInv'
  <2>0. PICK c \in MatchClients, s \in MatchServers :
          LET r == [op |-> "retrieve", client |-> c, server |-> s]
          IN  IF s # Nil /\ isTGTServer(s)
              THEN /\ req' = [req EXCEPT ![p] = r]
                   /\ result' = [result EXCEPT ![p] = [code |-> "FCCPerm", entries |-> {}]]
                   /\ Goto(p, "refused")
                   /\ UNCHANGED now
              ELSE BeginMaintain(p, r) /\ UNCHANGED result
    BY <1>9 DEF Retrieve
  <2> DEFINE r == [op |-> "retrieve", client |-> c, server |-> s]
  <2>1. r \in Request /\ matchKey(r) \in Keys /\ r.op = "retrieve" /\ r.server = s
    BY DEF Request, matchKey, Keys, ClientAssumption
  <2> HIDE DEF r
  <2>2. req' = [req EXCEPT ![p] = r]
    BY <2>0 DEF BeginMaintain, r
  <2>3. pc[p] = "idle"
    BY <1>9 DEF Retrieve
  <2>4. CASE s # Nil /\ isTGTServer(s)
    <3>1. /\ result' = [result EXCEPT ![p] = [code |-> "FCCPerm", entries |-> {}]]
          /\ pc' = [pc EXCEPT ![p] = "refused"]
          /\ UNCHANGED now
      BY <2>0, <2>4 DEF Goto
    <3>2. [code |-> "FCCPerm", entries |-> {}] \in Result
      BY DEF Result, Codes
    <3>2a. [code |-> "FCCPerm", entries |-> {}] # Nil
      BY <3>2 DEF ClientAssumption
    <3>3. TypeOK'
      BY <1>9, <2>1, <2>2, <3>1, <3>2
         DEF Retrieve, TypeInv, TypeOK, Labels, cache, backoff, world, renewal
    <3>4. UNCHANGED <<seen, started>>
      BY <1>9 DEF Retrieve, renewal
    <3>5. LocalsSet'
      BY <2>1, <2>2, <2>3, <3>1, <3>2a, <3>4, SMTT(20)
         DEF TypeInv, TypeOK, LocalsSet, ClientAssumption, InMaintain, Threads, Labels,
             Request, cache, backoff, world, renewal
    <3> QED  BY <3>3, <3>5 DEF TypeInv
  <2>5. CASE ~(s # Nil /\ isTGTServer(s))
    <3>1. /\ now' = [now EXCEPT ![p] = clock]
          /\ pc' = [pc EXCEPT ![p] = "maintain"]
          /\ UNCHANGED result
      BY <2>0, <2>5 DEF Goto, BeginMaintain
    <3>3. TypeOK'
      BY <1>9, <2>1, <2>2, <3>1
         DEF Retrieve, TypeInv, TypeOK, Labels, cache, backoff, world, renewal
    <3>4. UNCHANGED <<seen, started>>
      BY <1>9 DEF Retrieve, renewal
    <3>5. LocalsSet'
      BY <2>1, <2>2, <2>3, <2>5, <3>1, <3>4, SMTT(20)
         DEF TypeInv, TypeOK, LocalsSet, ClientAssumption, InMaintain, Threads, Labels,
             Request, cache, backoff, world, renewal
    <3> QED  BY <3>3, <3>5 DEF TypeInv
  <2> QED  BY <2>4, <2>5
<1>10. ASSUME NEW p \in Procs, Lookup(p) PROVE TypeInv'
  <2>1. TypeOK'
    BY <1>10, SMTT(20)
       DEF Lookup, inFlight, TypeInv, TypeOK, LocalsSet, ClientAssumption, InMaintain, Threads,
           Labels, Request, cache, backoff, world, renewal, Goto, Answer, Result, Codes
  <2>2. LocalsSet'
    BY <1>10, SMTT(20)
       DEF Lookup, inFlight, TypeInv, TypeOK, LocalsSet, ClientAssumption, InMaintain, Threads,
           Labels, Request, cache, backoff, world, renewal, Goto, Answer, Result, Codes
  <2> QED  BY <2>1, <2>2 DEF TypeInv
<1>11. ASSUME NEW p \in Procs, Lead(p) PROVE TypeInv'
  <2>1. ASSUME NEW c \in {"Malformed", "CCNotFound", "NoTGT"}
        PROVE  [code |-> c, entries |-> {}] \in Result
    BY DEF Result, Codes
  <2>2. ASSUME NEW c \in creds
        PROVE  [code |-> "OK", entries |-> {[cred |-> c, key |-> TRUE]}] \in Result
    BY DEF Result, Codes, TypeInv, TypeOK
  <2>3. \/ pc' = [pc EXCEPT ![p] = "tgs"] /\ result' = result /\ req[p].server # Nil
        \/ /\ pc' = [pc EXCEPT ![p] = "land"]
           /\ \E x \in Result : result' = [result EXCEPT ![p] = x]
    BY <1>11, <2>1, <2>2 DEF Lead, Landed, Goto, cc_lookup
  <2>4. TypeOK'
    BY <1>11, <2>3
       DEF Lead, Labels, TypeInv, TypeOK, cache, backoff, world, renewal, Threads
  <2>5. UNCHANGED <<req, seen, started>> /\ pc[p] = "lead"
    BY <1>11 DEF Lead, renewal
  <2>6. LocalsSet'
    BY <2>3, <2>5, SMTT(20)
       DEF TypeInv, TypeOK, LocalsSet, ClientAssumption, InMaintain, Threads, Labels,
           Request, cache, backoff, world, renewal
  <2> QED  BY <2>4, <2>6 DEF TypeInv
<1>12. ASSUME NEW p \in Procs, Tgs(p) PROVE TypeInv'
  <2>1. req[p].server \in Principal /\ usableTGTs(p) \subseteq Cred /\ clock \in Int
    BY <1>12 DEF Tgs, usableTGTs, cc_lookup, TypeInv, TypeOK, LocalsSet, Request, Threads
  <2>2. ASSUME NEW g \in usableTGTs(p), NEW life \in SvcLives
        PROVE  /\ newTicket(g, req[p].server, clock, life) \in Cred
               /\ referrals(g, req[p].server, clock, life) \subseteq Cred
    <3>1. g \in Cred /\ life \in Nat
      BY <2>1 DEF ClientAssumption
    <3> QED  BY <2>1, <3>1, ServiceTicketType, ReferralsType
  <2>3. creds' \in SUBSET Cred /\ \E x \in Result : result' = [result EXCEPT ![p] = x]
    <3>1. CASE Landed(p, "KDCError", {}) /\ UNCHANGED creds
      <4>1. [code |-> "KDCError", entries |-> {}] \in Result
        BY DEF Result, Codes
      <4> QED  BY <3>1, <4>1 DEF Landed, TypeInv, TypeOK
    <3>2. ASSUME NEW g \in usableTGTs(p), NEW life \in SvcLives,
                creds' = cc_store_cred(creds, newTicket(g, req[p].server, clock, life))
                                 \cup referrals(g, req[p].server, clock, life),
                 Landed(p, "OK", {[cred |-> newTicket(g, req[p].server, clock, life),
                                 key |-> TRUE]})
          PROVE  /\ creds' \in SUBSET Cred
                 /\ \E x \in Result : result' = [result EXCEPT ![p] = x]
      <4> DEFINE c == newTicket(g, req[p].server, clock, life)
      <4>1. c \in Cred
        BY <2>2
      <4>2. creds' \in SUBSET Cred
        BY <3>2, <2>2 DEF cc_store_cred, TypeInv, TypeOK
      <4>3. result' = [result EXCEPT
                          ![p] = [code |-> "OK", entries |-> {[cred |-> c, key |-> TRUE]}]]
        BY <3>2 DEF Landed
      <4> HIDE DEF c
      <4>4. [code |-> "OK", entries |-> {[cred |-> c, key |-> TRUE]}] \in Result
        BY <4>1 DEF Result, Codes
      <4> QED  BY <4>2, <4>3, <4>4
    <3> QED  BY <1>12, <3>1, <3>2 DEF Tgs
  <2>4. pc[p] = "tgs" /\ pc' = [pc EXCEPT ![p] = "land"]
    BY <1>12 DEF Tgs, Landed, Goto
  <2>5. TypeOK'
    BY <1>12, <2>3, <2>4 DEF Tgs, Labels, TypeInv, TypeOK, backoff, world, renewal, Threads
  <2>6. UNCHANGED <<req, seen, started>>
    BY <1>12 DEF Tgs, renewal
  <2>7. LocalsSet'
    BY <2>3, <2>4, <2>6, SMTT(20)
       DEF TypeInv, TypeOK, LocalsSet, ClientAssumption, InMaintain, Threads, Labels,
           Request, cache, backoff, world, renewal
  <2> QED  BY <2>5, <2>7 DEF TypeInv
<1>13. ASSUME NEW p \in Procs, Land(p) PROVE TypeInv'
  <2>1. TypeOK'
    BY <1>13, SMTT(20)
       DEF Land, crew, deleteFlight, TypeInv, TypeOK, LocalsSet, ClientAssumption, InMaintain, Threads, Labels,
           Request, cache, backoff, world, renewal, matchKey
  <2>2. LocalsSet'
    BY <1>13, SMTT(20)
       DEF Land, crew, deleteFlight, TypeInv, TypeOK, LocalsSet, ClientAssumption, InMaintain, Threads, Labels,
           Request, cache, backoff, world, renewal, matchKey
  <2> QED  BY <2>1, <2>2 DEF TypeInv
<1>14. ASSUME NEW p \in Procs, Enumerate(p) PROVE TypeInv'
  <2>1. TypeOK'
    BY <1>14, SMTT(20)
       DEF Enumerate, TypeInv, TypeOK, LocalsSet, ClientAssumption, InMaintain, Threads,
           Labels, Request, cache, backoff, world, renewal, Goto, BeginMaintain, NoRequest
  <2>2. LocalsSet'
    BY <1>14, SMTT(20)
       DEF Enumerate, TypeInv, TypeOK, LocalsSet, ClientAssumption, InMaintain, Threads,
           Labels, Request, cache, backoff, world, renewal, Goto, BeginMaintain, NoRequest
  <2> QED  BY <2>1, <2>2 DEF TypeInv
<1>15. ASSUME NEW p \in Procs, List(p) PROVE TypeInv'
  <2>1. \A c \in creds : listed(c, tgt) \in [cred : Cred, key : BOOLEAN]
    BY ListedType DEF TypeInv, TypeOK
  <2>2. ASSUME NEW e \in SUBSET [cred : Cred, key : BOOLEAN], NEW d \in {"OK", "CCNotFound"}
        PROVE  [code |-> d, entries |-> e] \in Result
    BY DEF Result, Codes
  <2>3. \E e \in SUBSET [cred : Cred, key : BOOLEAN], d \in {"OK", "CCNotFound"} :
          Answer(p, d, e)
    <3> DEFINE real == {c \in creds : ~isConfigPrincipal(c.server)}
    <3>1. {listed(c, tgt) : c \in real} \in SUBSET [cred : Cred, key : BOOLEAN]
      BY <2>1
    <3>2. \A c \in real : {listed(c, tgt)} \in SUBSET [cred : Cred, key : BOOLEAN]
      BY <2>1
    <3>3. {} \in SUBSET [cred : Cred, key : BOOLEAN]
      OBVIOUS
    <3>4. \/ Answer(p, "OK", {listed(c, tgt) : c \in real})
          \/ \E c \in real : Answer(p, "OK", {listed(c, tgt)})
          \/ Answer(p, "CCNotFound", {})
      BY <1>15, Zenon DEF List
    <3> QED  BY <3>1, <3>2, <3>3, <3>4
  <2>4. /\ \E x \in Result : result' = [result EXCEPT ![p] = x]
        /\ pc' = [pc EXCEPT ![p] = "reply"]
    BY <2>2, <2>3 DEF Answer, Goto
  <2>5. TypeOK'
    BY <1>15, <2>4
       DEF List, Labels, TypeInv, TypeOK, cache, backoff, world, renewal, Threads
  <2>6. UNCHANGED <<req, seen, started>> /\ pc[p] = "list"
    BY <1>15 DEF List, renewal
  <2>7. LocalsSet'
    BY <2>4, <2>6, SMTT(20)
       DEF TypeInv, TypeOK, LocalsSet, ClientAssumption, InMaintain, Threads, Labels,
           Request, cache, backoff, world, renewal
  <2> QED  BY <2>5, <2>7 DEF TypeInv
<1>16. ASSUME NEW p \in Procs, Return(p) PROVE TypeInv'
  <2>1. TypeOK'
    BY <1>16, SMTT(20)
       DEF Return, TypeInv, TypeOK, LocalsSet, ClientAssumption, InMaintain, Threads,
           Labels, Request, cache, backoff, world, renewal, Goto, NoRequest
  <2>2. LocalsSet'
    BY <1>16, SMTT(20)
       DEF Return, TypeInv, TypeOK, LocalsSet, ClientAssumption, InMaintain, Threads,
           Labels, Request, cache, backoff, world, renewal, Goto, NoRequest
  <2> QED  BY <2>1, <2>2 DEF TypeInv
<1>17. ASSUME NEW p \in Procs, Initialize(p) PROVE TypeInv'
  <2>1. TypeOK'
    BY <1>17, <1>n DEF Initialize, TypeInv, TypeOK, world, renewal
  <2>2. LocalsSet'
    BY <1>17 DEF Initialize, TypeInv, LocalsSet, renewal
  <2> QED  BY <2>1, <2>2 DEF TypeInv
<1>18. ASSUME NEW p \in Procs, Store(p) PROVE TypeInv'
  <2>1. \E x \in Cred : store(x)
    BY <1>18, StorableType DEF Store, ClientAssumption, TypeInv, TypeOK
  <2>2. TypeOK'
    BY <1>18, <2>1, <1>s DEF Store, TypeInv, TypeOK, world, renewal
  <2>3. LocalsSet'
    BY <1>18 DEF Store, TypeInv, LocalsSet, renewal
  <2> QED  BY <2>2, <2>3 DEF TypeInv
<1>19. ASSUME NEW p \in Procs, Remove(p) PROVE TypeInv'
  <2>1. TypeOK'
    BY <1>19, SMTT(20)
       DEF Remove, TypeInv, TypeOK, LocalsSet, ClientAssumption, InMaintain, Threads,
           Labels, Request, cache, backoff, world, renewal, CanWrite, cc_remove_cred
  <2>2. LocalsSet'
    BY <1>19, SMTT(20)
       DEF Remove, TypeInv, TypeOK, LocalsSet, ClientAssumption, InMaintain, Threads,
           Labels, Request, cache, backoff, world, renewal, CanWrite, cc_remove_cred
  <2> QED  BY <2>1, <2>2 DEF TypeInv
<1>20. ASSUME NEW p \in Procs, Destroy(p) PROVE TypeInv'
  <2>1. TypeOK'
    BY <1>20, SMTT(20)
       DEF Destroy, TypeInv, TypeOK, LocalsSet, ClientAssumption, InMaintain, Threads,
           Labels, Request, cache, backoff, world, renewal, Goto
  <2>2. LocalsSet'
    BY <1>20, SMTT(20)
       DEF Destroy, TypeInv, TypeOK, LocalsSet, ClientAssumption, InMaintain, Threads,
           Labels, Request, cache, backoff, world, renewal, Goto
  <2> QED  BY <2>1, <2>2 DEF TypeInv
<1>21. ASSUME NEW p \in Procs, DestroyInitialize(p) PROVE TypeInv'
  <2>1. seen[p] \in Principal
    BY <1>21 DEF DestroyInitialize, TypeInv, TypeOK, LocalsSet, Threads
  <2>2. TypeOK'
    BY <1>21, <2>1, <1>n
       DEF DestroyInitialize, Goto, Labels, TypeInv, TypeOK, world, renewal
  <2>3. LocalsSet'
    BY <1>21, SMTT(20)
       DEF DestroyInitialize, Goto, TypeInv, TypeOK, LocalsSet, ClientAssumption,
           InMaintain, Threads, Labels, Request, cache, backoff, world, renewal
  <2> QED  BY <2>2, <2>3 DEF TypeInv
<1>22. ASSUME NEW p \in Procs, KinitKCM(p) PROVE TypeInv'
  <2>1. PICK c \in Principal : initialize(c) /\ seen' = [seen EXCEPT ![p] = c]
    BY <1>22 DEF KinitKCM, ClientAssumption
  <2>2. TypeOK'
    BY <1>22, <2>1, <1>n DEF KinitKCM, Goto, Labels, TypeInv, TypeOK, world, renewal
  <2>3. /\ pc[p] = "idle"
        /\ pc' = [pc EXCEPT ![p] = "kinit"]
        /\ UNCHANGED <<req, started, result>>
    BY <1>22 DEF KinitKCM, CanWrite, Goto, renewal
  <2>4. LocalsSet'
    BY <2>1, <2>3, SMTT(20)
       DEF TypeInv, TypeOK, LocalsSet, ClientAssumption, InMaintain, Threads, Labels,
           Request, cache, backoff, world, renewal
  <2> QED  BY <2>2, <2>4 DEF TypeInv
<1>23. ASSUME NEW p \in Procs, KinitStore(p) PROVE TypeInv'
  <2>1. seen[p] \in Principal
    BY <1>23 DEF KinitStore, TypeInv, TypeOK, LocalsSet, Threads
  <2>2. \E x \in Cred : store(x)
    BY <1>23, <2>1, KinitTypes DEF KinitStore, TypeInv, TypeOK
  <2>3. TypeOK'
    BY <1>23, <2>2, <1>s DEF KinitStore, Goto, Labels, TypeInv, TypeOK, world, renewal
  <2>4. LocalsSet'
    BY <1>23, SMTT(20)
       DEF KinitStore, Goto, TypeInv, TypeOK, LocalsSet, ClientAssumption, InMaintain,
           Threads, Labels, Request, cache, backoff, world, renewal
  <2> QED  BY <2>3, <2>4 DEF TypeInv
<1>24. ASSUME NEW p \in Background, Wake(p) PROVE TypeInv'
  <2>1. TypeOK'
    BY <1>24, SMTT(20)
       DEF Wake, TypeInv, TypeOK, LocalsSet, ClientAssumption, InMaintain, Threads, Labels,
           Request, cache, backoff, world, renewal, Goto, BeginMaintain, LoopRequest
  <2>2. LocalsSet'
    BY <1>24, SMTT(20)
       DEF Wake, TypeInv, TypeOK, LocalsSet, ClientAssumption, InMaintain, Threads, Labels,
           Request, cache, backoff, world, renewal, Goto, BeginMaintain, LoopRequest
  <2> QED  BY <2>1, <2>2 DEF TypeInv
<1>25. ASSUME NEW p \in Background, Plan(p) PROVE TypeInv'
  <2>1. TypeOK'
    <3>1. wakeAt' \in Int
      BY <1>25, WakeType DEF Plan, TypeInv, TypeOK, TGTInfo, Threads
    <3> QED  BY <1>25, <3>1
             DEF Plan, Goto, Labels, TypeInv, TypeOK, cache, backoff, world, renewal
  <2>2. LocalsSet'
    BY <1>25, SMTT(20)
       DEF Plan, TypeInv, TypeOK, LocalsSet, ClientAssumption, InMaintain, Threads, Labels,
           Request, cache, backoff, world, renewal, Goto
  <2> QED  BY <2>1, <2>2 DEF TypeInv
<1>26. ASSUME Tick PROVE TypeInv'
  BY <1>26 DEF Tick, TypeInv, TypeOK, LocalsSet, cache, backoff, world, renewal
<1>27. ASSUME ChangeFile PROVE TypeInv'
  <2>1. file' \in File \cup {Nil}
    <3>1. ASSUME NEW c \in Clients, NEW s \in fileContents(c, clock), file' = cacheFile(c, s)
          PROVE  file' \in File
      BY <3>1, FilesType DEF TypeInv, TypeOK
    <3>2. ASSUME file # Nil, NEW n \in 0..Len(file.creds),
                file' = [file EXCEPT !.creds = SubSeq(@, 1, n), !.torn = TRUE]
          PROVE file' \in File
      <4>1. file \in File /\ file.creds \in Seq(Cred)
        BY <3>2 DEF TypeInv, TypeOK, File
      <4>2. SubSeq(file.creds, 1, n) \in Seq(Cred)
        BY <4>1
      <4> QED  BY <3>2, <4>1, <4>2 DEF File
    <3> QED  BY <1>27, <3>1, <3>2 DEF ChangeFile
  <2>2. TypeOK'
    BY <1>27, <2>1 DEF ChangeFile, TypeInv, TypeOK, cache, backoff, renewal
  <2>3. LocalsSet'
    BY <1>27 DEF ChangeFile, TypeInv, LocalsSet, renewal
  <2> QED  BY <2>2, <2>3 DEF TypeInv
<1> QED  BY <1>1, <1>2, <1>3, <1>4, <1>5, <1>6, <1>7, <1>8, <1>9, <1>10, <1>11, <1>12,
           <1>13, <1>14, <1>15, <1>16, <1>17, <1>18, <1>19, <1>20, <1>21, <1>22, <1>23,
           <1>24, <1>25, <1>26, <1>27
         DEF Next, MaintainStep, RequestStep, LoopStep

\* And so does stuttering.
LEMMA TypeStutter ==
    ASSUME TypeInv, UNCHANGED vars
    PROVE  TypeInv'
BY DEF TypeInv, TypeOK, LocalsSet, vars, cache, backoff, world, renewal

\* Types and locals together.
LEMMA TypeAlways == Spec => []TypeInv
<1>1. TypeInv /\ [Next]_vars => TypeInv'
  BY TypeNext, TypeStutter
<1> QED  BY <1>1, TypeInit, PTL DEF Spec

(***************************************************************************)
(* Whatever the constants, the Client's fields, the file and every thread's *)
(* locals keep their types.                                                 *)
(***************************************************************************)
THEOREM TypeCorrect == Spec => []TypeOK
<1>1. TypeInv => TypeOK
  BY DEF TypeInv
<1> QED  BY <1>1, TypeAlways, PTL

=============================================================================
