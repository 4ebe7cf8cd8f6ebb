------------------------- MODULE Krb5ClientIdentity -------------------------
(***************************************************************************)
(* Whose TGT the Client of Krb5Client holds, and which TGTs its cache      *)
(* holds, for every value of the constants.                                *)
(***************************************************************************)
EXTENDS Krb5ClientSafety

-----------------------------------------------------------------------------
(* TGTs in a file and in the cache.                                        *)

\* storeTGT's copy differs in the flags only.
LEMMA ClearedFields ==
    ASSUME NEW c \in Cred
    PROVE  /\ samePrincipals(cleared(c), c) /\ sameTimes(cleared(c), c)
           /\ Renewable \notin cleared(c).flags
BY DEF cleared, Cred, samePrincipals, sameTimes

\* peekTGT finds the first local TGT there is, and loadFrom the same one.
LEMMA PeekedTGT ==
    ASSUME NEW s \in Seq(Cred)
    PROVE  /\ peekTGT(s) = Nil <=> firstTGT(s) = {}
           /\ \A i \in firstTGT(s) : i \in DOMAIN s /\ peekTGT(s) = s[i]
           /\ peekTGT(s) # Nil => isLocalTGT(peekTGT(s).client, peekTGT(s).server)
<1>1. Nil \notin Cred
  BY ClientAssumption DEF ClientAssumption
<1>2. DOMAIN s \subseteq Int
  OBVIOUS
<1>3. ASSUME NEW i \in firstTGT(s)
      PROVE  i \in DOMAIN s /\ s[i] \in Cred /\ isLocalTGT(s[i].client, s[i].server)
  BY <1>3 DEF firstTGT
<1>4. ASSUME NEW i \in firstTGT(s), NEW j \in firstTGT(s) PROVE i = j
  <2>1. i <= j /\ j <= i
    BY <1>4 DEF firstTGT
  <2> QED  BY <1>2, <1>3, <2>1
<1>5. CASE firstTGT(s) = {}
  BY <1>5 DEF peekTGT
<1>6. CASE firstTGT(s) # {}
  <2>1. PICK i \in firstTGT(s) : peekTGT(s) = s[i]
    BY <1>6 DEF peekTGT
  <2> QED  BY <1>1, <1>3, <1>4, <2>1
<1> QED  BY <1>5, <1>6

\* The only local TGT a load leaves in the cache is the peeked one's copy.
LEMMA LoadedTGT ==
    ASSUME NEW s \in Seq(Cred), NEW t \in Int
    PROVE  /\ peekTGT(s) # Nil => cleared(peekTGT(s)) \in loadFrom(s, t)
           /\ \A c \in loadFrom(s, t) :
                 isLocalTGT(c.client, c.server) => peekTGT(s) # Nil /\ c = cleared(peekTGT(s))
<1>1. \A i \in firstTGT(s) : cleared(s[i]) = cleared(peekTGT(s))
  BY PeekedTGT
<1>2. peekTGT(s) # Nil => cleared(peekTGT(s)) \in loadFrom(s, t)
  BY <1>1, PeekedTGT DEF loadFrom
<1>3. ASSUME NEW c \in loadFrom(s, t), isLocalTGT(c.client, c.server)
      PROVE  peekTGT(s) # Nil /\ c = cleared(peekTGT(s))
  BY <1>1, <1>3, PeekedTGT DEF loadFrom
<1> QED  BY <1>2, <1>3

\* What kinit obtains is a local TGT.
LEMMA KinitLocal ==
    ASSUME NEW c \in Principal, NEW t \in Int, NEW g \in kinitTGTs(c, t)
    PROVE  g \in Cred /\ g.client = c /\ isLocalTGT(g.client, g.server)
<1>1. g \in Cred
  BY KinitTypes, PolicyAssumption, ClientAssumption
<1>2. g.client = c /\ g.server = krbtgt(c.realm, c.realm)
  BY DEF kinitTGTs, newTGT
<1>3. isLocalTGT(c, krbtgt(c.realm, c.realm))
  BY DEF isLocalTGT, isTGTServer, krbtgt
<1> QED  BY <1>1, <1>2, <1>3

-----------------------------------------------------------------------------
(* What a step does to the cache and the TGTs.                             *)

Wipe(p) == Initialize(p) \/ DestroyInitialize(p) \/ KinitKCM(p)

StoreStep(p) == Store(p) \/ KinitStore(p)

\* Everything else leaves them alone.
LEMMA CacheSteps ==
    ASSUME Next
    PROVE  \/ UNCHANGED <<princ, creds, tgt, started, renewed>>
           \/ \E p \in Threads : Adopt(p) \/ RenewalStep(p) \/ Evict(p)
           \/ \E p \in Procs : Tgs(p) \/ Remove(p) \/ Wipe(p) \/ StoreStep(p)
<1>1. ASSUME NEW p \in Threads, MaintainStep(p)
      PROVE  \/ UNCHANGED <<princ, creds, tgt, started, renewed>>
             \/ Adopt(p) \/ RenewalStep(p) \/ Evict(p)
  BY <1>1 DEF MaintainStep, RenewalStep, Maintain, Reload, Sweep, cache, renewal
<1>2. ASSUME NEW p \in Procs, RequestStep(p)
      PROVE  \/ UNCHANGED <<princ, creds, tgt, started, renewed>>
             \/ Tgs(p) \/ Remove(p) \/ Wipe(p) \/ StoreStep(p)
  BY <1>2 DEF RequestStep, Wipe, StoreStep, Retrieve, Lookup, Lead, Land, Enumerate, List, Return,
              Destroy, cache, renewal
<1>3. ASSUME NEW p \in Background, LoopStep(p)
      PROVE  UNCHANGED <<princ, creds, tgt, started, renewed>>
  BY <1>3 DEF LoopStep, Wake, Plan, cache, renewal
<1>4. ASSUME Tick \/ ChangeFile
      PROVE  UNCHANGED <<princ, creds, tgt, started, renewed>>
  BY <1>4 DEF Tick, ChangeFile, cache, renewal
<1> QED  BY <1>1, <1>2, <1>3, <1>4 DEF Next

\* INITIALIZE, on its own or as part of another operation.
LEMMA WipeEffect ==
    ASSUME NEW p \in Procs, Wipe(p)
    PROVE  creds' = {} /\ tgt' = Nil /\ UNCHANGED <<started, renewed>>
BY DEF Wipe, Initialize, DestroyInitialize, KinitKCM, initialize, renewal

\* install replaces the held TGT's copy by that of the new one, which has an
\* address of its own.
LEMMA InstallEffect ==
    ASSUME TypeInv, NEW c \in Cred, install(c)
    PROVE  /\ creds' = (creds \ {d \in creds : /\ tgt # Nil
                                               /\ samePrincipals(tgt.cred, d)
                                               /\ sameTimes(tgt.cred, d)}) \cup {cleared(c)}
           /\ tgt' # Nil /\ tgt'.cred = c
           /\ tgt # Nil => tgt'.ptr # tgt.ptr
           /\ \A q \in Threads : started[q] # Nil => tgt'.ptr # started[q].ptr
<1>1. PICK a \in freePtrs : tgt' = [ptr |-> a, cred |-> c]
  BY DEF install
<1>2. a \in Ptrs
  BY DEF freePtrs
<1>3. tgt' # Nil
  <2>1. tgt' \in TGTInfo
    BY <1>1, <1>2 DEF TGTInfo
  <2> QED  BY <2>1, ClientAssumption DEF ClientAssumption
<1>4. creds' = setTGT(creds, tgt, c)
  BY DEF install
<1> QED  BY <1>1, <1>3, <1>4 DEF freePtrs, setTGT, storeTGT, cc_store_cred, cc_remove_exact

\* STORE: the principal's own TGT is installed, everything else just kept.
LEMMA StoreEffect ==
    ASSUME TypeInv, NEW p \in Procs, StoreStep(p)
    PROVE  /\ UNCHANGED <<princ, started, renewed>>
           /\ \E d \in Principal : \E c \in storable(d) :
                 /\ c \in Cred
                 /\ \/ isLocalTGT(c.client, c.server) /\ c.client = princ /\ install(c)
                    \/ /\ ~(isLocalTGT(c.client, c.server) /\ c.client = princ)
                       /\ creds' = creds \cup {c} /\ UNCHANGED tgt
<1>1. UNCHANGED <<princ, started, renewed>>
  BY DEF StoreStep, Store, KinitStore, renewal
<1>2. PICK d \in Principal : \E c \in storable(d) : store(c)
  <2>1. CASE Store(p)
    BY <2>1, ClientAssumption DEF Store, ClientAssumption
  <2>2. CASE KinitStore(p)
    <3>1. seen[p] \in Principal
      BY <2>2 DEF TypeInv, TypeOK, LocalsSet, KinitStore, Threads
    <3> QED  BY <2>2, <3>1 DEF KinitStore, storable
  <2> QED  BY <2>1, <2>2 DEF StoreStep
<1>3. PICK c \in storable(d) : store(c)
  BY <1>2
<1>4. c \in Cred
  BY <1>3, StorableType, PolicyAssumption, ClientAssumption DEF TypeInv, TypeOK
<1> QED  BY <1>1, <1>3, <1>4 DEF store, cc_store_cred

\* renewTGT's second critical section installs only over the TGT it started
\* from.
LEMMA RenewalEffect ==
    ASSUME TypeInv, NEW p \in Threads, RenewInstall(p)
    PROVE  /\ pc[p] = "install" /\ UNCHANGED princ
           /\ started' = [started EXCEPT ![p] = Nil]
           /\ renewed' = [renewed EXCEPT ![p] = Nil]
           /\ \/ UNCHANGED <<creds, tgt>>
              \/ /\ tgt # Nil /\ started[p] # Nil /\ tgt.ptr = started[p].ptr
                 /\ renewed[p] \in Cred /\ renewed[p] # Nil
                 /\ install(renewed[p])
<1>1. pc[p] = "install" /\ started[p] # Nil
  BY DEF RenewInstall, TypeInv, LocalsSet
<1>2. CASE UNCHANGED <<creds, tgt>>
  BY <1>1, <1>2 DEF RenewInstall
<1>3. CASE ~replaced(tgt, started[p]) /\ renewed[p] # Nil /\ install(renewed[p])
  <2>1. renewed[p] \in Cred
    BY <1>3 DEF TypeInv, TypeOK
  <2> QED  BY <1>1, <1>3, <2>1 DEF RenewInstall, replaced
<1> QED  BY <1>2, <1>3 DEF RenewInstall

\* The rest of loadNewerTGT.
LEMMA AdoptEffect ==
    ASSUME TypeInv, NEW p \in Threads, Adopt(p)
    PROVE  /\ pc[p] = "adopt" /\ princ' = seen[p] /\ UNCHANGED <<started, renewed>>
           /\ \/ file = Nil /\ creds' = {} /\ tgt' = Nil
              \/ /\ file \in File /\ file.creds \in Seq(Cred)
                 /\ creds' = loadFrom(file.creds, now[p])
                 /\ \/ file.torn /\ tgt' = Nil
                    \/ peekTGT(file.creds) = Nil /\ tgt' = Nil
                    \/ /\ ~file.torn
                       /\ peekTGT(file.creds) # Nil /\ peekTGT(file.creds) \in Cred
                       /\ tgt' # Nil /\ tgt'.cred = peekTGT(file.creds)
                       /\ tgt # Nil => tgt'.ptr # tgt.ptr
                       /\ \A q \in Threads : started[q] # Nil => tgt'.ptr # started[q].ptr
<1>1. pc[p] = "adopt" /\ princ' = seen[p] /\ UNCHANGED <<started, renewed>>
  BY DEF Adopt, renewal
<1>2. CASE file = Nil
  BY <1>1, <1>2 DEF Adopt
<1>3. CASE file # Nil
  <2>1. file \in File /\ file.creds \in Seq(Cred)
    BY <1>3 DEF TypeInv, TypeOK, File
  <2>2. creds' = loadFrom(file.creds, now[p])
    BY <1>3 DEF Adopt
  <2>3. CASE file.torn /\ tgt' = Nil
    BY <1>1, <2>1, <2>2, <2>3
  <2>4. CASE peekTGT(file.creds) = Nil /\ tgt' = Nil
    BY <1>1, <2>1, <2>2, <2>4
  <2>5. CASE /\ ~file.torn /\ peekTGT(file.creds) # Nil
             /\ \E a \in freePtrs : tgt' = [ptr |-> a, cred |-> peekTGT(file.creds)]
    <3>1. PICK a \in freePtrs : tgt' = [ptr |-> a, cred |-> peekTGT(file.creds)]
      BY <2>5
    <3>2. peekTGT(file.creds) \in Cred
      BY <2>1, <2>5, PeekType
    <3>3. tgt' \in TGTInfo
      BY <3>1, <3>2 DEF TGTInfo, freePtrs
    <3>4. tgt' # Nil
      BY <3>3, ClientAssumption DEF ClientAssumption
    <3> QED  BY <1>1, <2>1, <2>2, <2>5, <3>1, <3>2, <3>4 DEF freePtrs
  <2> QED  BY <1>3, <2>3, <2>4, <2>5 DEF Adopt
<1> QED  BY <1>2, <1>3

-----------------------------------------------------------------------------
(* The held TGT and its copy.                                              *)

local(c) == isLocalTGT(c.client, c.server)

\* Whatever is held, or being renewed, is a local TGT.
HeldAreTGTs ==
    /\ tgt # Nil => local(tgt.cred)
    /\ \A p \in Threads : /\ started[p] # Nil => local(started[p].cred)
                          /\ renewed[p] # Nil => local(renewed[p])

\* What the KDC makes of a TGT has its principals.
LEMMA RenewedFields ==
    ASSUME NEW g \in Cred, NEW t \in Int
    PROVE  samePrincipals(renewedTGT(g, t), g)
BY DEF renewedTGT, Cred, samePrincipals

\* renewTGT's first critical section and its exchange leave the cache alone.
LEMMA ExchangeEffect ==
    ASSUME TypeInv, NEW p \in Threads, RenewStart(p) \/ RenewExchange(p)
    PROVE  /\ UNCHANGED <<princ, creds, tgt>>
           /\ \/ UNCHANGED <<started, renewed>>
              \/ /\ pc[p] = "renew" /\ tgt # Nil
                 /\ started' = [started EXCEPT ![p] = tgt] /\ UNCHANGED renewed
              \/ /\ pc[p] = "exchange" /\ started[p] \in TGTInfo /\ started[p] # Nil
                 /\ UNCHANGED started
                 /\ \/ renewed' = [renewed EXCEPT ![p] = Nil]
                    \/ /\ kdcRenews(started[p].cred, clock)
                       /\ renewed' = [renewed EXCEPT ![p] = renewedTGT(started[p].cred, clock)]
<1> USE DEF TypeInv, TypeOK
<1>1. CASE RenewStart(p)
  BY <1>1 DEF RenewStart, mayRenew, cache
<1>2. CASE RenewExchange(p)
  <2>1. pc[p] = "exchange" /\ UNCHANGED <<princ, creds, tgt, started>>
    BY <1>2 DEF RenewExchange, cache
  <2>2. started[p] \in TGTInfo /\ started[p] # Nil
    BY <2>1 DEF LocalsSet
  <2>3. \/ renewed' = [renewed EXCEPT ![p] = Nil]
        \/ /\ kdcRenews(started[p].cred, clock)
           /\ renewed' = [renewed EXCEPT ![p] = renewedTGT(started[p].cred, clock)]
    BY <1>2 DEF RenewExchange
  <2> QED  BY <2>1, <2>2, <2>3
<1> QED  BY <1>1, <1>2

\* Every step keeps it so.
LEMMA HeldNext ==
    ASSUME TypeInv, HeldAreTGTs, Next
    PROVE  HeldAreTGTs'
<1> USE DEF TypeInv, TypeOK, HeldAreTGTs
<1>1. CASE UNCHANGED <<tgt, started, renewed>>
  BY <1>1
<1>2. ASSUME NEW p \in Threads, Adopt(p) PROVE HeldAreTGTs'
  <2>1. UNCHANGED <<started, renewed>>
    BY <1>2, AdoptEffect
  <2>2. tgt' # Nil => /\ file.creds \in Seq(Cred) /\ peekTGT(file.creds) # Nil
                      /\ tgt'.cred = peekTGT(file.creds)
    BY <1>2, AdoptEffect
  <2> QED  BY <2>1, <2>2, PeekedTGT DEF local
<1>3. ASSUME NEW p \in Threads, RenewStart(p) \/ RenewExchange(p) PROVE HeldAreTGTs'
  <2>1. ASSUME started[p] \in TGTInfo, started[p] # Nil
        PROVE  local(renewedTGT(started[p].cred, clock))
    <3>1. started[p].cred \in Cred /\ clock \in Int
      BY <2>1 DEF TGTInfo
    <3> QED  BY <2>1, <3>1, RenewedFields DEF local, samePrincipals
  <2> QED  BY <1>3, <2>1, ExchangeEffect
<1>4. ASSUME NEW p \in Threads, RenewInstall(p) PROVE HeldAreTGTs'
  <2>1. tgt' # Nil => tgt' = tgt \/ (renewed[p] # Nil /\ tgt'.cred = renewed[p])
    BY <1>4, RenewalEffect, InstallEffect
  <2> QED  BY <1>4, <2>1, RenewalEffect
<1>5. ASSUME NEW p \in Procs, StoreStep(p) PROVE HeldAreTGTs'
  <2>1. UNCHANGED <<started, renewed>>
    BY <1>5, StoreEffect
  <2>2. tgt' = tgt \/ local(tgt'.cred)
    BY <1>5, StoreEffect, InstallEffect DEF local
  <2> QED  BY <2>1, <2>2
<1>6. ASSUME NEW p \in Procs, Wipe(p) PROVE HeldAreTGTs'
  BY <1>6, WipeEffect
<1>7. ASSUME NEW p \in Threads, Evict(p) PROVE HeldAreTGTs'
  BY <1>7, <1>1 DEF Evict, renewal
<1>8. ASSUME NEW p \in Procs, Tgs(p) \/ Remove(p) PROVE HeldAreTGTs'
  BY <1>8, <1>1 DEF Tgs, Remove, renewal
<1> QED  BY CacheSteps, <1>1, <1>2, <1>3, <1>4, <1>5, <1>6, <1>7, <1>8 DEF RenewalStep

\* So it is always.
LEMMA HeldAlways == Spec => []HeldAreTGTs
<1>1. Init => HeldAreTGTs
  <2> SUFFICES ASSUME Init PROVE HeldAreTGTs
    OBVIOUS
  <2>1. file.creds \in Seq(Cred)
    BY FilesType, PolicyAssumption, ClientAssumption DEF Init, Open, File
  <2>2. tgt # Nil => peekTGT(file.creds) # Nil /\ tgt.cred = peekTGT(file.creds)
    BY DEF Init, Open
  <2> QED  BY <2>1, <2>2, PeekedTGT DEF Init, HeldAreTGTs, local
<1>2. TypeInv /\ HeldAreTGTs /\ [Next]_vars => HeldAreTGTs'
  <2>1. CASE UNCHANGED vars
    BY <2>1 DEF vars, renewal, HeldAreTGTs
  <2> QED  BY <2>1, HeldNext
<1> QED  BY <1>1, <1>2, TypeAlways, PTL DEF Spec

\* An eviction spares every local TGT, the held one's copy included.
LEMMA EvictKeepsTGT ==
    ASSUME TypeInv, HeldAreTGTs, DoomedAreStale, NEW p \in Threads, Evict(p),
           tgt # Nil, cleared(tgt.cred) \in creds
    PROVE  cleared(tgt.cred) \in creds'
<1>1. pc[p] = "evict" /\ creds' = evicted(creds, stale[p])
  BY DEF Evict
<1>2. tgt.cred \in Cred /\ local(tgt.cred)
  BY DEF TypeInv, TypeOK, TGTInfo, HeldAreTGTs
<1>3. ASSUME NEW d \in stale[p], samePrincipals(d, cleared(tgt.cred)) PROVE FALSE
  <2>1. ~isLocalTGT(d.client, d.server)
    BY <1>1 DEF DoomedAreStale, mustEvict
  <2>2. d.client = tgt.cred.client /\ d.server = tgt.cred.server
    BY <1>2, <1>3, ClearedFields DEF samePrincipals
  <2> QED  BY <1>2, <2>1, <2>2 DEF local
<1> QED  BY <1>1, <1>3 DEF evicted, cc_remove_exact

\* Only a REMOVE takes the held TGT's copy out of the cache.
LEMMA HeldCachedStep ==
    ASSUME TypeInv, HeldAreTGTs, DoomedAreStale, Next,
           tgt' # Nil, cleared(tgt'.cred) \notin creds'
    PROVE  tgt' = tgt /\ (cleared(tgt.cred) \notin creds \/ \E p \in Procs : Remove(p))
<1> DEFINE Goal == tgt' = tgt /\ (cleared(tgt.cred) \notin creds \/ \E p \in Procs : Remove(p))
<1>1. CASE UNCHANGED <<creds, tgt>>
  BY <1>1
<1>2. ASSUME NEW c \in Cred, install(c) PROVE FALSE
  BY <1>2, InstallEffect
<1>3. ASSUME NEW p \in Threads, Adopt(p) PROVE FALSE
  <2>1. /\ file.creds \in Seq(Cred) /\ creds' = loadFrom(file.creds, now[p])
        /\ peekTGT(file.creds) # Nil /\ tgt'.cred = peekTGT(file.creds)
    BY <1>3, AdoptEffect
  <2> QED  BY <2>1, LoadedTGT DEF TypeInv, TypeOK
<1>4. ASSUME NEW p \in Threads, RenewalStep(p) PROVE Goal
  <2>1. CASE RenewInstall(p)
    BY <2>1, <1>1, <1>2, RenewalEffect
  <2> QED  BY <1>1, <1>4, <2>1, ExchangeEffect DEF RenewalStep
<1>5. ASSUME NEW p \in Threads, Evict(p) PROVE Goal
  <2>1. UNCHANGED tgt
    BY <1>5 DEF Evict
  <2> QED  BY <1>5, <2>1, EvictKeepsTGT
<1>6. ASSUME NEW p \in Procs, Tgs(p) PROVE Goal
  <2>1. UNCHANGED tgt /\ creds \subseteq creds'
    BY <1>6 DEF Tgs, cc_store_cred
  <2> QED  BY <2>1
<1>7. ASSUME NEW p \in Procs, Remove(p) PROVE Goal
  BY <1>7 DEF Remove
<1>8. ASSUME NEW p \in Procs, Wipe(p) PROVE FALSE
  BY <1>8, WipeEffect
<1>9. ASSUME NEW p \in Procs, StoreStep(p) PROVE Goal
  BY <1>2, <1>9, StoreEffect
<1> QED  BY CacheSteps, <1>1, <1>3, <1>4, <1>5, <1>6, <1>7, <1>8, <1>9

(***************************************************************************)
(* The held TGT is in the cache unless a client REMOVEd it: reloads, INIT, *)
(* STORE and renewals that were in flight meanwhile put the copy of the    *)
(* TGT they leave held there, and sweep never evicts it.                   *)
(***************************************************************************)
THEOREM HeldCopySafety == Spec => HeldTGTCached
<1>1. TypeInv /\ HeldAreTGTs /\ DoomedAreStale /\ [Next]_vars =>
        [tgt' # Nil /\ cleared(tgt'.cred) \notin creds' =>
           tgt' = tgt /\ (cleared(tgt.cred) \notin creds \/ \E p \in Procs : Remove(p))]_vars
  BY HeldCachedStep
<1> QED  BY <1>1, TypeAlways, HeldAlways, DoomedAlways, PTL DEF Spec, HeldTGTCached

-----------------------------------------------------------------------------
(* No superseded TGT in the cache, provided the source file is never       *)
(* truncated: loadFrom on a file cut off after its TGT fails with the copy *)
(* already stored, and c.tgt nil.                                          *)

FileWhole == file # Nil => ~file.torn

\* A service or a referral is not a local TGT.
LEMMA TgsAddsNoTGT ==
    ASSUME TypeInv, NEW p \in Procs, Tgs(p), NEW c \in creds', c \notin creds
    PROVE  ~local(c)
<1> USE DEF TypeInv, TypeOK
<1>1. /\ pc[p] = "tgs" /\ p \in Threads /\ req[p].server # Nil
      /\ ~isTGTServer(req[p].server)
  BY DEF Tgs, LocalsSet, Threads
<1>2. PICK g \in usableTGTs(p), life \in SvcLives :
         creds' = cc_store_cred(creds, newTicket(g, req[p].server, clock, life))
                      \cup referrals(g, req[p].server, clock, life)
  BY DEF Tgs
<1>3. CASE c = newTicket(g, req[p].server, clock, life)
  BY <1>1, <1>3 DEF newTicket, local, isLocalTGT
<1>4. CASE c \in referrals(g, req[p].server, clock, life)
  <2>1. PICK r \in {req[p].server.realm} \ {g.client.realm} :
           c = newTicket(g, krbtgt(r, g.client.realm), clock, life)
    BY <1>4 DEF referrals
  <2>2. c.server = krbtgt(r, g.client.realm)
    BY <2>1 DEF newTicket
  <2>3. c.server.comps[2] = r /\ c.server.realm = g.client.realm
    BY <2>2 DEF krbtgt
  <2> QED  BY <2>1, <2>3 DEF local, isLocalTGT
<1> QED  BY <1>2, <1>3, <1>4 DEF cc_store_cred

\* Every step keeps superseded TGTs out.
LEMMA OneTGTNext ==
    ASSUME TypeInv, FileWhole, OneTGTCached, Next
    PROVE  OneTGTCached'
<1> USE DEF OneTGTCached, ownTGTs
<1>1. ASSUME UNCHANGED <<princ, tgt>>, \A c \in creds' : c \in creds \/ ~local(c) \/ c.client # princ
      PROVE  OneTGTCached'
  BY <1>1 DEF local
<1>2. ASSUME NEW c \in Cred, install(c), UNCHANGED princ PROVE OneTGTCached'
  <2>1. /\ creds' = (creds \ {d \in creds : /\ tgt # Nil
                                            /\ samePrincipals(tgt.cred, d)
                                            /\ sameTimes(tgt.cred, d)}) \cup {cleared(c)}
        /\ tgt' # Nil /\ tgt'.cred = c
    BY <1>2, InstallEffect
  <2>2. ASSUME NEW d \in ownTGTs PROVE d \notin creds' \/ d = cleared(c)
    <3>1. tgt # Nil /\ d = cleared(tgt.cred)
      OBVIOUS
    <3>2. tgt.cred \in Cred
      BY <3>1 DEF TypeInv, TypeOK, TGTInfo
    <3>3. samePrincipals(tgt.cred, d) /\ sameTimes(tgt.cred, d)
      BY <3>1, <3>2, ClearedFields DEF samePrincipals, sameTimes
    <3> QED  BY <2>1, <3>1, <3>3
  <2> QED  BY <1>2, <2>1, <2>2
<1>3. ASSUME NEW p \in Threads, Adopt(p) PROVE OneTGTCached'
  <2>1. CASE creds' = {}
    BY <2>1
  <2>2. CASE /\ file \in File /\ file.creds \in Seq(Cred)
             /\ creds' = loadFrom(file.creds, now[p])
             /\ peekTGT(file.creds) # Nil => tgt' # Nil /\ tgt'.cred = peekTGT(file.creds)
    <3>1. \A c \in creds' : isLocalTGT(c.client, c.server) =>
             peekTGT(file.creds) # Nil /\ c = cleared(peekTGT(file.creds))
      BY <2>2, LoadedTGT DEF TypeInv, TypeOK
    <3> QED  BY <2>2, <3>1
  <2>3. file # Nil => ~file.torn
    BY DEF FileWhole
  <2>4. Nil \notin File
    BY ClientAssumption DEF ClientAssumption
  <2> QED  BY <1>3, <2>1, <2>2, <2>3, <2>4, AdoptEffect
<1>4. ASSUME NEW p \in Threads, RenewalStep(p) PROVE OneTGTCached'
  <2>1. CASE RenewInstall(p)
    BY <2>1, <1>1, <1>2, RenewalEffect
  <2> QED  BY <1>1, <1>4, <2>1, ExchangeEffect DEF RenewalStep
<1>5. ASSUME NEW p \in Threads, Evict(p) PROVE OneTGTCached'
  BY <1>1, <1>5 DEF Evict, evicted
<1>6. ASSUME NEW p \in Procs, Tgs(p) PROVE OneTGTCached'
  <2>1. UNCHANGED <<princ, tgt>>
    BY <1>6 DEF Tgs
  <2> QED  BY <1>1, <1>6, <2>1, TgsAddsNoTGT
<1>7. ASSUME NEW p \in Procs, Remove(p) PROVE OneTGTCached'
  BY <1>1, <1>7 DEF Remove, cc_remove_cred
<1>8. ASSUME NEW p \in Procs, Wipe(p) PROVE OneTGTCached'
  BY <1>8, WipeEffect
<1>9. ASSUME NEW p \in Procs, StoreStep(p) PROVE OneTGTCached'
  BY <1>1, <1>2, <1>9, StoreEffect DEF local
<1> QED  BY CacheSteps, <1>1, <1>3, <1>4, <1>5, <1>6, <1>7, <1>8, <1>9

\* Only ChangeFile touches the source file.
LEMMA FileSteps ==
    ASSUME Next
    PROVE  UNCHANGED file \/ ChangeFile
BY DEF Next, MaintainStep, RequestStep, LoopStep, Maintain, Reload, Adopt, RenewStart,
       RenewExchange, RenewInstall, Sweep, Evict, Retrieve, Lookup, Lead, Tgs, Land, Enumerate,
       List, Return, Initialize, Store, Remove, Destroy, DestroyInitialize, KinitKCM, KinitStore,
       Wake, Plan, Tick, world

\* A file that is not damaged stays whole.
LEMMA WholeAlways == ASSUME ~Damage PROVE Spec => []FileWhole
<1>1. Init => FileWhole
  BY DEF Init, Open, FileWhole, cacheFile
<1>2. ASSUME FileWhole, Next PROVE FileWhole'
  <2>1. UNCHANGED file \/ ChangeFile
    BY <1>2, FileSteps
  <2>2. ASSUME ChangeFile PROVE FileWhole'
    <3>1. file' = Nil \/ \E c \in Clients : \E s \in fileContents(c, clock) : file' = cacheFile(c, s)
      BY <2>2, Zenon DEF ChangeFile
    <3>2. \A c, s : cacheFile(c, s).torn = FALSE
      BY DEF cacheFile
    <3> QED  BY <3>1, <3>2, Zenon DEF FileWhole
  <2> QED  BY <1>2, <2>1, <2>2 DEF FileWhole
<1>3. FileWhole /\ [Next]_vars => FileWhole'
  BY <1>2 DEF vars, world, FileWhole
<1> QED  BY <1>1, <1>3, PTL DEF Spec

(***************************************************************************)
(* As long as the source file is not truncated, the cache never holds a    *)
(* TGT of its principal other than the held one's non-renewable copy,      *)
(* however STOREs, renewals in flight, reloads and INITIALIZEs interleave. *)
(***************************************************************************)
THEOREM OneTGTSafety == ASSUME ~Damage PROVE Spec => []OneTGTCached
<1>1. Init => OneTGTCached
  <2> SUFFICES ASSUME Init PROVE OneTGTCached
    OBVIOUS
  <2>1. file.creds \in Seq(Cred) /\ creds = loadFrom(file.creds, clock) /\ clock \in Int
    BY FilesType, PolicyAssumption, ClientAssumption DEF Init, Open, File
  <2>2. peekTGT(file.creds) # Nil =>
          \E a \in Ptrs : tgt = [ptr |-> a, cred |-> peekTGT(file.creds)]
    BY DEF Init, Open
  <2>3. peekTGT(file.creds) # Nil => tgt # Nil /\ tgt.cred = peekTGT(file.creds)
    <3>1. peekTGT(file.creds) # Nil => tgt \in TGTInfo
      BY <2>1, <2>2, PeekType DEF TGTInfo
    <3> QED  BY <2>2, <3>1, ClientAssumption DEF ClientAssumption
  <2> QED  BY <2>1, <2>3, LoadedTGT DEF OneTGTCached, ownTGTs
<1>2. TypeInv /\ FileWhole /\ OneTGTCached /\ [Next]_vars => OneTGTCached'
  <2>1. CASE UNCHANGED vars
    BY <2>1 DEF vars, cache, OneTGTCached, ownTGTs
  <2> QED  BY <2>1, OneTGTNext
<1> QED  BY <1>1, <1>2, TypeAlways, WholeAlways, PTL DEF Spec

\* What a listing shows of the held TGT's copy is the held TGT.
LEMMA ListedCopy ==
    ASSUME TypeInv, OneTGTCached, NEW c \in creds,
           local(listed(c, tgt).cred), listed(c, tgt).cred.client = princ
    PROVE  tgt # Nil /\ listed(c, tgt).cred = tgt.cred
<1>1. c \in Cred
  BY DEF TypeInv, TypeOK
<1>2. samePrincipals(listed(c, tgt).cred, c)
  BY <1>1 DEF listed, samePrincipals, Cred
<1>3. c \in ownTGTs
  BY <1>2 DEF ownTGTs, local, samePrincipals
<1>4. tgt # Nil /\ c = cleared(tgt.cred)
  BY <1>3 DEF OneTGTCached
<1>5. isTGTServer(c.server) /\ isLocalTGT(c.client, c.server)
  BY <1>3 DEF ownTGTs, isLocalTGT
<1>6. listed(c, tgt).cred = [c EXCEPT !.flags = tgt.cred.flags]
  BY <1>4, <1>5 DEF listed
<1>7. tgt.cred \in Cred
  BY <1>4 DEF TypeInv, TypeOK, TGTInfo
<1> QED  BY <1>4, <1>6, <1>7 DEF cleared, Cred

\* Every step keeps the listings showing what is held.
LEMMA ListingNext ==
    ASSUME TypeInv, LockExclusive, OneTGTCached, ListingShowsHeldTGT, Next
    PROVE  ListingShowsHeldTGT'
<1> USE DEF TypeInv, TypeOK
<1> Procs \subseteq Threads
  BY DEF Threads
<1> SUFFICES ASSUME NEW q \in Procs, pc'[q] = "reply", req'[q].op \in {"list", "entry"},
                    NEW e \in result'[q].entries, local(e.cred), e.cred.client = princ'
             PROVE  tgt' # Nil /\ e.cred = tgt'.cred
  BY DEF ListingShowsHeldTGT, local
<1>1. CASE Kept(q)
  <2>1. UNCHANGED <<princ, tgt>>
    BY <1>1, WriteFrame DEF Kept, Reading
  <2> QED  BY <1>1, <2>1 DEF Kept, ListingShowsHeldTGT, local
<1>2. ASSUME NEW p \in Procs, Land(p), q \in crew(p) PROVE FALSE
  <2>1. UNCHANGED req /\ pc[q] \in {"joined", "land"}
    BY <1>2 DEF Land, crew
  <2> QED  BY <2>1 DEF LocalsSet
<1>3. CASE List(q)
  <2>1. UNCHANGED <<princ, tgt>>
    BY <1>3 DEF List, cache
  <2>2. PICK c \in creds : e = listed(c, tgt)
    <3> DEFINE real == {c \in creds : ~isConfigPrincipal(c.server)}
    <3>1. \/ Answer(q, "OK", {listed(c, tgt) : c \in real})
          \/ \E c \in real : Answer(q, "OK", {listed(c, tgt)})
          \/ Answer(q, "CCNotFound", {})
      BY <1>3, Zenon DEF List
    <3> QED  BY <3>1 DEF Answer
  <2> QED  BY <2>1, <2>2, ListedCopy
<1>4. ASSUME Lookup(q) PROVE FALSE
  BY <1>4 DEF Lookup, LocalsSet
<1>5. ASSUME Lead(q) \/ Tgs(q) PROVE FALSE
  BY <1>5 DEF Lead, Tgs, Landed, Goto
<1> QED  BY ReplySources, <1>1, <1>2, <1>3, <1>4, <1>5

(***************************************************************************)
(* A listed TGT of the cache's principal is the held one, flags and all,   *)
(* and still is when the listing is returned: the read lock is held from   *)
(* the scan to the reply.                                                  *)
(***************************************************************************)
THEOREM ListingSafety == ASSUME ~Damage PROVE Spec => []ListingShowsHeldTGT
<1>1. Init => ListingShowsHeldTGT
  BY DEF Init, ListingShowsHeldTGT, Threads
<1>2. TypeInv /\ LockExclusive /\ OneTGTCached /\ ListingShowsHeldTGT /\ [Next]_vars
        => ListingShowsHeldTGT'
  <2>1. CASE UNCHANGED vars
    BY <2>1 DEF vars, cache, ListingShowsHeldTGT
  <2> QED  BY <2>1, ListingNext
<1> QED  BY <1>1, <1>2, TypeAlways, LockAlways, OneTGTSafety, PTL DEF Spec

-----------------------------------------------------------------------------
(* A renewal belongs to the TGT it started from.                           *)

\* Only renewTGT's second critical section ends an exchange.
LEMMA InstallKept ==
    ASSUME TypeInv, Next, NEW q \in Threads, pc[q] = "install"
    PROVE  pc'[q] = "install" \/ RenewInstall(q)
<1>1. ASSUME NEW p \in Procs, Land(p) PROVE q \notin crew(p)
  BY <1>1 DEF Land, crew
<1>2. MaintainStep(q) => RenewInstall(q)
  BY DEF MaintainStep, Maintain, Reload, Adopt, RenewStart, RenewExchange, Sweep, Evict
<1>3. ~RequestStep(q)
  BY DEF RequestStep, Retrieve, Lookup, Lead, Tgs, Land, Enumerate, List, Return, Initialize,
         Store, Remove, CanWrite, Destroy, DestroyInitialize, KinitKCM, KinitStore
<1>4. ~LoopStep(q)
  BY DEF LoopStep, Wake, Plan
<1> QED  BY LocalFrame, <1>1, <1>2, <1>3, <1>4 DEF Moves, Kept

\* The answer of the KDC is for the TGT the renewal started from, and an
\* address stands for one record only.
RenewalFits ==
    \A p \in Threads :
        /\ renewed[p] # Nil => /\ pc[p] = "install" /\ started[p] # Nil
                              /\ renewed[p].client = started[p].cred.client
        /\ started[p] # Nil /\ tgt # Nil /\ tgt.ptr = started[p].ptr => tgt = started[p]

\* A step that leaves renewals alone keeps that, if it holds no new TGT or one
\* with an address of its own.
LEMMA RenewalFrame ==
    ASSUME TypeInv, RenewalFits, Next, UNCHANGED <<started, renewed>>,
           \A q \in Threads : pc[q] = "install" => pc'[q] = "install",
           \/ tgt' \in {tgt, Nil}
           \/ \A q \in Threads : started[q] # Nil => tgt'.ptr # started[q].ptr
    PROVE  RenewalFits'
BY DEF RenewalFits

\* Every step keeps the renewals fitting.
LEMMA RenewalFitsNext ==
    ASSUME TypeInv, RenewalFits, Next
    PROVE  RenewalFits'
<1> USE DEF TypeInv, TypeOK
<1> Procs \subseteq Threads
  BY DEF Threads
<1>1. CASE \E p \in Threads : RenewInstall(p)
  <2>1. PICK p \in Threads : RenewInstall(p)
    BY <1>1
  <2>2. /\ pc[p] = "install" /\ pc' = [pc EXCEPT ![p] = "sweep"]
        /\ started' = [started EXCEPT ![p] = Nil] /\ renewed' = [renewed EXCEPT ![p] = Nil]
    BY <2>1 DEF RenewInstall, Goto
  <2>3. \/ tgt' = tgt
        \/ \A q \in Threads : started[q] # Nil => tgt'.ptr # started[q].ptr
    BY <2>1, RenewalEffect, InstallEffect
  <2> QED  BY <2>2, <2>3 DEF RenewalFits
<1>2. CASE \A p \in Threads : ~RenewInstall(p)
  <2>0. \A q \in Threads : pc[q] = "install" => pc'[q] = "install"
    BY <1>2, InstallKept
  <2>1. CASE UNCHANGED <<tgt, started, renewed>>
    BY <2>0, <2>1, RenewalFrame
  <2>2. ASSUME NEW p \in Threads, RenewStart(p) \/ RenewExchange(p) PROVE RenewalFits'
    <3>1. UNCHANGED tgt
      BY <2>2, ExchangeEffect
    <3>2. CASE UNCHANGED <<started, renewed>>
      BY <2>0, <3>1, <3>2, RenewalFrame
    <3>3. CASE /\ pc[p] = "renew" /\ tgt # Nil
               /\ started' = [started EXCEPT ![p] = tgt] /\ UNCHANGED renewed
      <4>1. renewed[p] = Nil
        BY <3>3 DEF RenewalFits
      <4> QED  BY <2>0, <3>1, <3>3, <4>1 DEF RenewalFits
    <3>4. ASSUME pc[p] = "exchange", started[p] \in TGTInfo, started[p] # Nil, UNCHANGED started,
                 \/ renewed' = [renewed EXCEPT ![p] = Nil]
                 \/ renewed' = [renewed EXCEPT ![p] = renewedTGT(started[p].cred, clock)]
          PROVE  RenewalFits'
      <4>1. pc'[p] = "install"
        BY <2>2, <3>4 DEF RenewStart, RenewExchange, Goto
      <4>2. started[p].cred \in Cred /\ clock \in Int
        BY <3>4 DEF TGTInfo
      <4>3. renewedTGT(started[p].cred, clock).client = started[p].cred.client
        BY <4>2, RenewedFields DEF samePrincipals
      <4> QED  BY <2>0, <3>1, <3>4, <4>1, <4>3 DEF RenewalFits
    <3> QED  BY <2>2, <3>2, <3>3, <3>4, ExchangeEffect
  <2>3. ASSUME NEW p \in Threads, Adopt(p) PROVE RenewalFits'
    BY <2>0, <2>3, AdoptEffect, RenewalFrame
  <2>4. ASSUME NEW p \in Procs, Wipe(p) PROVE RenewalFits'
    BY <2>0, <2>4, WipeEffect, RenewalFrame
  <2>5. ASSUME NEW p \in Procs, StoreStep(p) PROVE RenewalFits'
    <3>1. UNCHANGED <<started, renewed>>
      BY <2>5, StoreEffect
    <3>2. \/ tgt' = tgt
          \/ \A q \in Threads : started[q] # Nil => tgt'.ptr # started[q].ptr
      BY <2>5, StoreEffect, InstallEffect
    <3> QED  BY <2>0, <3>1, <3>2, RenewalFrame
  <2>6. ASSUME NEW p \in Threads, Evict(p) PROVE RenewalFits'
    BY <2>1, <2>6 DEF Evict, renewal
  <2>7. ASSUME NEW p \in Procs, Tgs(p) \/ Remove(p) PROVE RenewalFits'
    BY <2>1, <2>7 DEF Tgs, Remove, renewal
  <2> QED  BY CacheSteps, <1>2, <2>1, <2>2, <2>3, <2>4, <2>5, <2>6, <2>7 DEF RenewalStep
<1> QED  BY <1>1, <1>2

\* So they always do.
LEMMA RenewalFitsAlways == Spec => []RenewalFits
<1>1. Init => RenewalFits
  BY DEF Init, RenewalFits
<1>2. TypeInv /\ RenewalFits /\ [Next]_vars => RenewalFits'
  <2>1. CASE UNCHANGED vars
    BY <2>1 DEF vars, renewal, RenewalFits
  <2> QED  BY <2>1, RenewalFitsNext
<1> QED  BY <1>1, <1>2, TypeAlways, PTL DEF Spec

-----------------------------------------------------------------------------
(* Whose TGT is held.                                                      *)

\* A cache file is its principal's.
FileOwned ==
    file # Nil => /\ file.princ \in Clients
                  /\ \A i \in DOMAIN file.creds : file.creds[i].client = file.princ

\* What kinit writes is.
LEMMA ContentsOwned ==
    ASSUME NEW c \in Clients, NEW t \in Nat, NEW s \in fileContents(c, t)
    PROVE  \A i \in DOMAIN s : s[i].client = c
<1>1. c \in Principal
  BY ClientAssumption DEF ClientAssumption
<1>2. \A g \in kinitTGTs(c, t) : g.client = c
  BY <1>1, KinitLocal
<1>3. CASE s = <<>>
  BY <1>3
<1>4. CASE \E g \in kinitTGTs(c, t) : s = <<g>>
  BY <1>2, <1>4
<1>5. CASE \E g \in kinitTGTs(c, t), v \in StoreServers, life \in SvcLives :
              s = <<newTicket(g, v, t, life), g>>
  <2>1. PICK g \in kinitTGTs(c, t), v \in StoreServers, life \in SvcLives :
              s = <<newTicket(g, v, t, life), g>>
    BY <1>5
  <2>2. newTicket(g, v, t, life).client = c
    BY <1>2 DEF newTicket
  <2> QED  BY <1>2, <2>1, <2>2
<1> QED  BY <1>3, <1>4, <1>5 DEF fileContents

\* Nobody changes the owner of a cache file.
LEMMA OwnedNext ==
    ASSUME TypeInv, FileOwned, Next
    PROVE  FileOwned'
<1>1. ASSUME NEW c \in Clients, NEW s \in fileContents(c, clock), file' = cacheFile(c, s)
      PROVE  FileOwned'
  BY <1>1, ContentsOwned DEF cacheFile, FileOwned, TypeInv, TypeOK
<1>2. ASSUME file # Nil, NEW n \in 0..Len(file.creds),
             file' = [file EXCEPT !.creds = SubSeq(@, 1, n), !.torn = TRUE]
      PROVE  FileOwned'
  <2>1. file \in File /\ file.creds \in Seq(Cred)
    BY <1>2 DEF TypeInv, TypeOK, File
  <2>2. file'.princ = file.princ /\ file'.creds = SubSeq(file.creds, 1, n)
    BY <1>2, <2>1 DEF File
  <2>3. \A i \in DOMAIN file'.creds : i \in DOMAIN file.creds /\ file'.creds[i] = file.creds[i]
    BY <2>1, <2>2
  <2> QED  BY <1>2, <2>2, <2>3 DEF FileOwned
<1>3. ASSUME ChangeFile PROVE FileOwned'
  <2>1. CASE file' = Nil
    BY <2>1 DEF FileOwned
  <2> QED  BY <1>1, <1>2, <1>3, <2>1 DEF ChangeFile
<1>4. CASE UNCHANGED file
  BY <1>4 DEF FileOwned
<1> QED  BY FileSteps, <1>3, <1>4

\* A cache file is always its principal's.
LEMMA OwnedAlways == Spec => []FileOwned
<1>1. Init => FileOwned
  BY ContentsOwned DEF Init, Open, FileOwned, cacheFile
<1>2. TypeInv /\ FileOwned /\ [Next]_vars => FileOwned'
  <2>1. CASE UNCHANGED vars
    BY <2>1 DEF vars, world, FileOwned
  <2> QED  BY <2>1, OwnedNext
<1> QED  BY <1>1, <1>2, TypeAlways, PTL DEF Spec

\* Between loadNewerTGT's decision and the rest of it nothing but the source
\* file and the clock moves.
LEMMA AdoptFrame ==
    ASSUME TypeInv, LockExclusive, Next, NEW q \in Threads, pc'[q] = "adopt"
    PROVE  \/ Reload(q)
           \/ /\ pc[q] = "adopt" /\ seen'[q] = seen[q] /\ now'[q] = now[q]
              /\ UNCHANGED <<princ, creds, tgt, lastFileCheck>>
<1> USE DEF TypeInv, TypeOK
<1> Procs \subseteq Threads /\ Background \subseteq Threads
  BY DEF Threads
<1>1. ASSUME Kept(q)
      PROVE  /\ pc[q] = "adopt" /\ seen'[q] = seen[q] /\ now'[q] = now[q]
             /\ UNCHANGED <<princ, creds, tgt, lastFileCheck>>
  <2>1. pc[q] = "adopt" /\ now'[q] = now[q]
    BY <1>1 DEF Kept
  <2>2. ~canLock /\ ~canRLock
    BY <2>1 DEF canLock, canRLock
  <2>3. \A p \in Threads : pc[p] \notin Reading /\ (pc[p] = "adopt" => p = q)
    BY <2>1 DEF LockExclusive, Reading
  <2>4. ~Adopt(q)
    BY DEF Adopt, Goto, afterCheck
  <2>5. ASSUME NEW p \in Threads, MaintainStep(p)
        PROVE  seen'[q] = seen[q] /\ UNCHANGED <<princ, creds, tgt, lastFileCheck>>
    <3>1. RenewExchange(p)
      BY <2>2, <2>3, <2>4, <2>5 DEF MaintainStep, Maintain, Reload, Adopt, RenewStart, RenewInstall,
                                    Sweep, Evict, Reading
    <3> QED  BY <3>1 DEF RenewExchange, cache
  <2>6. ASSUME NEW p \in Procs, RequestStep(p)
        PROVE  seen'[q] = seen[q] /\ UNCHANGED <<princ, creds, tgt, lastFileCheck>>
    <3>1. Retrieve(p) \/ Enumerate(p) \/ Return(p)
      BY <2>2, <2>3, <2>6 DEF RequestStep, Lookup, Lead, Tgs, Land, List, Initialize, Store, Remove,
                              CanWrite, Destroy, DestroyInitialize, KinitKCM, KinitStore, Reading
    <3> QED  BY <3>1 DEF Retrieve, Enumerate, Return, cache
  <2>7. ASSUME NEW p \in Background, LoopStep(p)
        PROVE  seen'[q] = seen[q] /\ UNCHANGED <<princ, creds, tgt, lastFileCheck>>
    BY <2>7 DEF LoopStep, Wake, Plan, cache
  <2>8. ASSUME Tick \/ ChangeFile
        PROVE  seen'[q] = seen[q] /\ UNCHANGED <<princ, creds, tgt, lastFileCheck>>
    BY <2>8 DEF Tick, ChangeFile, cache
  <2> QED  BY <2>1, <2>5, <2>6, <2>7, <2>8 DEF Next
<1>2. ASSUME NEW p \in Procs, Land(p), q \in crew(p) PROVE FALSE
  BY <1>2 DEF Land
<1>3. ASSUME MaintainStep(q) PROVE Reload(q)
  <2>1. pc[q] = "sweep" \/ pc[q] = "evict" => afterMaintain(q) \in {"lookup", "list", "plan"}
    BY AfterMaintain
  <2>2. ~Sweep(q)
    BY <2>1 DEF Sweep, Goto
  <2>3. ~Evict(q)
    BY <2>1 DEF Evict, Goto
  <2> QED  BY <1>3, <2>2, <2>3 DEF MaintainStep, Maintain, Adopt, RenewStart, RenewExchange,
                                   RenewInstall, Goto, afterCheck
<1>4. ASSUME q \in Procs, RequestStep(q) PROVE FALSE
  <2>1. ~Retrieve(q) /\ ~Enumerate(q) /\ ~Return(q) /\ ~List(q) /\ ~Lookup(q) /\ ~Lead(q) /\ ~Tgs(q)
    BY DEF Retrieve, Enumerate, Return, List, Lookup, Lead, Tgs, Landed, Answer, BeginMaintain, Goto
  <2>2. ~Initialize(q) /\ ~Store(q) /\ ~Remove(q)
    BY DEF Initialize, Store, Remove, CanWrite
  <2>3. ~Destroy(q) /\ ~DestroyInitialize(q) /\ ~KinitKCM(q) /\ ~KinitStore(q)
    BY DEF Destroy, DestroyInitialize, KinitKCM, KinitStore, Goto
  <2>4. ~Land(q)
    BY <1>2, <1>4 DEF crew
  <2> QED  BY <1>4, <2>1, <2>2, <2>3, <2>4 DEF RequestStep
<1>5. ASSUME q \in Background, LoopStep(q) PROVE FALSE
  BY <1>5 DEF LoopStep, Wake, Plan, BeginMaintain, Goto
<1> QED  BY LocalFrame, <1>1, <1>2, <1>3, <1>4, <1>5 DEF Moves

\* The file's owner does not change under a reload: it can not change at all
\* then, or there is only one user.
OneOwner == FileRaces => \A c, d \in Clients : c = d

\* The principal a reload has read is the one of the file it goes on to load.
AdoptsOwner ==
    \A p \in Threads : pc[p] = "adopt" =>
        seen[p] \in Clients /\ (file # Nil => seen[p] = file.princ)

\* Every step keeps it so.
LEMMA AdoptsOwnerNext ==
    ASSUME OneOwner, TypeInv, LockExclusive, FileOwned, FileOwned', AdoptsOwner, Next
    PROVE  AdoptsOwner'
<1> USE DEF TypeInv, TypeOK
<1> SUFFICES ASSUME NEW q \in Threads, pc'[q] = "adopt"
             PROVE  seen'[q] \in Clients /\ (file' # Nil => seen'[q] = file'.princ)
  BY DEF AdoptsOwner
<1>1. CASE Reload(q)
  <2>1. UNCHANGED file /\ newer(file, tgt, now[q]) /\ seen'[q] = file.princ
    BY <1>1 DEF Reload, world, readPrincipal, Goto, afterCheck
  <2>2. file # Nil
    BY <2>1 DEF newer
  <2> QED  BY <2>1, <2>2 DEF FileOwned
<1>2. CASE pc[q] = "adopt" /\ seen'[q] = seen[q]
  <2>1. seen'[q] \in Clients /\ (file # Nil => seen'[q] = file.princ)
    BY <1>2 DEF AdoptsOwner
  <2>2. CASE UNCHANGED file
    BY <2>1, <2>2
  <2>3. CASE ChangeFile
    <3>1. FileRaces
      BY <1>2, <2>3 DEF ChangeFile, mayChangeFile
    <3> QED  BY <2>1, <3>1 DEF OneOwner, FileOwned
  <2> QED  BY FileSteps, <2>2, <2>3
<1> QED  BY AdoptFrame, <1>1, <1>2

\* Every step keeps the held TGT and the cache's principal together.
LEMMA MatchesNext ==
    ASSUME TypeInv, RenewalFits, FileOwned, AdoptsOwner, TGTMatchesPrincipal, Next
    PROVE  TGTMatchesPrincipal'
<1> USE DEF TypeInv, TypeOK, TGTMatchesPrincipal
<1>1. CASE UNCHANGED <<princ, tgt>>
  BY <1>1
<1>2. ASSUME NEW p \in Threads, Adopt(p) PROVE TGTMatchesPrincipal'
  <2> SUFFICES ASSUME tgt' # Nil PROVE tgt'.cred.client = princ'
    OBVIOUS
  <2>1. /\ pc[p] = "adopt" /\ princ' = seen[p]
        /\ file \in File /\ file.creds \in Seq(Cred)
        /\ peekTGT(file.creds) # Nil /\ tgt'.cred = peekTGT(file.creds)
    BY <1>2, AdoptEffect
  <2>2. file # Nil
    BY <2>1, ClientAssumption DEF ClientAssumption
  <2>3. \E i \in DOMAIN file.creds : tgt'.cred = file.creds[i]
    BY <2>1, PeekedTGT
  <2> QED  BY <2>1, <2>2, <2>3 DEF FileOwned, AdoptsOwner
<1>3. ASSUME NEW p \in Threads, RenewalStep(p) PROVE TGTMatchesPrincipal'
  <2>1. CASE RenewInstall(p)
    <3>1. CASE UNCHANGED tgt
      BY <1>1, <2>1, <3>1, RenewalEffect
    <3>2. CASE /\ tgt # Nil /\ started[p] # Nil /\ tgt.ptr = started[p].ptr
               /\ renewed[p] \in Cred /\ renewed[p] # Nil /\ install(renewed[p])
      <4>1. renewed[p].client = tgt.cred.client
        BY <3>2 DEF RenewalFits
      <4> QED  BY <2>1, <3>2, <4>1, RenewalEffect, InstallEffect
    <3> QED  BY <2>1, <3>1, <3>2, RenewalEffect
  <2> QED  BY <1>1, <1>3, <2>1, ExchangeEffect DEF RenewalStep
<1>4. ASSUME NEW p \in Procs, StoreStep(p) PROVE TGTMatchesPrincipal'
  BY <1>4, StoreEffect, InstallEffect
<1>5. ASSUME NEW p \in Procs, Wipe(p) PROVE TGTMatchesPrincipal'
  BY <1>5, WipeEffect
<1>6. ASSUME NEW p \in Threads, Evict(p) PROVE TGTMatchesPrincipal'
  BY <1>1, <1>6 DEF Evict
<1>7. ASSUME NEW p \in Procs, Tgs(p) \/ Remove(p) PROVE TGTMatchesPrincipal'
  BY <1>1, <1>7 DEF Tgs, Remove
<1> QED  BY CacheSteps, <1>1, <1>2, <1>3, <1>4, <1>5, <1>6, <1>7

(***************************************************************************)
(* If the file does not change hands while it is being reloaded, the held  *)
(* TGT is always the cache principal's: a renewal that was in flight when  *)
(* INITIALIZE, DESTROY, kinit or a reload brought another identity in is   *)
(* dropped, because the TGT it started from is no longer the one held.     *)
(***************************************************************************)
THEOREM IdentitySafety == ASSUME OneOwner PROVE Spec => []TGTMatchesPrincipal
<1>1. Init => TGTMatchesPrincipal /\ AdoptsOwner
  <2> SUFFICES ASSUME Init PROVE TGTMatchesPrincipal /\ AdoptsOwner
    OBVIOUS
  <2>1. file.creds \in Seq(Cred) /\ princ = file.princ
    BY FilesType, PolicyAssumption, ClientAssumption DEF Init, Open, File
  <2>2. \A i \in DOMAIN file.creds : file.creds[i].client = file.princ
    BY ContentsOwned DEF Init, Open, cacheFile
  <2>3. tgt # Nil => peekTGT(file.creds) # Nil /\ tgt.cred = peekTGT(file.creds)
    BY DEF Init, Open
  <2>4. tgt # Nil => \E i \in DOMAIN file.creds : tgt.cred = file.creds[i]
    BY <2>1, <2>3, PeekedTGT
  <2>5. AdoptsOwner
    BY DEF Init, AdoptsOwner
  <2> QED  BY <2>1, <2>2, <2>4, <2>5 DEF TGTMatchesPrincipal
<1>2. TypeInv /\ LockExclusive /\ FileOwned /\ FileOwned' /\ AdoptsOwner /\ [Next]_vars
        => AdoptsOwner'
  <2>1. CASE UNCHANGED vars
    BY <2>1 DEF vars, world, AdoptsOwner
  <2> QED  BY <2>1, AdoptsOwnerNext
<1>3. TypeInv /\ RenewalFits /\ FileOwned /\ AdoptsOwner /\ TGTMatchesPrincipal /\ [Next]_vars
        => TGTMatchesPrincipal'
  <2>1. CASE UNCHANGED vars
    BY <2>1 DEF vars, cache, TGTMatchesPrincipal
  <2> QED  BY <2>1, MatchesNext
<1> QED  BY <1>1, <1>2, <1>3, TypeAlways, LockAlways, RenewalFitsAlways, OwnedAlways, PTL DEF Spec

-----------------------------------------------------------------------------
(* Tickets a client could renew on its own.                                *)

\* The daemon is asked for its principal's tickets, and gets them from the
\* KDC: no program has put a service ticket of its own in the source file, and
\* no RETRIEVE names somebody else, whose TGT a client may have STOREd.
OwnTicketsOnly ==
    /\ \A v \in StoreServers : isConfigPrincipal(v)
    /\ MatchClients \subseteq {Nil}

\* Of a file the daemon loads no more than a TGT.
FilePlain ==
    file # Nil => \A i \in DOMAIN file.creds :
                     local(file.creds[i]) \/ isConfigPrincipal(file.creds[i].server)

\* What kinit writes has no more.
LEMMA ContentsPlain ==
    ASSUME OwnTicketsOnly, NEW c \in Clients, NEW t \in Nat, NEW s \in fileContents(c, t)
    PROVE  \A i \in DOMAIN s : local(s[i]) \/ isConfigPrincipal(s[i].server)
<1>1. c \in Principal
  BY ClientAssumption DEF ClientAssumption
<1>2. \A g \in kinitTGTs(c, t) : local(g)
  BY <1>1, KinitLocal DEF local
<1>3. CASE s = <<>>
  BY <1>3
<1>4. CASE \E g \in kinitTGTs(c, t) : s = <<g>>
  BY <1>2, <1>4
<1>5. CASE \E g \in kinitTGTs(c, t), v \in StoreServers, life \in SvcLives :
              s = <<newTicket(g, v, t, life), g>>
  <2>1. PICK g \in kinitTGTs(c, t), v \in StoreServers, life \in SvcLives :
              s = <<newTicket(g, v, t, life), g>>
    BY <1>5
  <2>2. isConfigPrincipal(newTicket(g, v, t, life).server)
    BY DEF newTicket, OwnTicketsOnly
  <2> QED  BY <1>2, <2>1, <2>2
<1> QED  BY <1>3, <1>4, <1>5 DEF fileContents

\* So it is of every file there is.
LEMMA PlainAlways == ASSUME OwnTicketsOnly PROVE Spec => []FilePlain
<1>1. Init => FilePlain
  BY ContentsPlain DEF Init, Open, FilePlain, cacheFile
<1>2. ASSUME TypeInv, FilePlain, Next PROVE FilePlain'
  <2>1. ASSUME NEW c \in Clients, NEW s \in fileContents(c, clock), file' = cacheFile(c, s)
        PROVE  FilePlain'
    BY <1>2, <2>1, ContentsPlain DEF cacheFile, FilePlain, TypeInv, TypeOK
  <2>2. ASSUME file # Nil, NEW n \in 0..Len(file.creds),
               file' = [file EXCEPT !.creds = SubSeq(@, 1, n), !.torn = TRUE]
        PROVE  FilePlain'
    <3>1. file \in File /\ file.creds \in Seq(Cred)
      BY <1>2, <2>2 DEF TypeInv, TypeOK, File
    <3>2. file'.creds = SubSeq(file.creds, 1, n)
      BY <2>2, <3>1 DEF File
    <3>3. \A i \in DOMAIN file'.creds : i \in DOMAIN file.creds /\ file'.creds[i] = file.creds[i]
      BY <3>1, <3>2
    <3> QED  BY <1>2, <2>2, <3>3 DEF FilePlain
  <2>3. ASSUME ChangeFile PROVE FilePlain'
    <3>1. CASE file' = Nil
      BY <3>1 DEF FilePlain
    <3> QED  BY <2>1, <2>2, <2>3, <3>1 DEF ChangeFile
  <2>4. CASE UNCHANGED file
    BY <1>2, <2>4 DEF FilePlain
  <2> QED  BY <1>2, FileSteps, <2>3, <2>4
<1>3. TypeInv /\ FilePlain /\ [Next]_vars => FilePlain'
  BY <1>2 DEF vars, world, FilePlain
<1> QED  BY <1>1, <1>3, TypeAlways, PTL DEF Spec

plain(c) == Renewable \notin c.flags

\* Nothing in the cache lets its principal's clients renew.
CachePlain == \A c \in creds : c.client = princ => plain(c)

\* What such a file leaves in the cache is the TGT's copy.
LEMMA LoadPlain ==
    ASSUME NEW s \in Seq(Cred), NEW t \in Int,
           \A i \in DOMAIN s : local(s[i]) \/ isConfigPrincipal(s[i].server)
    PROVE  \A c \in loadFrom(s, t) : plain(c)
<1>1. \A i \in firstTGT(s) : plain(cleared(s[i]))
  BY ClearedFields DEF firstTGT, plain
<1>2. \A i \in DOMAIN s : ~(~isConfigPrincipal(s[i].server) /\ ~isLocalTGT(s[i].client, s[i].server))
  BY DEF local
<1> QED  BY <1>1, <1>2 DEF loadFrom

\* What the KDC issues has the flags of the TGT it was asked with.
LEMMA TgsPlain ==
    ASSUME OwnTicketsOnly, TypeInv, CachePlain, NEW p \in Procs, Tgs(p)
    PROVE  /\ \A c \in creds' : c \in creds \/ plain(c)
           /\ \A e \in result'[p].entries : plain(e.cred)
<1> USE DEF TypeInv, TypeOK
<1>1. p \in Threads /\ pc[p] = "tgs"
  BY DEF Tgs, Threads
<1>2. req[p].client = Nil
  BY <1>1 DEF LocalsSet, matchKey, Keys, OwnTicketsOnly
<1>3. ASSUME NEW g \in usableTGTs(p) PROVE plain(g)
  BY <1>2 DEF usableTGTs, cc_lookup, templateClient, CachePlain
<1>4. CASE Landed(p, "KDCError", {}) /\ UNCHANGED creds
  BY <1>1, <1>4 DEF Landed
<1>5. ASSUME NEW g \in usableTGTs(p), NEW life \in SvcLives,
             creds' = cc_store_cred(creds, newTicket(g, req[p].server, clock, life))
                          \cup referrals(g, req[p].server, clock, life),
             Landed(p, "OK", {[cred |-> newTicket(g, req[p].server, clock, life),
                               key |-> TRUE]})
      PROVE  /\ \A c \in creds' : c \in creds \/ plain(c)
             /\ \A e \in result'[p].entries : plain(e.cred)
  <2>1. \A s, t : plain(newTicket(g, s, t, life))
    BY <1>3 DEF newTicket, plain
  <2>2. \A c \in referrals(g, req[p].server, clock, life) : plain(c)
    BY <2>1 DEF referrals
  <2>3. \A e \in result'[p].entries : e.cred = newTicket(g, req[p].server, clock, life)
    BY <1>1, <1>5 DEF Landed
  <2>4. \A e \in result'[p].entries : plain(e.cred)
    BY <2>1, <2>3
  <2> QED  BY <1>5, <2>1, <2>2, <2>4 DEF cc_store_cred
<1> QED  BY <1>4, <1>5 DEF Tgs

\* What a client may STORE besides TGTs is not renewable.
LEMMA StorablePlain ==
    ASSUME TypeInv, NEW d \in Principal, NEW c \in storable(d)
    PROVE  plain(c) \/ isLocalTGT(c.client, c.server)
<1>1. CASE c \in kinitTGTs(d, clock)
  BY <1>1, KinitLocal DEF TypeInv, TypeOK
<1>2. CASE \E s \in StoreServers : c = configEntry(d, s)
  <2>1. PICK s \in StoreServers : c = configEntry(d, s)
    BY <1>2
  <2>2. c.flags = {}
    BY <2>1 DEF configEntry, newTGT
  <2> QED  BY <2>2 DEF plain
<1>3. CASE \E s \in StoreServers, life \in SvcLives :
              c = newTicket(newTGT(d, clock, life, 0, {}), s, clock, life)
  <2>1. c.flags = {}
    BY <1>3 DEF newTicket, newTGT
  <2> QED  BY <2>1 DEF plain
<1> QED  BY <1>1, <1>2, <1>3 DEF storable

\* Every step keeps the cache free of them.
LEMMA CachePlainNext ==
    ASSUME OwnTicketsOnly, TypeInv, FilePlain, CachePlain, Next
    PROVE  CachePlain'
<1> USE DEF CachePlain
<1>1. ASSUME UNCHANGED princ, \A c \in creds' : c \in creds \/ plain(c) \/ c.client # princ
      PROVE  CachePlain'
  BY <1>1
<1>2. ASSUME NEW c \in Cred, install(c), UNCHANGED princ PROVE CachePlain'
  <2>1. plain(cleared(c))
    BY ClearedFields DEF plain
  <2> QED  BY <1>1, <1>2, <2>1, InstallEffect
<1>3. ASSUME NEW p \in Threads, Adopt(p) PROVE CachePlain'
  <2>1. CASE creds' = {}
    BY <2>1
  <2>2. CASE /\ file \in File /\ file.creds \in Seq(Cred)
             /\ creds' = loadFrom(file.creds, now[p])
    <3>1. file # Nil
      BY <2>2, ClientAssumption DEF ClientAssumption
    <3>2. \A i \in DOMAIN file.creds :
             local(file.creds[i]) \/ isConfigPrincipal(file.creds[i].server)
      BY <3>1 DEF FilePlain
    <3>3. now[p] \in Int
      BY DEF TypeInv, TypeOK
    <3>4. \A c \in creds' : plain(c)
      BY <2>2, <3>2, <3>3, LoadPlain
    <3> QED  BY <3>4
  <2> QED  BY <1>3, <2>1, <2>2, AdoptEffect
<1>4. ASSUME NEW p \in Threads, RenewalStep(p) PROVE CachePlain'
  <2>1. CASE RenewInstall(p)
    BY <2>1, <1>1, <1>2, RenewalEffect
  <2> QED  BY <1>1, <1>4, <2>1, ExchangeEffect DEF RenewalStep
<1>5. ASSUME NEW p \in Threads, Evict(p) PROVE CachePlain'
  BY <1>1, <1>5 DEF Evict, evicted
<1>6. ASSUME NEW p \in Procs, Tgs(p) PROVE CachePlain'
  <2>1. UNCHANGED princ
    BY <1>6 DEF Tgs
  <2> QED  BY <1>1, <1>6, <2>1, TgsPlain
<1>7. ASSUME NEW p \in Procs, Remove(p) PROVE CachePlain'
  BY <1>1, <1>7 DEF Remove, cc_remove_cred
<1>8. ASSUME NEW p \in Procs, Wipe(p) PROVE CachePlain'
  BY <1>8, WipeEffect
<1>9. ASSUME NEW p \in Procs, StoreStep(p) PROVE CachePlain'
  BY <1>1, <1>2, <1>9, StoreEffect, StorablePlain
<1> QED  BY CacheSteps, <1>1, <1>3, <1>4, <1>5, <1>6, <1>7, <1>8, <1>9

\* The inductive form: no answer, from the moment a leader has it, is renewable.
AnswersPlain ==
    \A p \in Procs : pc[p] \in {"land", "reply"} /\ req[p].op = "retrieve" =>
        \A e \in result[p].entries : plain(e.cred)

\* Every step keeps them so.
LEMMA AnswersPlainNext ==
    ASSUME OwnTicketsOnly, TypeInv, CachePlain, AnswersPlain, Next
    PROVE  AnswersPlain'
<1> USE DEF TypeInv, TypeOK
<1> Procs \subseteq Threads
  BY DEF Threads
<1> SUFFICES ASSUME NEW q \in Procs, pc'[q] \in {"land", "reply"}, req'[q].op = "retrieve",
                    NEW e \in result'[q].entries
             PROVE  plain(e.cred)
  BY DEF AnswersPlain
<1>1. CASE Kept(q)
  BY <1>1 DEF Kept, AnswersPlain
<1>2. ASSUME NEW p \in Procs, Land(p), q \in crew(p) PROVE plain(e.cred)
  <2>1. pc[p] = "land" /\ result'[q] = result[p]
    BY <1>2 DEF Land
  <2>2. req[p].op = "retrieve"
    BY <2>1 DEF LocalsSet
  <2> QED  BY <2>1, <2>2 DEF AnswersPlain
<1>3. CASE Lead(q)
  <2>1. CASE \E code \in Codes : Landed(q, code, {})
    BY <2>1 DEF Landed
  <2>2. CASE \E c \in cc_lookup(creds, templateClient(req[q].client), req[q].server, clock) :
                Landed(q, "OK", {[cred |-> c, key |-> TRUE]})
    <3>1. req[q].client = Nil
      BY <1>3 DEF Lead, LocalsSet, matchKey, Keys, OwnTicketsOnly
    <3>2. \E c \in creds : c.client = princ /\ e.cred = c
      BY <2>2, <3>1 DEF Landed, cc_lookup, templateClient
    <3> QED  BY <3>2 DEF CachePlain
  <2>3. CASE pc' = [pc EXCEPT ![q] = "tgs"]
    BY <2>3
  <2> QED  BY <1>3, <2>1, <2>2, <2>3 DEF Lead, Goto, Codes
<1>4. CASE Tgs(q)
  BY <1>4, TgsPlain
<1>5. CASE Lookup(q)
  BY <1>5 DEF Lookup, Answer, Goto
<1>6. CASE List(q)
  BY <1>6 DEF List, LocalsSet
<1> QED  BY ReplySources, <1>1, <1>2, <1>3, <1>4, <1>5, <1>6

(***************************************************************************)
(* No service ticket the daemon obtained, from the cache or the KDC, is    *)
(* renewable: the TGT's copy that drives the exchanges never is, whichever *)
(* way the held TGT came in.                                               *)
(***************************************************************************)
THEOREM RenewableSafety == ASSUME OwnTicketsOnly PROVE Spec => []TicketsNotRenewable
<1>1. Init => CachePlain /\ AnswersPlain
  <2> SUFFICES ASSUME Init PROVE CachePlain /\ AnswersPlain
    OBVIOUS
  <2>1. file.creds \in Seq(Cred) /\ creds = loadFrom(file.creds, clock) /\ clock \in Int
    BY FilesType, PolicyAssumption, ClientAssumption DEF Init, Open, File
  <2>2. \A i \in DOMAIN file.creds : local(file.creds[i]) \/ isConfigPrincipal(file.creds[i].server)
    BY ContentsPlain DEF Init, Open, cacheFile
  <2>3. AnswersPlain
    BY DEF Init, AnswersPlain, Threads
  <2> QED  BY <2>1, <2>2, <2>3, LoadPlain DEF CachePlain
<1>2. TypeInv /\ FilePlain /\ CachePlain /\ [Next]_vars => CachePlain'
  <2>1. CASE UNCHANGED vars
    BY <2>1 DEF vars, cache, CachePlain
  <2> QED  BY <2>1, CachePlainNext
<1>3. TypeInv /\ CachePlain /\ AnswersPlain /\ [Next]_vars => AnswersPlain'
  <2>1. CASE UNCHANGED vars
    BY <2>1 DEF vars, AnswersPlain
  <2> QED  BY <2>1, AnswersPlainNext
<1>4. AnswersPlain => TicketsNotRenewable
  BY DEF AnswersPlain, TicketsNotRenewable, plain
<1> QED  BY <1>1, <1>2, <1>3, <1>4, TypeAlways, PlainAlways, PTL DEF Spec

=============================================================================
