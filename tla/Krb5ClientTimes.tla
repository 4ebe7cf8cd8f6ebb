-------------------------- MODULE Krb5ClientTimes ---------------------------
(***************************************************************************)
(* How long the TGT that the Client of Krb5Client holds lasts, for every   *)
(* value of the constants: maintenance never shortens it, and a request is *)
(* not refused for want of one before the source file was consulted.  No   *)
(* two valid tickets for one service.  And the background loop renews in   *)
(* time.                                                                   *)
(***************************************************************************)
EXTENDS Krb5ClientIdentity

\* A renewable TGT is issued to be renewable past its end.
LivesOrdered == \A life \in TGTLives, rl \in RenewLives : life <= rl

-----------------------------------------------------------------------------
(* The times of the TGTs there are.                                        *)

\* It was issued in the past, and a renewal would not cut it short; a start
\* time is missing only where nothing is renewed.
sound(c, t) ==
    /\ c.start <= t
    /\ Renewable \in c.flags => c.end <= c.renewTill /\ c.start >= 0

\* Time passing leaves it so.
LEMMA SoundLater ==
    ASSUME NEW c \in Cred, NEW t \in Int, NEW u \in Int, t <= u, sound(c, t)
    PROVE  sound(c, u)
BY DEF sound, Cred

\* kinit's TGTs are sound, and valid when they are obtained.
LEMMA KinitSound ==
    ASSUME LivesOrdered, NEW c \in Principal, NEW t \in Nat, NEW g \in kinitTGTs(c, t)
    PROVE  sound(g, t) /\ g.end > t
<1>1. PICK life \in TGTLives, rl \in RenewLives, fl \in TGTFlags : g = newTGT(c, t, life, rl, fl)
  BY DEF kinitTGTs
<1>2. life \in Nat \ {0} /\ rl \in Nat /\ life <= rl
  BY ClientAssumption DEF ClientAssumption, LivesOrdered
<1>3. /\ g.start = t /\ g.end = t + life
      /\ Renewable \in g.flags => g.renewTill = t + rl
  BY <1>1 DEF newTGT
<1> QED  BY <1>2, <1>3 DEF sound

\* A ticket issued under a sound TGT is sound.
LEMMA TicketSound ==
    ASSUME NEW g \in Cred, NEW s, NEW t \in Nat, NEW life \in Nat, sound(g, t)
    PROVE  sound(newTicket(g, s, t, life), t)
<1> DEFINE c == newTicket(g, s, t, life)
<1>1. /\ c.start = t /\ c.end = min(t + life, g.end) /\ c.flags = g.flags
      /\ Renewable \in c.flags => c.renewTill = g.renewTill
  BY DEF newTicket
<1>2. g.end \in Int /\ g.renewTill \in Int
  BY DEF Cred
<1>3. c.end \in Int /\ c.end <= g.end
  BY <1>1, <1>2 DEF min
<1> HIDE DEF c
<1>4. sound(c, t)
  BY <1>1, <1>2, <1>3 DEF sound
<1> QED  BY <1>4 DEF c

\* One TGT is another renewed.
later(r, g) ==
    /\ r.start >= g.start /\ r.end >= g.end
    /\ r.flags = g.flags /\ r.renewTill = g.renewTill

\* A renewal of a sound TGT is sound and does not end before it.
LEMMA RenewedSound ==
    ASSUME NEW g \in Cred, NEW t \in Nat, sound(g, t), kdcRenews(g, t)
    PROVE  sound(renewedTGT(g, t), t) /\ later(renewedTGT(g, t), g)
<1>1. g.start \in Int /\ g.end \in Int /\ g.renewTill \in Int
  BY DEF Cred
<1>2. /\ renewedTGT(g, t).start = t
      /\ renewedTGT(g, t).end = min(t + (g.end - g.start), g.renewTill)
      /\ renewedTGT(g, t).renewTill = g.renewTill
      /\ renewedTGT(g, t).flags = g.flags
  BY DEF renewedTGT, Cred
<1>3. g.start <= t /\ g.end <= g.renewTill
  BY DEF sound, kdcRenews
<1>4. /\ min(t + (g.end - g.start), g.renewTill) <= g.renewTill
      /\ min(t + (g.end - g.start), g.renewTill) >= g.end
  BY <1>1, <1>3 DEF min
<1> QED  BY <1>2, <1>3, <1>4 DEF sound, later

\* Whatever a client STOREs as a TGT is sound, and valid when it is STOREd.
LEMMA StorableSound ==
    ASSUME LivesOrdered, TypeInv, NEW d \in Principal, NEW c \in storable(d)
    PROVE  /\ sound(c, clock)
           /\ c.end > clock \/ (isConfigPrincipal(c.server) /\ c.server \in StoreServers)
<1>0. clock \in Nat
  BY DEF TypeInv, TypeOK
<1>1. CASE c \in kinitTGTs(d, clock)
  BY <1>0, <1>1, KinitSound
<1>2. CASE \E s \in {x \in StoreServers : isConfigPrincipal(x)} : c = configEntry(d, s)
  <2>1. PICK s \in {x \in StoreServers : isConfigPrincipal(x)} : c = configEntry(d, s)
    BY <1>2
  <2>2. c.start = ZeroTime /\ c.flags = {} /\ c.server = s
    BY <2>1 DEF configEntry, newTGT
  <2>3. ZeroTime \in Int /\ ZeroTime <= 0
    BY PolicyAssumption DEF PolicyAssumption, ZeroTime
  <2> QED  BY <1>0, <2>2, <2>3 DEF sound
<1>3. CASE \E s \in StoreServers, life \in SvcLives :
              c = newTicket(newTGT(d, clock, life, 0, {}), s, clock, life)
  <2>1. PICK s \in StoreServers, life \in SvcLives :
              c = newTicket(newTGT(d, clock, life, 0, {}), s, clock, life)
    BY <1>3
  <2>2. life \in Nat \ {0}
    BY ClientAssumption DEF ClientAssumption
  <2>3. c.start = clock /\ c.flags = {} /\ c.end = min(clock + life, clock + life)
    BY <2>1 DEF newTicket, newTGT
  <2> QED  BY <1>0, <2>2, <2>3 DEF sound, min
<1> QED  BY <1>1, <1>2, <1>3 DEF storable

\* Everything kinit writes is sound.
LEMMA ContentsSound ==
    ASSUME LivesOrdered, NEW c \in Clients, NEW t \in Nat, NEW s \in fileContents(c, t)
    PROVE  \A i \in DOMAIN s : sound(s[i], t)
<1>1. c \in Principal
  BY ClientAssumption DEF ClientAssumption
<1>2. \A g \in kinitTGTs(c, t) : g \in Cred /\ sound(g, t)
  BY <1>1, KinitSound, KinitLocal
<1>3. CASE s = <<>>
  BY <1>3
<1>4. CASE \E g \in kinitTGTs(c, t) : s = <<g>>
  BY <1>2, <1>4
<1>5. CASE \E g \in kinitTGTs(c, t), v \in StoreServers, life \in SvcLives :
              s = <<newTicket(g, v, t, life), g>>
  <2>1. PICK g \in kinitTGTs(c, t), v \in StoreServers, life \in SvcLives :
              s = <<newTicket(g, v, t, life), g>>
    BY <1>5
  <2>2. life \in Nat
    BY ClientAssumption DEF ClientAssumption
  <2>3. sound(newTicket(g, v, t, life), t)
    BY <1>2, <2>2, TicketSound
  <2> QED  BY <1>2, <2>1, <2>3
<1> QED  BY <1>3, <1>4, <1>5 DEF fileContents

\* The file's entries, the held TGT and those a renewal works on are sound.
TimesSound ==
    /\ file # Nil => \A i \in DOMAIN file.creds : sound(file.creds[i], clock)
    /\ tgt # Nil => sound(tgt.cred, clock)
    /\ \A p \in Threads : /\ started[p] # Nil => sound(started[p].cred, clock)
                          /\ renewed[p] # Nil => sound(renewed[p], clock)
                          /\ renewed[p] # Nil => later(renewed[p], started[p].cred)

\* Only Tick moves the clock.
LEMMA ClockSteps ==
    ASSUME Next
    PROVE  UNCHANGED clock \/ Tick
BY DEF Next, MaintainStep, RequestStep, LoopStep, Maintain, Reload, Adopt, RenewStart,
       RenewExchange, RenewInstall, Sweep, Evict, Retrieve, Lookup, Lead, Tgs, Land, Enumerate,
       List, Return, Initialize, Store, Remove, Destroy, DestroyInitialize, KinitKCM, KinitStore,
       Wake, Plan, ChangeFile, world

\* The file stays sound, whoever writes it.
LEMMA FileSoundNext ==
    ASSUME LivesOrdered, TypeInv, TimesSound, Next, UNCHANGED clock
    PROVE  file' # Nil => \A i \in DOMAIN file'.creds : sound(file'.creds[i], clock)
<1> DEFINE Goal == file' # Nil => \A i \in DOMAIN file'.creds : sound(file'.creds[i], clock)
<1>1. ASSUME NEW c \in Clients, NEW s \in fileContents(c, clock), file' = cacheFile(c, s)
      PROVE  Goal
  BY <1>1, ContentsSound DEF cacheFile, TypeInv, TypeOK
<1>2. ASSUME file # Nil, NEW n \in 0..Len(file.creds),
             file' = [file EXCEPT !.creds = SubSeq(@, 1, n), !.torn = TRUE]
      PROVE  Goal
  <2>1. file \in File /\ file.creds \in Seq(Cred)
    BY <1>2 DEF TypeInv, TypeOK, File
  <2>2. file'.creds = SubSeq(file.creds, 1, n)
    BY <1>2, <2>1 DEF File
  <2>3. \A i \in DOMAIN file'.creds : i \in DOMAIN file.creds /\ file'.creds[i] = file.creds[i]
    BY <2>1, <2>2
  <2> QED  BY <1>2, <2>3 DEF TimesSound
<1>3. CASE UNCHANGED file
  BY <1>3 DEF TimesSound
<1>4. CASE file' = Nil
  BY <1>4
<1> QED  BY FileSteps, <1>1, <1>2, <1>3, <1>4 DEF ChangeFile

\* The held TGT stays sound, however it is replaced.
LEMMA HeldSoundNext ==
    ASSUME LivesOrdered, TypeInv, TimesSound, Next
    PROVE  tgt' # Nil => tgt' = tgt \/ sound(tgt'.cred, clock)
<1> DEFINE Goal == tgt' # Nil => tgt' = tgt \/ sound(tgt'.cred, clock)
<1>1. CASE UNCHANGED tgt
  BY <1>1
<1>2. ASSUME NEW p \in Threads, Adopt(p) PROVE Goal
  <2> SUFFICES ASSUME tgt' # Nil PROVE sound(tgt'.cred, clock)
    OBVIOUS
  <2>1. /\ file \in File /\ file.creds \in Seq(Cred)
        /\ peekTGT(file.creds) # Nil /\ tgt'.cred = peekTGT(file.creds)
    BY <1>2, AdoptEffect
  <2>2. file # Nil
    BY <2>1, ClientAssumption DEF ClientAssumption
  <2>3. \E i \in DOMAIN file.creds : tgt'.cred = file.creds[i]
    BY <2>1, PeekedTGT
  <2> QED  BY <2>2, <2>3 DEF TimesSound
<1>3. ASSUME NEW p \in Threads, RenewalStep(p) PROVE Goal
  <2>1. CASE RenewInstall(p)
    BY <2>1, <1>1, RenewalEffect, InstallEffect DEF TimesSound
  <2> QED  BY <1>1, <1>3, <2>1, ExchangeEffect DEF RenewalStep
<1>4. ASSUME NEW p \in Procs, StoreStep(p) PROVE Goal
  BY <1>4, StoreEffect, InstallEffect, StorableSound
<1>5. ASSUME NEW p \in Procs, Wipe(p) PROVE Goal
  BY <1>5, WipeEffect
<1>6. ASSUME NEW p \in Threads, Evict(p) PROVE Goal
  BY <1>1, <1>6 DEF Evict
<1>7. ASSUME NEW p \in Procs, Tgs(p) \/ Remove(p) PROVE Goal
  BY <1>1, <1>7 DEF Tgs, Remove
<1> QED  BY CacheSteps, <1>1, <1>2, <1>3, <1>4, <1>5, <1>6, <1>7

\* A renewal's locals stay sound.
LEMMA RenewalSoundNext ==
    ASSUME TypeInv, RenewalFits, TimesSound, Next, NEW q \in Threads
    PROVE  /\ started'[q] # Nil => sound(started'[q].cred, clock)
           /\ renewed'[q] # Nil => sound(renewed'[q], clock)
           /\ renewed'[q] # Nil => later(renewed'[q], started'[q].cred)
<1> USE DEF TypeInv, TypeOK
<1> DEFINE Goal == /\ started'[q] # Nil => sound(started'[q].cred, clock)
                   /\ renewed'[q] # Nil => sound(renewed'[q], clock)
                   /\ renewed'[q] # Nil => later(renewed'[q], started'[q].cred)
<1>1. CASE started'[q] = started[q] /\ renewed'[q] = renewed[q]
  BY <1>1 DEF TimesSound
<1>2. ASSUME NEW p \in Threads, RenewStart(p) \/ RenewExchange(p) PROVE Goal
  <2>1. CASE p # q \/ UNCHANGED <<started, renewed>>
    BY <1>1, <1>2, <2>1, ExchangeEffect
  <2>2. CASE /\ p = q /\ pc[p] = "renew" /\ tgt # Nil
             /\ started' = [started EXCEPT ![p] = tgt] /\ UNCHANGED renewed
    <3>1. renewed[q] = Nil
      BY <2>2 DEF RenewalFits
    <3> QED  BY <2>2, <3>1 DEF TimesSound
  <2>3. CASE /\ p = q /\ started[p] # Nil /\ UNCHANGED started
             /\ renewed' = [renewed EXCEPT ![p] = Nil]
    BY <2>3 DEF TimesSound
  <2>4. CASE /\ p = q /\ started[p] \in TGTInfo /\ started[p] # Nil /\ UNCHANGED started
             /\ kdcRenews(started[p].cred, clock)
             /\ renewed' = [renewed EXCEPT ![p] = renewedTGT(started[p].cred, clock)]
    <3>1. started[p].cred \in Cred /\ sound(started[p].cred, clock) /\ clock \in Nat
      BY <2>4 DEF TGTInfo, TimesSound
    <3> QED  BY <2>4, <3>1, RenewedSound
  <2> QED  BY <1>2, <2>1, <2>2, <2>3, <2>4, ExchangeEffect
<1>3. ASSUME NEW p \in Threads, RenewInstall(p) PROVE Goal
  <2>1. /\ started' = [started EXCEPT ![p] = Nil]
        /\ renewed' = [renewed EXCEPT ![p] = Nil]
    BY <1>3, RenewalEffect
  <2> QED  BY <1>1, <2>1
<1>4. ASSUME NEW p \in Threads, Adopt(p) \/ Evict(p) PROVE Goal
  BY <1>1, <1>4 DEF Adopt, Evict, renewal
<1>5. ASSUME NEW p \in Procs, Tgs(p) \/ Remove(p) PROVE Goal
  BY <1>1, <1>5 DEF Tgs, Remove, renewal
<1>6. ASSUME NEW p \in Procs, Wipe(p) \/ StoreStep(p) PROVE Goal
  BY <1>1, <1>6, WipeEffect, StoreEffect
<1> QED  BY CacheSteps, <1>1, <1>2, <1>3, <1>4, <1>5, <1>6 DEF RenewalStep

\* Every step keeps all of them sound.
LEMMA SoundNext ==
    ASSUME LivesOrdered, TypeInv, RenewalFits, TimesSound, Next
    PROVE  TimesSound'
<1>1. CASE UNCHANGED clock
  <2>1. file' # Nil => \A i \in DOMAIN file'.creds : sound(file'.creds[i], clock)
    BY <1>1, FileSoundNext
  <2>2. tgt' # Nil => sound(tgt'.cred, clock)
    BY HeldSoundNext DEF TimesSound
  <2> QED  BY <1>1, <2>1, <2>2, RenewalSoundNext DEF TimesSound
<1>2. CASE Tick
  <2>1. clock \in Int /\ clock' \in Int /\ clock <= clock'
    BY <1>2 DEF Tick, TypeInv, TypeOK
  <2>2. UNCHANGED <<file, tgt, started, renewed>>
    BY <1>2 DEF Tick, renewal
  <2>3. file # Nil => file.creds \in Seq(Cred)
    BY DEF TypeInv, TypeOK, File
  <2>4. file # Nil => \A i \in DOMAIN file.creds : sound(file.creds[i], clock')
    BY <2>1, <2>3, SoundLater DEF TimesSound
  <2>5. tgt # Nil => sound(tgt.cred, clock')
    BY <2>1, SoundLater DEF TimesSound, TypeInv, TypeOK, TGTInfo
  <2>6. ASSUME NEW q \in Threads
        PROVE  /\ started[q] # Nil => sound(started[q].cred, clock')
               /\ renewed[q] # Nil => sound(renewed[q], clock')
    <3>1. /\ started[q] # Nil => started[q].cred \in Cred
          /\ renewed[q] # Nil => renewed[q] \in Cred
      BY DEF TypeInv, TypeOK, TGTInfo
    <3> QED  BY <2>1, <3>1, SoundLater DEF TimesSound
  <2> QED  BY <2>2, <2>4, <2>5, <2>6 DEF TimesSound
<1> QED  BY ClockSteps, <1>1, <1>2

\* So they always are.
LEMMA SoundAlways == ASSUME LivesOrdered PROVE Spec => []TimesSound
<1>1. Init => TimesSound
  <2> SUFFICES ASSUME Init PROVE TimesSound
    OBVIOUS
  <2>1. file.creds \in Seq(Cred) /\ clock \in Nat
    BY FilesType, PolicyAssumption, ClientAssumption DEF Init, Open, File
  <2>2. \A i \in DOMAIN file.creds : sound(file.creds[i], clock)
    BY <2>1, ContentsSound DEF Init, Open, cacheFile
  <2>3. tgt # Nil => peekTGT(file.creds) # Nil /\ tgt.cred = peekTGT(file.creds)
    BY DEF Init, Open
  <2>4. tgt # Nil => \E i \in DOMAIN file.creds : tgt.cred = file.creds[i]
    BY <2>1, <2>3, PeekedTGT
  <2> QED  BY <2>2, <2>4 DEF Init, TimesSound
<1>2. TypeInv /\ RenewalFits /\ TimesSound /\ [Next]_vars => TimesSound'
  <2>1. CASE UNCHANGED vars
    BY <2>1 DEF vars, world, renewal, TimesSound
  <2> QED  BY <2>1, SoundNext
<1> QED  BY <1>1, <1>2, TypeAlways, RenewalFitsAlways, PTL DEF Spec

-----------------------------------------------------------------------------
(* Maintenance never shortens the TGT, provided the file keeps still while *)
(* it is reloaded.                                                         *)

\* What a reload goes on to adopt still lasts longer than what is held.
AdoptsLonger ==
    \A p \in Threads : pc[p] = "adopt" =>
        /\ file # Nil /\ peekTGT(file.creds) # Nil
        /\ tgt # Nil => peekTGT(file.creds).end > tgt.cred.end

\* Every step keeps it so.
LEMMA LongerNext ==
    ASSUME ~FileRaces, TypeInv, LockExclusive, AdoptsLonger, Next
    PROVE  AdoptsLonger'
<1> USE DEF TypeInv, TypeOK
<1> SUFFICES ASSUME NEW q \in Threads, pc'[q] = "adopt"
             PROVE  /\ file' # Nil /\ peekTGT(file'.creds) # Nil
                    /\ tgt' # Nil => peekTGT(file'.creds).end > tgt'.cred.end
  BY DEF AdoptsLonger
<1>1. CASE Reload(q)
  <2>1. UNCHANGED <<file, tgt>> /\ newer(file, tgt, now[q])
    BY <1>1 DEF Reload, world, Goto, afterCheck
  <2> QED  BY <2>1 DEF newer
<1>2. CASE pc[q] = "adopt" /\ UNCHANGED tgt
  <2>1. ~ChangeFile
    BY <1>2 DEF ChangeFile, mayChangeFile
  <2>2. UNCHANGED file
    BY <2>1, FileSteps
  <2> QED  BY <1>2, <2>2 DEF AdoptsLonger
<1> QED  BY AdoptFrame, <1>1, <1>2

\* So it always is.
LEMMA LongerAlways == ASSUME ~FileRaces PROVE Spec => []AdoptsLonger
<1>1. Init => AdoptsLonger
  BY DEF Init, AdoptsLonger
<1>2. TypeInv /\ LockExclusive /\ AdoptsLonger /\ [Next]_vars => AdoptsLonger'
  <2>1. CASE UNCHANGED vars
    BY <2>1 DEF vars, world, AdoptsLonger
  <2> QED  BY <2>1, LongerNext
<1> QED  BY <1>1, <1>2, TypeAlways, LockAlways, PTL DEF Spec

\* Only its own step takes a thread out of a reload or an exchange.
LEMMA OwnStep ==
    ASSUME TypeInv, Next, NEW q \in Threads, pc[q] \in {"adopt", "install"}, pc'[q] # pc[q]
    PROVE  Adopt(q) \/ RenewInstall(q)
<1>1. ASSUME NEW p \in Procs, Land(p) PROVE q \notin crew(p)
  BY <1>1 DEF Land, crew
<1>2. MaintainStep(q) => Adopt(q) \/ RenewInstall(q)
  BY DEF MaintainStep, Maintain, Reload, RenewStart, RenewExchange, Sweep, Evict
<1>3. ~RequestStep(q)
  BY DEF RequestStep, Retrieve, Lookup, Lead, Tgs, Land, Enumerate, List, Return, Initialize,
         Store, Remove, CanWrite, Destroy, DestroyInitialize, KinitKCM, KinitStore
<1>4. ~LoopStep(q)
  BY DEF LoopStep, Wake, Plan
<1> QED  BY LocalFrame, <1>1, <1>2, <1>3, <1>4 DEF Moves, Kept

\* A reload brings in a TGT that ends later.
LEMMA AdoptLengthens ==
    ASSUME TypeInv, AdoptsLonger, NEW p \in Threads, Adopt(p), tgt # Nil, tgt' # Nil
    PROVE  tgt'.cred.end > tgt.cred.end
<1>1. pc[p] = "adopt" /\ tgt'.cred = peekTGT(file.creds)
  BY AdoptEffect
<1> QED  BY <1>1 DEF AdoptsLonger

\* A renewal brings in one that does not end earlier.
LEMMA InstallLengthens ==
    ASSUME TypeInv, RenewalFits, TimesSound, NEW p \in Threads, RenewInstall(p), tgt # Nil
    PROVE  tgt' # Nil /\ tgt'.cred.end >= tgt.cred.end
<1>1. tgt \in TGTInfo /\ tgt.cred.end \in Int
  BY DEF TypeInv, TypeOK, TGTInfo, Cred
<1>2. CASE UNCHANGED tgt
  BY <1>1, <1>2
<1>3. CASE /\ started[p] # Nil /\ tgt.ptr = started[p].ptr
           /\ renewed[p] \in Cred /\ renewed[p] # Nil /\ install(renewed[p])
  <2>1. renewed[p].end >= tgt.cred.end
    BY <1>3 DEF RenewalFits, TimesSound, later
  <2>2. tgt' # Nil /\ tgt'.cred = renewed[p]
    BY <1>3, InstallEffect
  <2> QED  BY <2>1, <2>2
<1> QED  BY <1>2, <1>3, RenewalEffect

(***************************************************************************)
(* Maintenance never trades the held TGT for one that ends earlier,        *)
(* however reloads, renewals in flight, STOREs and INITIALIZEs interleave: *)
(* a reload compares under the lock it adopts with, and a renewal is       *)
(* dropped when its TGT has been replaced.                                 *)
(***************************************************************************)
THEOREM LengthSafety == ASSUME ~FileRaces, LivesOrdered PROVE Spec => MaintenanceNeverShortens
<1>1. ASSUME TypeInv, RenewalFits, TimesSound, AdoptsLonger, Next, NEW p \in Threads,
             pc[p] \in {"adopt", "install"}, pc'[p] # pc[p], tgt # Nil, tgt' # Nil
      PROVE  tgt'.cred.end >= tgt.cred.end
  <2>1. tgt.cred.end \in Int /\ tgt'.cred.end \in Int
    <3>1. TypeInv'
      BY <1>1, TypeNext
    <3> QED  BY <1>1, <3>1 DEF TypeInv, TypeOK, TGTInfo, Cred
  <2>2. CASE Adopt(p)
    BY <1>1, <2>1, <2>2, AdoptLengthens
  <2>3. CASE RenewInstall(p)
    BY <1>1, <2>3, InstallLengthens
  <2> QED  BY <1>1, <2>2, <2>3, OwnStep
<1>2. TypeInv /\ RenewalFits /\ TimesSound /\ AdoptsLonger /\ [Next]_vars =>
        [\A p \in Threads : pc[p] \in {"adopt", "install"} /\ pc'[p] # pc[p] =>
            (tgt # Nil /\ tgt' # Nil => tgt'.cred.end >= tgt.cred.end)]_vars
  BY <1>1
<1> QED  BY <1>2, TypeAlways, RenewalFitsAlways, SoundAlways, LongerAlways, PTL
         DEF Spec, MaintenanceNeverShortens

-----------------------------------------------------------------------------
(* Refusals.                                                               *)

\* No other identity comes in: nobody initialises the cache, and if TGTs are
\* STOREd in it, nobody damages or races the source file and a config entry is
\* not a TGT.
SameIdentity ==
    /\ Ops \cap {"initialize", "destroy", "kinit"} = {}
    /\ "store" \in Ops =>
          /\ ~FileRaces /\ ~Damage
          /\ \A s \in StoreServers : isConfigPrincipal(s) => ~isTGTServer(s)

\* Requests were taken up in the past, and nobody is replacing the cache.
Underway == \A p \in Threads : now[p] <= clock /\ pc[p] \notin {"destroy", "kinit"}

\* Every step keeps it so.
LEMMA UnderwayNext ==
    ASSUME SameIdentity, TypeInv, Underway, Next
    PROVE  Underway'
<1> USE DEF TypeInv, TypeOK, Underway
<1> SUFFICES ASSUME NEW q \in Threads PROVE now'[q] <= clock' /\ pc'[q] \notin {"destroy", "kinit"}
  OBVIOUS
<1>0. clock \in Nat /\ clock' \in Nat /\ clock <= clock' /\ now[q] \in Nat
  BY ClockSteps DEF Tick
<1>1. CASE Kept(q)
  BY <1>0, <1>1 DEF Kept
<1>2. ASSUME NEW p \in Procs, Land(p), q \in crew(p) PROVE now'[q] <= clock' /\ pc'[q] \notin {"destroy", "kinit"}
  BY <1>0, <1>2 DEF Land
<1>3. ASSUME MaintainStep(q) PROVE now'[q] <= clock' /\ pc'[q] \notin {"destroy", "kinit"}
  <2>1. pc[q] = "sweep" \/ pc[q] = "evict" => afterMaintain(q) \in {"lookup", "list", "plan"}
    BY AfterMaintain
  <2>2. UNCHANGED now
    BY <1>3 DEF MaintainStep, Maintain, Reload, Adopt, RenewStart, RenewExchange, RenewInstall,
                Sweep, Evict
  <2>3. ASSUME Sweep(q) \/ Evict(q) PROVE pc'[q] \notin {"destroy", "kinit"}
    BY <2>1, <2>3 DEF Sweep, Evict, Goto
  <2>4. ASSUME ~Sweep(q), ~Evict(q) PROVE pc'[q] \notin {"destroy", "kinit"}
    BY <1>3, <2>4 DEF MaintainStep, Maintain, Reload, Adopt, RenewStart, RenewExchange,
                      RenewInstall, Goto, afterCheck
  <2> QED  BY <1>0, <2>2, <2>3, <2>4
<1>4. ASSUME q \in Procs, RequestStep(q) PROVE now'[q] <= clock' /\ pc'[q] \notin {"destroy", "kinit"}
  <2>1. CASE Retrieve(q) \/ Enumerate(q)
    BY <1>0, <2>1 DEF Retrieve, Enumerate, BeginMaintain, Goto
  <2>2. CASE Return(q)
    BY <1>0, <2>2 DEF Return, Goto
  <2>3. CASE Lookup(q) \/ Lead(q) \/ Tgs(q) \/ List(q)
    BY <1>0, <2>3 DEF Lookup, Lead, Tgs, List, Landed, Answer, Goto
  <2>4. CASE Land(q)
    BY <1>2, <1>4, <2>4 DEF crew
  <2>5. CASE Store(q) \/ Remove(q) \/ KinitStore(q)
    BY <1>0, <2>5 DEF Store, Remove, KinitStore, Goto
  <2>6. ~Initialize(q) /\ ~Destroy(q) /\ ~DestroyInitialize(q) /\ ~KinitKCM(q)
    BY DEF SameIdentity, Initialize, Destroy, DestroyInitialize, KinitKCM, CanWrite
  <2> QED  BY <1>4, <2>1, <2>2, <2>3, <2>4, <2>5, <2>6 DEF RequestStep
<1>5. ASSUME LoopStep(q) PROVE now'[q] <= clock' /\ pc'[q] \notin {"destroy", "kinit"}
  BY <1>0, <1>5 DEF LoopStep, Wake, Plan, BeginMaintain, Goto
<1> QED  BY LocalFrame, <1>1, <1>2, <1>3, <1>4, <1>5 DEF Moves

\* A TGT that was usable when a request was taken up is only replaced by one
\* that is.
LEMMA UsableKept ==
    ASSUME SameIdentity, "store" \in Ops, LivesOrdered, TypeInv, FileWhole, RenewalFits, TimesSound,
           AdoptsLonger, Underway, Next, NEW t \in Nat, t <= clock, tgtUsable(tgt, t)
    PROVE  tgtUsable(tgt', t)
<1>0. TypeInv'
  BY TypeNext
<1>1. tgt # Nil /\ tgt.cred.end \in Int /\ t < tgt.cred.end
  BY DEF tgtUsable, expired, TypeInv, TypeOK, TGTInfo, Cred
<1>2. tgt' # Nil => tgt'.cred.end \in Int
  BY <1>0 DEF TypeInv, TypeOK, TGTInfo, Cred
<1>3. ASSUME tgt' # Nil, tgt'.cred.end >= tgt.cred.end PROVE tgtUsable(tgt', t)
  BY <1>1, <1>2, <1>3 DEF tgtUsable, expired
<1>4. CASE UNCHANGED tgt
  BY <1>4
<1>5. ASSUME NEW p \in Threads, Adopt(p) PROVE tgtUsable(tgt', t)
  <2>1. /\ file # Nil /\ ~file.torn /\ peekTGT(file.creds) # Nil
    BY <1>5 DEF Adopt, AdoptsLonger, FileWhole
  <2>2. tgt' # Nil
    BY <1>5, <2>1, AdoptEffect
  <2>3. tgt'.cred.end > tgt.cred.end
    BY <1>1, <1>5, <2>2, AdoptLengthens
  <2> QED  BY <1>1, <1>2, <1>3, <2>2, <2>3
<1>6. ASSUME NEW p \in Threads, RenewalStep(p) PROVE tgtUsable(tgt', t)
  <2>1. CASE RenewInstall(p)
    BY <1>1, <1>3, <2>1, InstallLengthens
  <2> QED  BY <1>4, <1>6, <2>1, ExchangeEffect DEF RenewalStep
<1>7. ASSUME NEW p \in Procs, StoreStep(p) PROVE tgtUsable(tgt', t)
  <2>0. PICK d \in Principal : \E c \in storable(d) :
           /\ c \in Cred
           /\ \/ isLocalTGT(c.client, c.server) /\ install(c)
              \/ UNCHANGED tgt
    BY <1>7, StoreEffect
  <2>1. PICK c \in storable(d) :
           /\ c \in Cred
           /\ \/ isLocalTGT(c.client, c.server) /\ install(c)
              \/ UNCHANGED tgt
    BY <2>0
  <2>2. ASSUME isLocalTGT(c.client, c.server), install(c) PROVE tgtUsable(tgt', t)
    <3>1. c.end > clock
      BY <2>1, <2>2, StorableSound DEF SameIdentity, isLocalTGT
    <3>2. tgt' # Nil /\ tgt'.cred = c
      BY <2>1, <2>2, InstallEffect
    <3> QED  BY <1>2, <3>1, <3>2 DEF tgtUsable, expired, TypeInv, TypeOK
  <2> QED  BY <1>4, <2>1, <2>2
<1>8. ASSUME NEW p \in Procs, Wipe(p) PROVE FALSE
  BY <1>8 DEF Wipe, Initialize, DestroyInitialize, KinitKCM, CanWrite, SameIdentity, Underway, Threads
<1>9. ASSUME NEW p \in Threads, Evict(p) PROVE tgtUsable(tgt', t)
  BY <1>4, <1>9 DEF Evict
<1>10. ASSUME NEW p \in Procs, Tgs(p) \/ Remove(p) PROVE tgtUsable(tgt', t)
  BY <1>4, <1>10 DEF Tgs, Remove
<1> QED  BY CacheSteps, <1>4, <1>5, <1>6, <1>7, <1>8, <1>9, <1>10

\* Where maintain has made its decision about the file.
Decided == {"adopt", "renew", "exchange", "install", "sweep", "evict", "lookup"}

checked(t) == ~fileCheckDue(t, lastFileCheck) \/ tgtUsable(tgt, t)

\* From there on, either the file was consulted lately or the TGT is good.
CheckedFirst == \A p \in Threads : pc[p] \in Decided => checked(now[p])

\* Once a file check is not due for a request, it never is.
LEMMA CheckKept ==
    ASSUME TypeInv, Next, NEW t \in Nat, ~fileCheckDue(t, lastFileCheck)
    PROVE  ~fileCheckDue(t, lastFileCheck')
<1>1. lastFileCheck \in Int /\ lastFileCheck' \in Int /\ FileCheckInterval \in Nat
  BY TypeNext, PolicyAssumption DEF TypeInv, TypeOK, PolicyAssumption
<1>2. lastFileCheck' >= lastFileCheck
  <2>1. CASE UNCHANGED lastFileCheck
    BY <1>1, <2>1
  <2>2. CASE lastFileCheck' >= lastFileCheck + FileCheckInterval
    BY <1>1, <2>2
  <2> QED  BY FileCheckStep, <2>1, <2>2
<1>3. ~(t - lastFileCheck >= FileCheckInterval)
  BY DEF fileCheckDue
<1>4. \A i, j \in Int : i <= j /\ ~(t - i >= FileCheckInterval) => ~(t - j >= FileCheckInterval)
  BY <1>1
<1> QED  BY <1>1, <1>2, <1>3, <1>4 DEF fileCheckDue

\* A thread enters that part of the code through maintain's decisions only.
LEMMA DecidedSteps ==
    ASSUME TypeInv, Next, NEW q \in Threads, pc'[q] \in Decided
    PROVE  \/ pc[q] \in Decided /\ now'[q] = now[q]
           \/ Maintain(q) \/ Reload(q)
<1> USE DEF TypeInv, TypeOK, Decided
<1>1. CASE Kept(q)
  BY <1>1 DEF Kept
<1>2. ASSUME NEW p \in Procs, Land(p), q \in crew(p) PROVE FALSE
  BY <1>2 DEF Land
<1>3. ASSUME MaintainStep(q), ~Maintain(q), ~Reload(q)
      PROVE  pc[q] \in Decided /\ now'[q] = now[q]
  BY <1>3 DEF MaintainStep, Adopt, RenewStart, RenewExchange, RenewInstall, Sweep, Evict
<1>4. ASSUME q \in Procs, RequestStep(q) PROVE FALSE
  <2>1. ~Retrieve(q) /\ ~Enumerate(q) /\ ~Return(q) /\ ~List(q) /\ ~Lookup(q) /\ ~Lead(q) /\ ~Tgs(q)
    BY DEF Retrieve, Enumerate, Return, List, Lookup, Lead, Tgs, Landed, Answer, BeginMaintain, Goto
  <2>2. ~Initialize(q) /\ ~Store(q) /\ ~Remove(q)
    BY DEF Initialize, Store, Remove, CanWrite
  <2>3. ~Destroy(q) /\ ~DestroyInitialize(q) /\ ~KinitKCM(q) /\ ~KinitStore(q)
    BY DEF Destroy, DestroyInitialize, KinitKCM, KinitStore, Goto
  <2>4. ~Land(q)
    BY <1>2, <1>4 DEF crew
  <2> QED  BY <1>4, <2>1, <2>2, <2>3, <2>4 DEF RequestStep
<1>5. ASSUME LoopStep(q) PROVE FALSE
  BY <1>5 DEF LoopStep, Wake, Plan, BeginMaintain, Goto
<1> QED  BY LocalFrame, <1>1, <1>2, <1>3, <1>4, <1>5 DEF Moves

\* A TGT that needs no attention is good.
LEMMA NoAttention ==
    ASSUME TypeInv, NEW t \in Nat, ~tgtNeedsAttention(tgt, t)
    PROVE  tgtUsable(tgt, t)
<1>1. tgt # Nil /\ tgt.cred.end \in Int /\ remaining(tgt.cred, t) >= MinLife
  <2>1. tgt # Nil /\ ~(remaining(tgt.cred, t) < MinLife)
    BY DEF tgtNeedsAttention
  <2>2. tgt.cred.end \in Int
    BY <2>1 DEF TypeInv, TypeOK, TGTInfo, Cred
  <2> QED  BY <2>1, <2>2, PolicyAssumption DEF remaining, PolicyAssumption
<1> QED  BY <1>1, PolicyAssumption DEF PolicyAssumption, remaining, tgtUsable, expired

\* If TGTs are STOREd: every step keeps the file consulted, or the TGT good.
LEMMA CheckedNext ==
    ASSUME SameIdentity, "store" \in Ops, LivesOrdered, TypeInv, FileWhole, RenewalFits, TimesSound,
           AdoptsLonger, Underway, CheckedFirst, Next
    PROVE  CheckedFirst'
<1> SUFFICES ASSUME NEW q \in Threads, pc'[q] \in Decided
             PROVE  ~fileCheckDue(now'[q], lastFileCheck') \/ tgtUsable(tgt', now'[q])
  BY DEF CheckedFirst, checked
<1>0. now[q] \in Nat /\ now[q] <= clock
  BY DEF TypeInv, TypeOK, Underway
<1>1. CASE pc[q] \in Decided /\ now'[q] = now[q]
  <2>1. ~fileCheckDue(now[q], lastFileCheck) \/ tgtUsable(tgt, now[q])
    BY <1>1 DEF CheckedFirst, checked
  <2> QED  BY <1>0, <1>1, <2>1, CheckKept, UsableKept
<1>2. CASE Maintain(q)
  <2>1. UNCHANGED <<tgt, lastFileCheck, now>>
    BY <1>2 DEF Maintain
  <2>2. ~(tgtNeedsAttention(tgt, now[q]) /\ fileCheckDue(now[q], lastFileCheck))
    BY <1>2 DEF Maintain, Goto, Decided, TypeInv, TypeOK
  <2> QED  BY <1>0, <2>1, <2>2, NoAttention
<1>3. CASE Reload(q)
  <2>1. UNCHANGED <<tgt, now>>
    BY <1>3 DEF Reload
  <2>2. CASE tgtNeedsAttention(tgt, now[q]) /\ fileCheckDue(now[q], lastFileCheck)
    <3>1. lastFileCheck' = now[q]
      BY <1>3, <2>2 DEF Reload
    <3> QED  BY <1>0, <2>1, <3>1, PolicyAssumption DEF fileCheckDue, PolicyAssumption
  <2>3. CASE ~(tgtNeedsAttention(tgt, now[q]) /\ fileCheckDue(now[q], lastFileCheck))
    <3>1. UNCHANGED lastFileCheck
      BY <1>3, <2>3 DEF Reload
    <3> QED  BY <1>0, <2>1, <2>3, <3>1, NoAttention
  <2> QED  BY <2>2, <2>3
<1> QED  BY DecidedSteps, <1>1, <1>2, <1>3

\* If they are not, a reload may find the file gone or truncated and leave no
\* TGT at all.  Then nobody relied on the TGT it gave up: that needed attention
\* when the reload was decided on, and has needed it ever since.

\* The held TGT needs no attention, or the file was consulted lately.
attended(t) == ~fileCheckDue(t, lastFileCheck) \/ ~tgtNeedsAttention(tgt, t)

AttendedFirst == \A p \in Threads : pc[p] \in Decided => attended(now[p])

\* A reload has noted its check, and is about a TGT that needs attention.
AdoptNoted ==
    \A p \in Threads : pc[p] = "adopt" =>
        lastFileCheck = now[p] /\ tgtNeedsAttention(tgt, now[p])

\* Every step keeps it so.
LEMMA NotedNext ==
    ASSUME TypeInv, LockExclusive, AdoptNoted, Next
    PROVE  AdoptNoted'
<1> SUFFICES ASSUME NEW q \in Threads, pc'[q] = "adopt"
             PROVE  lastFileCheck' = now'[q] /\ tgtNeedsAttention(tgt', now'[q])
  BY DEF AdoptNoted
<1>1. CASE Reload(q)
  <2>1. UNCHANGED <<tgt, now>>
    BY <1>1 DEF Reload
  <2>2. tgtNeedsAttention(tgt, now[q]) /\ fileCheckDue(now[q], lastFileCheck)
    BY <1>1 DEF Reload, Goto, afterCheck, TypeInv, TypeOK
  <2>3. lastFileCheck' = now[q]
    BY <1>1, <2>2 DEF Reload
  <2> QED  BY <2>1, <2>2, <2>3
<1>2. CASE pc[q] = "adopt" /\ now'[q] = now[q] /\ UNCHANGED <<tgt, lastFileCheck>>
  BY <1>2 DEF AdoptNoted
<1> QED  BY AdoptFrame, <1>1, <1>2

\* A TGT that needs attention goes on needing it.
LEMMA AttentionLasts ==
    ASSUME TypeInv, NEW t \in Nat, NEW u \in Nat, t <= u, tgtNeedsAttention(tgt, t)
    PROVE  tgtNeedsAttention(tgt, u)
<1> SUFFICES ASSUME tgt # Nil PROVE tgtNeedsAttention(tgt, u)
  BY DEF tgtNeedsAttention
<1>1. tgt.cred.end \in Int /\ renewPoint(tgt.cred) \in Int /\ MinLife \in Nat \ {0}
  BY PolicyAssumption DEF TypeInv, TypeOK, TGTInfo, Cred, PolicyAssumption, renewPoint
<1>2. CASE remaining(tgt.cred, t) < MinLife
  BY <1>1, <1>2 DEF remaining, tgtNeedsAttention
<1>3. CASE renewDue(tgt.cred, t) /\ ~expired(tgt.cred, u)
  BY <1>1, <1>3 DEF renewDue, canRenew, tgtNeedsAttention
<1>4. CASE expired(tgt.cred, u)
  BY <1>1, <1>4 DEF expired, remaining, tgtNeedsAttention
<1> QED  BY <1>2, <1>3, <1>4 DEF tgtNeedsAttention

\* A renewed TGT does not need attention before the one it replaces.
LEMMA LaterAttention ==
    ASSUME NEW g \in Cred, NEW r \in Cred, later(r, g),
           Renewable \in g.flags => g.start >= 0,
           NEW t \in Nat, renewDue(r, t) \/ remaining(r, t) < MinLife
    PROVE  renewDue(g, t) \/ remaining(g, t) < MinLife
<1>1. /\ g.end \in Int /\ r.end \in Int /\ g.start \in Int /\ r.start \in Int
      /\ g.renewTill \in Int /\ r.renewTill \in Int
      /\ MinLife \in Nat \ {0} /\ ZeroTime \in Int /\ ZeroTime < 0
  BY PolicyAssumption DEF Cred, PolicyAssumption, ZeroTime
<1>2. r.start >= g.start /\ r.end >= g.end /\ r.flags = g.flags /\ r.renewTill = g.renewTill
  BY DEF later
<1>3. CASE remaining(r, t) < MinLife
  BY <1>1, <1>2, <1>3 DEF remaining
<1>4. CASE expired(g, t)
  BY <1>1, <1>4 DEF expired, remaining
<1>5. CASE renewDue(r, t) /\ ~expired(g, t)
  <2>1. Renewable \in g.flags /\ r.renewTill > r.end /\ t >= renewPoint(r)
    BY <1>2, <1>5 DEF renewDue, canRenew, renewable
  <2>2. canRenew(g, t)
    BY <1>1, <1>2, <1>5, <2>1 DEF canRenew, renewable
  <2>3. /\ renewPoint(r) = r.start + (r.end - r.start) \div 2
        /\ renewPoint(g) = g.start + (g.end - g.start) \div 2
    BY <1>1, <1>2, <2>1 DEF renewPoint
  <2>4. renewPoint(r) >= renewPoint(g)
    BY <1>1, <1>2, <2>3
  <2>5. t >= renewPoint(g)
    BY <1>1, <2>1, <2>3, <2>4
  <2> QED  BY <2>2, <2>5 DEF renewDue
<1> QED  BY <1>3, <1>4, <1>5

\* Every step keeps the file consulted, or the TGT in no need of attention.
LEMMA AttendedNext ==
    ASSUME SameIdentity, "store" \notin Ops, TypeInv, RenewalFits, TimesSound, Underway,
           AdoptNoted, AttendedFirst, Next
    PROVE  AttendedFirst'
<1> SUFFICES ASSUME NEW q \in Threads, pc'[q] \in Decided
             PROVE  ~fileCheckDue(now'[q], lastFileCheck') \/ ~tgtNeedsAttention(tgt', now'[q])
  BY DEF AttendedFirst, attended
<1>0. now[q] \in Nat /\ FileCheckInterval \in Nat \ {0}
  BY PolicyAssumption DEF TypeInv, TypeOK, PolicyAssumption
<1>1. CASE pc[q] \in Decided /\ now'[q] = now[q]
  <2> DEFINE Goal == \/ ~fileCheckDue(now[q], lastFileCheck')
                     \/ ~tgtNeedsAttention(tgt', now[q])
  <2>0. ~fileCheckDue(now[q], lastFileCheck) \/ ~tgtNeedsAttention(tgt, now[q])
    BY <1>1 DEF AttendedFirst, attended
  <2>1. ASSUME UNCHANGED tgt PROVE Goal
    BY <1>0, <2>0, <2>1, CheckKept
  <2>2. ASSUME NEW p \in Threads, Adopt(p) PROVE Goal
    <3>1. /\ lastFileCheck = now[p] /\ tgtNeedsAttention(tgt, now[p]) /\ now[p] \in Nat
          /\ UNCHANGED lastFileCheck
      BY <2>2 DEF Adopt, AdoptNoted, TypeInv, TypeOK
    <3>2. CASE now[p] <= now[q]
      BY <1>0, <2>0, <3>1, <3>2, AttentionLasts
    <3>3. CASE now[q] <= now[p]
      BY <1>0, <3>1, <3>3 DEF fileCheckDue
    <3> QED  BY <1>0, <3>1, <3>2, <3>3
  <2>3. ASSUME NEW p \in Threads, RenewalStep(p) PROVE Goal
    <3>1. CASE /\ RenewInstall(p) /\ tgt # Nil /\ started[p] # Nil /\ tgt.ptr = started[p].ptr
               /\ renewed[p] \in Cred /\ renewed[p] # Nil /\ install(renewed[p])
      <4>1. tgt' # Nil /\ tgt'.cred = renewed[p] /\ tgt.cred \in Cred
        BY <3>1, InstallEffect DEF TypeInv, TypeOK, TGTInfo
      <4>2. later(renewed[p], tgt.cred) /\ (Renewable \in tgt.cred.flags => tgt.cred.start >= 0)
        BY <3>1 DEF RenewalFits, TimesSound, sound
      <4>3. tgtNeedsAttention(tgt', now[q]) => tgtNeedsAttention(tgt, now[q])
        BY <1>0, <3>1, <4>1, <4>2, LaterAttention DEF tgtNeedsAttention
      <4> QED  BY <1>0, <2>0, <4>3, CheckKept
    <3> QED  BY <2>1, <2>3, <3>1, RenewalEffect, ExchangeEffect DEF RenewalStep
  <2>4. ASSUME NEW p \in Procs, StoreStep(p) \/ Wipe(p) PROVE FALSE
    BY <2>4 DEF StoreStep, Store, KinitStore, Wipe, Initialize, DestroyInitialize, KinitKCM,
                CanWrite, SameIdentity, Underway, Threads
  <2>5. ASSUME NEW p \in Threads, Evict(p) PROVE Goal
    BY <2>1, <2>5 DEF Evict
  <2>6. ASSUME NEW p \in Procs, Tgs(p) \/ Remove(p) PROVE Goal
    BY <2>1, <2>6 DEF Tgs, Remove
  <2>7. Goal
    BY CacheSteps, <2>1, <2>2, <2>3, <2>4, <2>5, <2>6
  <2> QED  BY <1>1, <2>7
<1>2. CASE Maintain(q)
  <2>1. UNCHANGED <<tgt, lastFileCheck, now>>
    BY <1>2 DEF Maintain
  <2>2. ~(tgtNeedsAttention(tgt, now[q]) /\ fileCheckDue(now[q], lastFileCheck))
    BY <1>2 DEF Maintain, Goto, Decided, TypeInv, TypeOK
  <2> QED  BY <2>1, <2>2
<1>3. CASE Reload(q)
  <2>1. UNCHANGED <<tgt, now>>
    BY <1>3 DEF Reload
  <2>2. CASE tgtNeedsAttention(tgt, now[q]) /\ fileCheckDue(now[q], lastFileCheck)
    <3>1. lastFileCheck' = now[q]
      BY <1>3, <2>2 DEF Reload
    <3> QED  BY <1>0, <2>1, <3>1 DEF fileCheckDue
  <2>3. CASE ~(tgtNeedsAttention(tgt, now[q]) /\ fileCheckDue(now[q], lastFileCheck))
    <3>1. UNCHANGED lastFileCheck
      BY <1>3, <2>3 DEF Reload
    <3> QED  BY <2>1, <2>3, <3>1
  <2> QED  BY <2>2, <2>3
<1> QED  BY DecidedSteps, <1>1, <1>2, <1>3

\* A TGT that needs no attention will do.
LEMMA AttendedChecked == ASSUME TypeInv, AttendedFirst PROVE CheckedFirst
<1> SUFFICES ASSUME NEW p \in Threads, pc[p] \in Decided PROVE checked(now[p])
  BY DEF CheckedFirst
<1>1. attended(now[p]) /\ now[p] \in Nat
  BY DEF AttendedFirst, TypeInv, TypeOK
<1> QED  BY <1>1, NoAttention DEF attended, checked

\* The inductive form: a flight never lands with a refusal.
RefusalsFit ==
    \A p \in Procs :
        /\ pc[p] = "land" => result[p].code # "TktExpired"
        /\ pc[p] = "reply" /\ result[p].code = "TktExpired" =>
              ~fileCheckDue(now[p], lastFileCheck)

\* Every step keeps refusals behind file checks.
LEMMA RefusalsNext ==
    ASSUME TypeInv, CheckedFirst, RefusalsFit, Next
    PROVE  RefusalsFit'
<1> USE DEF TypeInv, TypeOK
<1> Procs \subseteq Threads
  BY DEF Threads
<1> SUFFICES ASSUME NEW q \in Procs, pc'[q] \in {"land", "reply"}, result'[q].code = "TktExpired"
             PROVE  pc'[q] = "reply" /\ ~fileCheckDue(now'[q], lastFileCheck')
  BY DEF RefusalsFit
<1>1. CASE Kept(q)
  BY <1>1, CheckKept DEF Kept, RefusalsFit
<1>2. ASSUME NEW p \in Procs, Land(p), q \in crew(p) PROVE FALSE
  BY <1>2 DEF Land, RefusalsFit
<1>3. ASSUME Lead(q) \/ Tgs(q) PROVE FALSE
  <2>1. CASE Lead(q)
    <3>1. \/ pc' = [pc EXCEPT ![q] = "tgs"]
          \/ \E code \in Codes \ {"TktExpired"} : Landed(q, code, {})
          \/ \E c : Landed(q, "OK", {[cred |-> c, key |-> TRUE]})
      BY <2>1 DEF Lead, Goto, Codes
    <3> QED  BY <3>1 DEF Landed
  <2>2. CASE Tgs(q)
    <3>1. \/ Landed(q, "KDCError", {})
          \/ \E c : Landed(q, "OK", {[cred |-> c, key |-> TRUE]})
      BY <2>2 DEF Tgs
    <3> QED  BY <3>1 DEF Landed
  <2> QED  BY <1>3, <2>1, <2>2
<1>4. CASE Lookup(q)
  <2>1. pc[q] = "lookup" /\ UNCHANGED <<now, lastFileCheck>>
    BY <1>4 DEF Lookup
  <2>2. ~tgtUsable(tgt, now[q]) /\ pc'[q] = "reply"
    BY <1>4 DEF Lookup, Answer, Goto
  <2>3. checked(now[q])
    BY <2>1 DEF CheckedFirst, Decided
  <2> QED  BY <2>1, <2>2, <2>3 DEF checked
<1>5. ASSUME List(q) PROVE FALSE
  <2>1. \E code \in {"OK", "CCNotFound"} : \E es : result'[q] = [code |-> code, entries |-> es]
    BY <1>5 DEF List, Answer
  <2> QED  BY <2>1
<1> QED  BY ReplySources, <1>1, <1>2, <1>3, <1>4, <1>5

\* Threads stay under way.
LEMMA UnderwayAlways == ASSUME SameIdentity PROVE Spec => []Underway
<1>1. Init => Underway
  BY DEF Init, Open, Underway, Threads
<1>2. TypeInv /\ Underway /\ [Next]_vars => Underway'
  <2>1. CASE UNCHANGED vars
    BY <2>1 DEF vars, world, Underway
  <2> QED  BY <2>1, UnderwayNext
<1> QED  BY <1>1, <1>2, TypeAlways, PTL DEF Spec

\* The decision is kept if TGTs are STOREd,
LEMMA CheckedAlways ==
    ASSUME SameIdentity, "store" \in Ops, LivesOrdered
    PROVE  Spec => []CheckedFirst
<1>0. ~FileRaces /\ ~Damage
  BY Zenon DEF SameIdentity
<1>1. Init => CheckedFirst
  BY DEF Init, CheckedFirst, Decided, Threads
<1>2. TypeInv /\ FileWhole /\ RenewalFits /\ TimesSound /\ AdoptsLonger /\ Underway
        /\ CheckedFirst /\ [Next]_vars => CheckedFirst'
  <2>1. CASE UNCHANGED vars
    BY <2>1 DEF vars, CheckedFirst, checked
  <2> QED  BY <2>1, CheckedNext
<1> QED  BY <1>0, <1>1, <1>2, TypeAlways, WholeAlways, RenewalFitsAlways, SoundAlways,
            LongerAlways, UnderwayAlways, PTL DEF Spec

\* and if they are not.
LEMMA AttendedAlways ==
    ASSUME SameIdentity, "store" \notin Ops, LivesOrdered
    PROVE  Spec => []CheckedFirst
<1>1. Init => AdoptNoted /\ AttendedFirst
  BY DEF Init, AdoptNoted, AttendedFirst, Decided, Threads
<1>2. TypeInv /\ LockExclusive /\ AdoptNoted /\ [Next]_vars => AdoptNoted'
  <2>1. CASE UNCHANGED vars
    BY <2>1 DEF vars, AdoptNoted
  <2> QED  BY <2>1, NotedNext
<1>3. TypeInv /\ RenewalFits /\ TimesSound /\ Underway /\ AdoptNoted /\ AttendedFirst
        /\ [Next]_vars => AttendedFirst'
  <2>1. CASE UNCHANGED vars
    BY <2>1 DEF vars, AttendedFirst, attended
  <2> QED  BY <2>1, AttendedNext
<1>4. TypeInv /\ AttendedFirst => CheckedFirst
  BY AttendedChecked
<1> QED  BY <1>1, <1>2, <1>3, <1>4, TypeAlways, LockAlways, RenewalFitsAlways, SoundAlways,
            UnderwayAlways, PTL DEF Spec

(***************************************************************************)
(* Unless another identity comes in, a RETRIEVE is refused for want of a   *)
(* TGT only if the source file was consulted less than fileCheckInterval   *)
(* before the request.  If TGTs are STOREd and the file keeps still and    *)
(* whole, a TGT that was good when maintain looked is only replaced by one *)
(* that is.  If none are, whatever the file does, a TGT is given up to a   *)
(* failing reload only when nobody has decided to go by it.                *)
(***************************************************************************)
THEOREM RefusalSafety ==
    ASSUME SameIdentity, LivesOrdered
    PROVE  Spec => []RefusalFollowsFileCheck
<1>1. Init => RefusalsFit
  BY DEF Init, RefusalsFit, Threads
<1>2. TypeInv /\ CheckedFirst /\ RefusalsFit /\ [Next]_vars => RefusalsFit'
  <2>1. CASE UNCHANGED vars
    BY <2>1 DEF vars, RefusalsFit
  <2> QED  BY <2>1, RefusalsNext
<1>3. RefusalsFit => RefusalFollowsFileCheck
  BY DEF RefusalsFit, RefusalFollowsFileCheck
<1>4. CASE "store" \in Ops
  BY <1>1, <1>2, <1>3, <1>4, TypeAlways, CheckedAlways, PTL DEF Spec
<1>5. CASE "store" \notin Ops
  BY <1>1, <1>2, <1>3, <1>5, TypeAlways, AttendedAlways, PTL DEF Spec
<1> QED  BY <1>4, <1>5

-----------------------------------------------------------------------------
(* Duplicates.                                                             *)

\* Tickets come from the file and the KDC: nobody STOREs any, no RETRIEVE
\* names the cache's own principal while another leaves it out, and no service
\* is in a foreign realm, on the way to which libkrb5 collects TGTs.
OnlyCoalesced ==
    /\ Ops \cap {"store", "kinit"} = {}
    /\ Nil \in MatchClients => MatchClients = {Nil}
    /\ \A c \in Clients \cup (MatchClients \ {Nil}), s \in MatchServers \ {Nil} : s.realm = c.realm

\* Who changes the principal a thread has read.
LEMMA SeenSteps ==
    ASSUME TypeInv, Next, NEW q \in Threads
    PROVE  \/ seen'[q] = seen[q]
           \/ Reload(q) \/ Adopt(q)
           \/ q \in Procs /\ (Destroy(q) \/ DestroyInitialize(q) \/ KinitKCM(q) \/ KinitStore(q))
<1> USE DEF TypeInv, TypeOK
<1>1. ASSUME NEW p \in Threads, MaintainStep(p), p # q \/ (~Reload(p) /\ ~Adopt(p))
      PROVE  seen'[q] = seen[q]
  BY <1>1 DEF MaintainStep, Maintain, Reload, Adopt, RenewStart, RenewExchange, RenewInstall, Sweep,
              Evict
<1>2. ASSUME NEW p \in Procs, RequestStep(p),
             \/ p # q
             \/ ~Destroy(p) /\ ~DestroyInitialize(p) /\ ~KinitKCM(p) /\ ~KinitStore(p)
      PROVE  seen'[q] = seen[q]
  <2>1. CASE \/ Destroy(p) \/ DestroyInitialize(p) \/ KinitKCM(p) \/ KinitStore(p)
    BY <1>2, <2>1 DEF Destroy, DestroyInitialize, KinitKCM, KinitStore
  <2>2. CASE ~Destroy(p) /\ ~DestroyInitialize(p) /\ ~KinitKCM(p) /\ ~KinitStore(p)
    BY <1>2, <2>2 DEF RequestStep, Retrieve, Lookup, Lead, Tgs, Land, Enumerate, List, Return,
                      Initialize, Store, Remove
  <2> QED  BY <2>1, <2>2
<1>3. ASSUME NEW p \in Background, LoopStep(p) PROVE seen'[q] = seen[q]
  BY <1>3 DEF LoopStep, Wake, Plan
<1>4. ASSUME Tick \/ ChangeFile PROVE seen'[q] = seen[q]
  BY <1>4 DEF Tick, ChangeFile
<1> QED  BY <1>1, <1>2, <1>3, <1>4 DEF Next

\* Who starts a DESTROY or a kinit.
LEMMA DestroySteps ==
    ASSUME TypeInv, Next, NEW q \in Threads, pc'[q] \in {"destroy", "kinit"}
    PROVE  pc'[q] = pc[q] \/ (q \in Procs /\ (Destroy(q) \/ KinitKCM(q)))
<1> USE DEF TypeInv, TypeOK
<1>1. ASSUME NEW p \in Procs, Land(p), q \in crew(p) PROVE FALSE
  BY <1>1 DEF Land
<1>2. ASSUME MaintainStep(q) PROVE FALSE
  <2>1. pc[q] = "sweep" \/ pc[q] = "evict" => afterMaintain(q) \in {"lookup", "list", "plan"}
    BY AfterMaintain
  <2>2. ~Sweep(q)
    BY <2>1 DEF Sweep, Goto
  <2>3. ~Evict(q)
    BY <2>1 DEF Evict, Goto
  <2> QED  BY <1>2, <2>2, <2>3 DEF MaintainStep, Maintain, Reload, Adopt, RenewStart, RenewExchange,
                                   RenewInstall, Goto, afterCheck
<1>3. ASSUME q \in Procs, RequestStep(q), ~Destroy(q), ~KinitKCM(q) PROVE FALSE
  <2>1. ~Retrieve(q) /\ ~Enumerate(q) /\ ~Return(q) /\ ~List(q) /\ ~Lookup(q) /\ ~Lead(q) /\ ~Tgs(q)
    BY DEF Retrieve, Enumerate, Return, List, Lookup, Lead, Tgs, Landed, Answer, BeginMaintain, Goto
  <2>2. ~Initialize(q) /\ ~Store(q) /\ ~Remove(q)
    BY DEF Initialize, Store, Remove, CanWrite
  <2>3. ~DestroyInitialize(q) /\ ~KinitStore(q)
    BY DEF DestroyInitialize, KinitStore, Goto
  <2>4. ~Land(q)
    BY <1>1, <1>3 DEF crew
  <2> QED  BY <1>3, <2>1, <2>2, <2>3, <2>4 DEF RequestStep
<1>4. ASSUME LoopStep(q) PROVE FALSE
  BY <1>4 DEF LoopStep, Wake, Plan, BeginMaintain, Goto
<1> QED  BY LocalFrame, <1>1, <1>2, <1>3, <1>4 DEF Moves, Kept

\* The cache's principal is a user's, and nobody is in the middle of a kinit.
UsersOnly ==
    /\ princ \in Clients
    /\ \A p \in Threads : /\ pc[p] # "kinit"
                          /\ pc[p] \in {"adopt", "destroy"} => seen[p] \in Clients

\* Every step keeps it so.
LEMMA UsersNext ==
    ASSUME OnlyCoalesced, TypeInv, LockExclusive, FileOwned, UsersOnly, Next
    PROVE  UsersOnly'
<1> USE DEF TypeInv, TypeOK
<1> Procs \subseteq Threads
  BY DEF Threads
<1>0. \A p : ~KinitKCM(p) /\ ~Store(p)
  BY DEF OnlyCoalesced, KinitKCM, Store, CanWrite
<1>1. princ' \in Clients
  <2>1. CASE UNCHANGED princ
    BY <2>1 DEF UsersOnly
  <2>2. ASSUME NEW p \in Threads, Adopt(p) PROVE princ' \in Clients
    BY <2>2 DEF Adopt, UsersOnly
  <2>3. ASSUME NEW p \in Procs, Wipe(p) PROVE princ' \in Clients
    BY <1>0, <2>3 DEF Wipe, Initialize, DestroyInitialize, initialize, UsersOnly
  <2>4. ASSUME NEW p \in Threads, RenewalStep(p) \/ Evict(p) PROVE UNCHANGED princ
    BY <2>4 DEF RenewalStep, RenewStart, RenewExchange, RenewInstall, Evict, cache
  <2>5. ASSUME NEW p \in Procs, Tgs(p) \/ Remove(p) \/ StoreStep(p) PROVE UNCHANGED princ
    BY <2>5 DEF Tgs, Remove, StoreStep, Store, KinitStore
  <2> QED  BY CacheSteps, <2>1, <2>2, <2>3, <2>4, <2>5
<1>2. ASSUME NEW q \in Threads PROVE pc'[q] # "kinit"
  <2>1. ~Destroy(q) \/ pc'[q] = "destroy"
    BY DEF Destroy, Goto
  <2> QED  BY <1>0, <2>1, DestroySteps DEF UsersOnly
<1>3. ASSUME NEW q \in Threads, pc'[q] \in {"adopt", "destroy"} PROVE seen'[q] \in Clients
  <2>1. CASE Reload(q)
    <3>1. pc'[q] # "destroy" /\ newer(file, tgt, now[q]) /\ seen'[q] = file.princ
      BY <1>3, <2>1 DEF Reload, readPrincipal, Goto, afterCheck
    <3> QED  BY <3>1 DEF newer, FileOwned
  <2>2. CASE q \in Procs /\ Destroy(q)
    <3>1. seen'[q] = princ
      BY <2>2 DEF Destroy
    <3> QED  BY <3>1 DEF UsersOnly
  <2>3. CASE ~Reload(q) /\ ~(q \in Procs /\ Destroy(q))
    <3>1. pc[q] = pc'[q]
      BY <1>0, <1>3, <2>3, AdoptFrame, DestroySteps
    <3>2. ~Adopt(q) /\ ~DestroyInitialize(q) /\ ~KinitStore(q)
      BY <1>3, <3>1 DEF Adopt, DestroyInitialize, KinitStore, Goto, afterCheck
    <3>3. seen'[q] = seen[q]
      BY <1>0, <2>3, <3>2, SeenSteps
    <3> QED  BY <1>3, <3>1, <3>3 DEF UsersOnly
  <2> QED  BY <2>1, <2>2, <2>3
<1> QED  BY <1>1, <1>2, <1>3 DEF UsersOnly

\* So it always is.
LEMMA UsersAlways == ASSUME OnlyCoalesced PROVE Spec => []UsersOnly
<1>1. Init => UsersOnly
  BY DEF Init, Open, UsersOnly, cacheFile
<1>2. TypeInv /\ LockExclusive /\ FileOwned /\ UsersOnly /\ [Next]_vars => UsersOnly'
  <2>1. CASE UNCHANGED vars
    BY <2>1 DEF vars, cache, UsersOnly
  <2> QED  BY <2>1, UsersNext
<1> QED  BY <1>1, <1>2, TypeAlways, LockAlways, OwnedAlways, PTL DEF Spec

\* A TGS exchange leaves one ticket, for what was asked, in the cache.
LEMMA TgsAdds ==
    ASSUME OnlyCoalesced, TypeInv, UsersOnly, NEW p \in Procs, Tgs(p)
    PROVE  \/ UNCHANGED creds
           \/ \E c : /\ creds' = creds \cup {c} /\ ~local(c)
                     /\ c.client = templateClient(req[p].client) /\ c.server = req[p].server
<1> USE DEF TypeInv, TypeOK
<1> SUFFICES ASSUME NEW g \in usableTGTs(p), NEW life \in SvcLives,
                    creds' = cc_store_cred(creds, newTicket(g, req[p].server, clock, life))
                                 \cup referrals(g, req[p].server, clock, life)
             PROVE  \E c : /\ creds' = creds \cup {c} /\ ~local(c)
                          /\ c.client = templateClient(req[p].client) /\ c.server = req[p].server
  BY DEF Tgs
<1>1. /\ p \in Threads /\ req[p].server # Nil /\ ~isTGTServer(req[p].server)
      /\ matchKey(req[p]) \in Keys
  BY DEF Tgs, LocalsSet, Threads
<1>2. req[p].client \in MatchClients /\ req[p].server \in MatchServers \ {Nil}
  BY <1>1 DEF matchKey, Keys
<1>3. g.client = templateClient(req[p].client)
  BY DEF usableTGTs, cc_lookup
<1>4. g.client \in Clients \cup (MatchClients \ {Nil})
  BY <1>2, <1>3 DEF templateClient, UsersOnly
<1>5. req[p].server.realm = g.client.realm
  BY <1>2, <1>4 DEF OnlyCoalesced
<1>6. referrals(g, req[p].server, clock, life) = {}
  BY <1>5 DEF referrals
<1> DEFINE c == newTicket(g, req[p].server, clock, life)
<1>7. c.client = g.client /\ c.server = req[p].server
  BY DEF newTicket
<1>8. creds' = creds \cup {c}
  BY <1>6 DEF cc_store_cred
<1>9. ~local(c)
  BY <1>1, <1>7 DEF local, isLocalTGT
<1> HIDE DEF c
<1> QED  BY <1>3, <1>7, <1>8, <1>9

\* With nobody storing, the cache changes in few ways.
LEMMA CoalescedSteps ==
    ASSUME OnlyCoalesced, TypeInv, UsersOnly, Next
    PROVE  \/ creds' \subseteq creds /\ (tgt' = tgt \/ creds' = {})
           \/ \E p \in Threads : Adopt(p)
           \/ \E p \in Threads : /\ RenewInstall(p)
                                  /\ tgt # Nil /\ renewed[p] \in Cred /\ renewed[p] # Nil
                                  /\ install(renewed[p])
           \/ \E p \in Procs : Tgs(p)
<1>1. ASSUME NEW p \in Threads, RenewalStep(p), ~RenewInstall(p) PROVE UNCHANGED <<creds, tgt>>
  BY <1>1, ExchangeEffect DEF RenewalStep
<1>2. ASSUME NEW p \in Threads, RenewInstall(p)
      PROVE  \/ UNCHANGED <<creds, tgt>>
             \/ tgt # Nil /\ renewed[p] \in Cred /\ renewed[p] # Nil /\ install(renewed[p])
  BY <1>2, RenewalEffect
<1>3. ASSUME NEW p \in Threads, Evict(p) PROVE creds' \subseteq creds /\ tgt' = tgt
  BY <1>3 DEF Evict, evicted
<1>4. ASSUME NEW p \in Procs, Remove(p) PROVE creds' \subseteq creds /\ tgt' = tgt
  BY <1>4 DEF Remove, cc_remove_cred
<1>5. ASSUME NEW p \in Procs, Wipe(p) PROVE creds' = {}
  BY <1>5, WipeEffect
<1>6. ASSUME NEW p \in Procs, StoreStep(p) PROVE FALSE
  BY <1>6 DEF StoreStep, Store, KinitStore, CanWrite, OnlyCoalesced, UsersOnly, Threads
<1> QED  BY CacheSteps, <1>1, <1>2, <1>3, <1>4, <1>5, <1>6

\* There is one local TGT in the cache at most, and it is the held one's copy
\* if one is held.
LocalOnce ==
    \A c \in creds : local(c) =>
        /\ \A d \in creds : local(d) => c = d
        /\ tgt # Nil => c = cleared(tgt.cred)

\* Every step keeps it so.
LEMMA LocalOnceNext ==
    ASSUME OnlyCoalesced, TypeInv, UsersOnly, LocalOnce, Next
    PROVE  LocalOnce'
<1> USE DEF LocalOnce
<1>1. CASE creds' \subseteq creds /\ (tgt' = tgt \/ creds' = {})
  BY <1>1
<1>2. ASSUME NEW p \in Threads, Adopt(p) PROVE LocalOnce'
  <2>1. CASE creds' = {}
    BY <2>1
  <2>2. CASE /\ file.creds \in Seq(Cred)
             /\ creds' = loadFrom(file.creds, now[p])
             /\ tgt' # Nil => tgt'.cred = peekTGT(file.creds)
    <3>1. \A c \in creds' : local(c) => c = cleared(peekTGT(file.creds))
      BY <2>2, LoadedTGT DEF TypeInv, TypeOK, local
    <3> QED  BY <2>2, <3>1
  <2> QED  BY <1>2, <2>1, <2>2, AdoptEffect
<1>3. ASSUME tgt # Nil, NEW n \in Cred, install(n) PROVE LocalOnce'
  <2>1. /\ creds' = (creds \ {d \in creds : /\ samePrincipals(tgt.cred, d)
                                            /\ sameTimes(tgt.cred, d)}) \cup {cleared(n)}
        /\ tgt'.cred = n
    BY <1>3, InstallEffect
  <2>2. tgt.cred \in Cred
    BY <1>3 DEF TypeInv, TypeOK, TGTInfo
  <2>3. samePrincipals(tgt.cred, cleared(tgt.cred)) /\ sameTimes(tgt.cred, cleared(tgt.cred))
    BY <2>2, ClearedFields DEF samePrincipals, sameTimes
  <2>4. \A c \in creds' : local(c) => c = cleared(n)
    BY <1>3, <2>1, <2>3
  <2> QED  BY <2>1, <2>4
<1>4. ASSUME NEW p \in Procs, Tgs(p) PROVE LocalOnce'
  <2>1. UNCHANGED tgt
    BY <1>4 DEF Tgs
  <2> QED  BY <1>4, <2>1, TgsAdds
<1> QED  BY CoalescedSteps, <1>1, <1>2, <1>3, <1>4

\* While a leader is at the KDC, the cache has no ticket it could have found.
StillMissing ==
    \A p \in Procs : pc[p] = "tgs" =>
        cc_lookup(creds, templateClient(req[p].client), req[p].server, clock) = {}

\* Only a TGS exchange adds to the cache while others read it.
LEMMA ReaderCache ==
    ASSUME TypeInv, LockExclusive, Next, NEW q \in Threads, pc[q] \in Reading
    PROVE  creds' \subseteq creds \/ \E p \in Procs : Tgs(p)
<1>1. ~canLock
  BY DEF canLock
<1>2. \A p \in Threads : ~Adopt(p)
  BY DEF LockExclusive, Adopt, Reading
<1>3. ASSUME NEW p \in Threads, RenewalStep(p) \/ Evict(p) PROVE creds' \subseteq creds
  BY <1>1, <1>3 DEF RenewalStep, RenewStart, RenewExchange, RenewInstall, Evict, evicted, cache
<1>4. ASSUME NEW p \in Procs, Remove(p) \/ Wipe(p) \/ StoreStep(p) PROVE FALSE
  BY <1>1, <1>4 DEF Remove, Wipe, StoreStep, Initialize, DestroyInitialize, KinitKCM, Store,
                    KinitStore, CanWrite
<1> QED  BY CacheSteps, <1>2, <1>3, <1>4

\* Who goes to the KDC has just missed.
LEMMA TgsSources ==
    ASSUME TypeInv, Next, NEW q \in Procs, pc'[q] = "tgs"
    PROVE  Kept(q) \/ Lead(q)
<1> USE DEF TypeInv, TypeOK
<1> q \in Threads
  BY DEF Threads
<1>1. ASSUME NEW p \in Procs, Land(p), q \in crew(p) PROVE FALSE
  BY <1>1 DEF Land
<1>2. ASSUME MaintainStep(q) PROVE FALSE
  <2>1. pc[q] = "sweep" \/ pc[q] = "evict" => afterMaintain(q) \in {"lookup", "list", "plan"}
    BY AfterMaintain
  <2>2. ~Sweep(q)
    BY <2>1 DEF Sweep, Goto
  <2>3. ~Evict(q)
    BY <2>1 DEF Evict, Goto
  <2> QED  BY <1>2, <2>2, <2>3 DEF MaintainStep, Maintain, Reload, Adopt, RenewStart, RenewExchange,
                                   RenewInstall, Goto, afterCheck
<1>3. ASSUME RequestStep(q), ~Lead(q) PROVE FALSE
  <2>1. ~Retrieve(q) /\ ~Enumerate(q) /\ ~Return(q) /\ ~List(q) /\ ~Lookup(q) /\ ~Tgs(q)
    BY DEF Retrieve, Enumerate, Return, List, Lookup, Tgs, Landed, Answer, BeginMaintain, Goto
  <2>2. ~Initialize(q) /\ ~Store(q) /\ ~Remove(q)
    BY DEF Initialize, Store, Remove, CanWrite
  <2>3. ~Destroy(q) /\ ~DestroyInitialize(q) /\ ~KinitKCM(q) /\ ~KinitStore(q)
    BY DEF Destroy, DestroyInitialize, KinitKCM, KinitStore, Goto
  <2>4. ~Land(q)
    BY <1>1 DEF crew
  <2> QED  BY <1>3, <2>1, <2>2, <2>3, <2>4 DEF RequestStep
<1>4. q \notin Background
  BY ClientAssumption DEF ClientAssumption
<1> QED  BY LocalFrame, <1>1, <1>2, <1>3, <1>4 DEF Moves

\* Tickets that have expired stay so.
LEMMA ExpiredLater ==
    ASSUME TypeInv, Next, NEW c \in Cred, ~expired(c, clock')
    PROVE  ~expired(c, clock)
<1>1. clock \in Nat /\ clock' \in Nat /\ clock <= clock'
  BY ClockSteps DEF Tick, TypeInv, TypeOK
<1> QED  BY <1>1 DEF expired, Cred

\* Requests for the same ticket have the same key.
LEMMA SameKey ==
    ASSUME OnlyCoalesced, TypeInv, NEW p \in Procs, NEW q \in Procs,
           pc[p] = "tgs", pc[q] = "tgs", req[p].server = req[q].server,
           templateClient(req[p].client) = templateClient(req[q].client)
    PROVE  matchKey(req[p]) = matchKey(req[q])
<1>1. matchKey(req[p]) \in Keys /\ matchKey(req[q]) \in Keys
  BY DEF TypeInv, LocalsSet, Threads
<1>2. req[p].client \in MatchClients /\ req[q].client \in MatchClients
  BY <1>1 DEF matchKey, Keys
<1>3. req[p].client = req[q].client
  BY <1>2 DEF OnlyCoalesced, templateClient
<1> QED  BY <1>3 DEF matchKey

\* Every step keeps a leader's miss a miss.
LEMMA MissingNext ==
    ASSUME OnlyCoalesced, TypeInv, LockExclusive, FlightsHaveLeaders, UsersOnly, StillMissing, Next
    PROVE  StillMissing'
<1> USE DEF TypeInv, TypeOK
<1> Procs \subseteq Threads
  BY DEF Threads
<1>0. TypeInv'
  BY TypeNext
<1> SUFFICES ASSUME NEW q \in Procs, pc'[q] = "tgs", NEW c \in creds', ~expired(c, clock'),
                    c.client = templateClient(req[q].client)', c.server = req'[q].server
             PROVE  FALSE
  BY DEF StillMissing, cc_lookup
<1>1. c \in Cred /\ ~expired(c, clock)
  BY <1>0, ExpiredLater
<1>2. CASE Kept(q)
  <2>1. pc[q] = "tgs" /\ req'[q] = req[q] /\ UNCHANGED princ
    BY <1>2, WriteFrame DEF Kept, Reading
  <2>2. c.client = templateClient(req[q].client) /\ c.server = req[q].server
    BY <2>1 DEF templateClient
  <2>3. c \notin creds
    BY <1>1, <2>1, <2>2 DEF StillMissing, cc_lookup
  <2>4. PICK p \in Procs : Tgs(p)
    BY <2>1, <2>3, ReaderCache DEF Reading
  <2>5. c.client = templateClient(req[p].client) /\ c.server = req[p].server
    BY <2>3, <2>4, TgsAdds
  <2>6. pc[p] = "tgs" /\ pc'[p] = "land"
    BY <2>4 DEF Tgs, Landed, Goto
  <2>7. matchKey(req[p]) = matchKey(req[q])
    BY <2>1, <2>2, <2>5, <2>6, SameKey
  <2> QED  BY <2>1, <2>6, <2>7 DEF FlightsHaveLeaders
<1>3. CASE Lead(q)
  <2>1. UNCHANGED <<creds, princ, clock, req>>
    BY <1>3 DEF Lead, cache, world
  <2>2. cc_lookup(creds, templateClient(req[q].client), req[q].server, clock) = {}
    BY <1>3 DEF Lead, Landed, Goto
  <2> QED  BY <1>1, <2>1, <2>2 DEF cc_lookup, templateClient
<1> QED  BY TgsSources, <1>2, <1>3

\* A file holds one entry that is not a local TGT, at most.
FileSingles ==
    file # Nil => \A i, j \in DOMAIN file.creds :
                     ~local(file.creds[i]) /\ ~local(file.creds[j]) => i = j

\* So does what kinit writes.
LEMMA ContentsSingles ==
    ASSUME NEW c \in Clients, NEW t \in Nat, NEW s \in fileContents(c, t)
    PROVE  \A i, j \in DOMAIN s : ~local(s[i]) /\ ~local(s[j]) => i = j
<1>1. c \in Principal
  BY ClientAssumption DEF ClientAssumption
<1>2. \A g \in kinitTGTs(c, t) : local(g)
  BY <1>1, KinitLocal DEF local
<1>3. CASE s = <<>>
  BY <1>3
<1>4. CASE \E g \in kinitTGTs(c, t) : s = <<g>>
  BY <1>2, <1>4
<1>5. CASE \E x, g : local(g) /\ s = <<x, g>>
  BY <1>5
<1> QED  BY <1>2, <1>3, <1>4, <1>5 DEF fileContents

\* So does every file there is.
LEMMA SinglesAlways == Spec => []FileSingles
<1>1. Init => FileSingles
  BY ContentsSingles DEF Init, Open, FileSingles, cacheFile
<1>2. ASSUME TypeInv, FileSingles, Next PROVE FileSingles'
  <2>1. ASSUME NEW c \in Clients, NEW s \in fileContents(c, clock), file' = cacheFile(c, s)
        PROVE  FileSingles'
    BY <1>2, <2>1, ContentsSingles DEF cacheFile, FileSingles, TypeInv, TypeOK
  <2>2. ASSUME file # Nil, NEW n \in 0..Len(file.creds),
               file' = [file EXCEPT !.creds = SubSeq(@, 1, n), !.torn = TRUE]
        PROVE  FileSingles'
    <3>1. file \in File /\ file.creds \in Seq(Cred)
      BY <1>2, <2>2 DEF TypeInv, TypeOK, File
    <3>2. file'.creds = SubSeq(file.creds, 1, n)
      BY <2>2, <3>1 DEF File
    <3>3. \A i \in DOMAIN file'.creds : i \in DOMAIN file.creds /\ file'.creds[i] = file.creds[i]
      BY <3>1, <3>2
    <3> QED  BY <1>2, <2>2, <3>3 DEF FileSingles
  <2>3. ASSUME ChangeFile PROVE FileSingles'
    <3>1. CASE file' = Nil
      BY <3>1 DEF FileSingles
    <3> QED  BY <2>1, <2>2, <2>3, <3>1 DEF ChangeFile
  <2>4. CASE UNCHANGED file
    BY <1>2, <2>4 DEF FileSingles
  <2> QED  BY <1>2, FileSteps, <2>3, <2>4
<1>3. TypeInv /\ FileSingles /\ [Next]_vars => FileSingles'
  BY <1>2 DEF vars, world, FileSingles
<1> QED  BY <1>1, <1>3, TypeAlways, PTL DEF Spec

\* Such a file leaves no duplicates in the cache, valid or not.
LEMMA LoadSingles ==
    ASSUME NEW s \in Seq(Cred), NEW t \in Int,
           \A i, j \in DOMAIN s : ~local(s[i]) /\ ~local(s[j]) => i = j
    PROVE  \A c, d \in loadFrom(s, t) : samePrincipals(c, d) => c = d
<1> SUFFICES ASSUME NEW c \in loadFrom(s, t), NEW d \in loadFrom(s, t), samePrincipals(c, d)
             PROVE  c = d
  OBVIOUS
<1>1. local(c) <=> local(d)
  BY DEF local, samePrincipals
<1>2. CASE local(c)
  BY <1>1, <1>2, LoadedTGT DEF local
<1>3. CASE ~local(c)
  <2>1. \A i \in firstTGT(s) : local(cleared(s[i]))
    <3>1. \A i \in firstTGT(s) : s[i] \in Cred /\ local(s[i])
      BY DEF firstTGT, local
    <3> QED  BY <3>1, ClearedFields DEF local, samePrincipals
  <2>2. (\E i \in DOMAIN s : c = s[i]) /\ (\E j \in DOMAIN s : d = s[j])
    BY <1>1, <1>3, <2>1 DEF loadFrom
  <2> QED  BY <1>1, <1>3, <2>2
<1> QED  BY <1>2, <1>3

\* Every step keeps duplicates out.
LEMMA NoDuplicatesNext ==
    ASSUME OnlyCoalesced, TypeInv, UsersOnly, HeldAreTGTs, FileSingles, LocalOnce, StillMissing,
           NoDuplicateTickets, Next
    PROVE  NoDuplicateTickets'
<1> USE DEF TypeInv, TypeOK
<1>0. creds' \subseteq Cred
  BY TypeNext
<1> SUFFICES ASSUME NEW c \in creds', NEW d \in creds', samePrincipals(c, d),
                    ~expired(c, clock'), ~expired(d, clock')
             PROVE  c = d
  BY DEF NoDuplicateTickets
<1>1. c \in Cred /\ d \in Cred /\ ~expired(c, clock) /\ ~expired(d, clock)
  BY <1>0, ExpiredLater
<1>2. CASE c \in creds /\ d \in creds
  BY <1>1, <1>2 DEF NoDuplicateTickets
<1>3. ASSUME NEW p \in Threads, Adopt(p) PROVE c = d
  <2>1. file \in File /\ file.creds \in Seq(Cred) /\ creds' = loadFrom(file.creds, now[p])
    BY <1>3, AdoptEffect
  <2>2. file # Nil
    BY <2>1, ClientAssumption DEF ClientAssumption
  <2>3. \A i, j \in DOMAIN file.creds : ~local(file.creds[i]) /\ ~local(file.creds[j]) => i = j
    BY <2>2 DEF FileSingles
  <2>4. now[p] \in Int
    OBVIOUS
  <2> QED  BY <2>1, <2>3, <2>4, LoadSingles
<1>4. ASSUME NEW p \in Threads, tgt # Nil, renewed[p] \in Cred, renewed[p] # Nil,
             install(renewed[p])
      PROVE  c = d
  <2>1. creds' = (creds \ {x \in creds : /\ samePrincipals(tgt.cred, x)
                                         /\ sameTimes(tgt.cred, x)}) \cup {cleared(renewed[p])}
    BY <1>4, InstallEffect
  <2>2. tgt.cred \in Cred /\ local(renewed[p])
    BY <1>4 DEF TGTInfo, HeldAreTGTs
  <2>3. samePrincipals(tgt.cred, cleared(tgt.cred)) /\ sameTimes(tgt.cred, cleared(tgt.cred))
    BY <2>2, ClearedFields DEF samePrincipals, sameTimes
  <2>4. local(cleared(renewed[p]))
    BY <1>4, <2>2, ClearedFields DEF local, samePrincipals
  <2>5. \A x \in creds' : local(x) => x = cleared(renewed[p])
    BY <1>4, <2>1, <2>3 DEF LocalOnce
  <2>6. local(c) <=> local(d)
    BY DEF local, samePrincipals
  <2>7. CASE local(c)
    BY <2>5, <2>6, <2>7
  <2>8. CASE ~local(c)
    BY <1>2, <2>1, <2>4, <2>6, <2>8
  <2> QED  BY <2>7, <2>8
<1>5. ASSUME NEW p \in Procs, Tgs(p), ~UNCHANGED creds PROVE c = d
  <2>1. PICK x : /\ creds' = creds \cup {x}
                 /\ x.client = templateClient(req[p].client) /\ x.server = req[p].server
    BY <1>5, TgsAdds
  <2>2. pc[p] = "tgs"
    BY <1>5 DEF Tgs
  <2>3. cc_lookup(creds, templateClient(req[p].client), req[p].server, clock) = {}
    BY <2>2 DEF StillMissing
  <2>4. \A y \in creds : samePrincipals(x, y) => expired(y, clock)
    BY <2>1, <2>3 DEF cc_lookup, samePrincipals
  <2>5. samePrincipals(d, c)
    BY DEF samePrincipals
  <2> QED  BY <1>1, <1>2, <2>1, <2>4, <2>5
<1> QED  BY CoalescedSteps, <1>2, <1>3, <1>4, <1>5

(***************************************************************************)
(* Coalescing keeps the cache free of duplicates: as long as tickets come  *)
(* from the file and the KDC only, no service has two valid tickets in the *)
(* cache, whatever RETRIEVEs, evictions, renewals, reloads and REMOVEs     *)
(* interleave.                                                             *)
(***************************************************************************)
THEOREM DuplicateSafety == ASSUME OnlyCoalesced PROVE Spec => []NoDuplicateTickets
<1>1. Init => LocalOnce /\ StillMissing /\ NoDuplicateTickets
  <2> SUFFICES ASSUME Init PROVE LocalOnce /\ StillMissing /\ NoDuplicateTickets
    OBVIOUS
  <2>1. file.creds \in Seq(Cred) /\ creds = loadFrom(file.creds, clock) /\ clock \in Int
    BY FilesType, PolicyAssumption, ClientAssumption DEF Init, Open, File
  <2>2. \A i, j \in DOMAIN file.creds : ~local(file.creds[i]) /\ ~local(file.creds[j]) => i = j
    BY ContentsSingles DEF Init, Open, cacheFile
  <2>3. NoDuplicateTickets
    BY <2>1, <2>2, LoadSingles DEF NoDuplicateTickets
  <2>4. tgt # Nil => tgt.cred = peekTGT(file.creds)
    BY DEF Init, Open
  <2>5. \A c \in creds : local(c) => c = cleared(peekTGT(file.creds))
    BY <2>1, LoadedTGT DEF local
  <2>6. LocalOnce
    BY <2>4, <2>5 DEF LocalOnce
  <2>7. StillMissing
    BY DEF Init, StillMissing, Threads
  <2> QED  BY <2>3, <2>6, <2>7
<1>2. TypeInv /\ UsersOnly /\ LocalOnce /\ [Next]_vars => LocalOnce'
  <2>1. CASE UNCHANGED vars
    BY <2>1 DEF vars, cache, LocalOnce
  <2> QED  BY <2>1, LocalOnceNext
<1>3. TypeInv /\ LockExclusive /\ FlightsHaveLeaders /\ UsersOnly /\ StillMissing /\ [Next]_vars
        => StillMissing'
  <2>1. CASE UNCHANGED vars
    BY <2>1 DEF vars, cache, world, StillMissing, templateClient
  <2> QED  BY <2>1, MissingNext
<1>4. TypeInv /\ UsersOnly /\ HeldAreTGTs /\ FileSingles /\ LocalOnce /\ StillMissing
        /\ NoDuplicateTickets /\ [Next]_vars => NoDuplicateTickets'
  <2>1. CASE UNCHANGED vars
    BY <2>1 DEF vars, cache, world, NoDuplicateTickets
  <2> QED  BY <2>1, NoDuplicatesNext
<1> QED  BY <1>1, <1>2, <1>3, <1>4, TypeAlways, LockAlways, FlightsSafety, UsersAlways, HeldAlways,
            SinglesAlways, PTL DEF Spec

-----------------------------------------------------------------------------
(* The loop renews in time.                                                *)

\* There is one loop, a TGT's half-life is as long as its longest sleep, and
\* no TGT is stored as if it were a service ticket.
TimelyLoop ==
    /\ Prompt
    /\ \E l : Background = {l}
    /\ \A life \in TGTLives : 2 * MaxSleep <= life
    /\ \A s \in StoreServers : ~isTGTServer(s)

\* It was issued in the past, and if it can be renewed its half-life is not
\* shorter than the loop's longest sleep.
long(c, t) == c.start \in 0..t /\ (renewable(c) => 2 * MaxSleep <= c.end - c.start)

\* What halving leaves on either side.
LEMMA Halves ==
    ASSUME NEW d \in Int, NEW m \in Nat, 2 * m <= d
    PROVE  d \div 2 \in Int /\ m <= d \div 2 /\ d \div 2 + m <= d
<1>1. d \div 2 \in Int /\ 2 * (d \div 2) <= d /\ d < 2 * (d \div 2) + 2
  OBVIOUS
<1> QED  BY <1>1

\* Half of such a TGT's life is left when its renewal falls due.
LEMMA HalfLife ==
    ASSUME NEW c \in Cred, NEW t \in Nat, long(c, t), renewable(c)
    PROVE  /\ renewPoint(c) \in Int
           /\ renewPoint(c) >= c.start + MaxSleep /\ renewPoint(c) + MaxSleep <= c.end
<1>1. MaxSleep \in Nat \ {0} /\ FileCheckInterval \in Nat \ {0}
  BY PolicyAssumption DEF PolicyAssumption
<1>2. c.start \in Nat /\ c.end \in Int /\ 2 * MaxSleep <= c.end - c.start
  BY DEF long, Cred
<1>3. c.start # ZeroTime
  BY <1>1, <1>2 DEF ZeroTime
<1>4. renewPoint(c) = c.start + (c.end - c.start) \div 2
  BY <1>3 DEF renewPoint
<1>5. c.end - c.start \in Int
  BY <1>2
<1>6. /\ (c.end - c.start) \div 2 \in Int
      /\ MaxSleep <= (c.end - c.start) \div 2
      /\ (c.end - c.start) \div 2 + MaxSleep <= c.end - c.start
  BY <1>1, <1>2, <1>5, Halves
<1> QED  BY <1>1, <1>2, <1>4, <1>6

\* The loop never sleeps longer than MaxSleep, and it wakes up no later than
\* the renewal of the TGT it has seen falls due.
LEMMA WakeBound ==
    ASSUME NEW c \in Cred \cup {Nil}, NEW t \in Int, NEW r \in Int
    PROVE  /\ nextWake(c, t, r) <= t + MaxSleep
           /\ c # Nil /\ canRenew(c, t) /\ renewPoint(c) \in Int /\ renewPoint(c) > t
                 => nextWake(c, t, r) <= renewPoint(c)
<1>1. MaxSleep \in Nat \ {0} /\ Second \in Nat \ {0} /\ Second <= MaxSleep
  BY PolicyAssumption DEF PolicyAssumption
<1> DEFINE wanted == IF c # Nil /\ canRenew(c, t)
                     THEN IF renewPoint(c) > t THEN renewPoint(c) ELSE r
                     ELSE t + MaxSleep
           capped == IF wanted > t + MaxSleep THEN t + MaxSleep ELSE wanted
<1>2. nextWake(c, t, r) = IF capped > t THEN capped ELSE t + Second
  BY DEF nextWake
<1>3. wanted \in Int
  <2>1. c # Nil => renewPoint(c) \in Int
    BY DEF renewPoint, Cred
  <2> QED  BY <1>1, <2>1
<1>4. c # Nil /\ canRenew(c, t) /\ renewPoint(c) > t => wanted = renewPoint(c)
  OBVIOUS
<1> HIDE DEF wanted
<1> QED  BY <1>1, <1>2, <1>3, <1>4

\* kinit's TGTs are long.
LEMMA KinitLong ==
    ASSUME TimelyLoop, NEW c \in Principal, NEW t \in Nat, NEW g \in kinitTGTs(c, t)
    PROVE  long(g, t) /\ g.start = t /\ g.end > t
<1>1. PICK life \in TGTLives, rl \in RenewLives, fl \in TGTFlags : g = newTGT(c, t, life, rl, fl)
  BY DEF kinitTGTs
<1>2. life \in Nat \ {0} /\ 2 * MaxSleep <= life
  BY ClientAssumption DEF ClientAssumption, TimelyLoop
<1>3. g.start = t /\ g.end = t + life
  BY <1>1 DEF newTGT
<1>4. MaxSleep \in Nat
  BY PolicyAssumption DEF PolicyAssumption
<1> QED  BY <1>2, <1>3, <1>4 DEF long

\* A renewal that can be renewed again is as long as what it renews.
LEMMA RenewedLong ==
    ASSUME NEW g \in Cred, NEW t \in Nat, long(g, t), kdcRenews(g, t)
    PROVE  long(renewedTGT(g, t), t) /\ renewedTGT(g, t).start = t
<1>0. MaxSleep \in Nat
  BY PolicyAssumption DEF PolicyAssumption
<1>1. g.start \in Nat /\ g.start <= t /\ g.end \in Int /\ g.renewTill \in Int
  BY DEF Cred, long
<1>2. /\ renewedTGT(g, t).start = t
      /\ renewedTGT(g, t).end = min(t + (g.end - g.start), g.renewTill)
      /\ renewedTGT(g, t).renewTill = g.renewTill
      /\ renewedTGT(g, t).flags = g.flags
  BY DEF renewedTGT, Cred
<1>3. ASSUME renewable(renewedTGT(g, t))
      PROVE  /\ renewedTGT(g, t).end = t + (g.end - g.start)
             /\ renewable(g)
  <2>1. Renewable \in g.flags /\ g.renewTill > min(t + (g.end - g.start), g.renewTill)
    BY <1>2, <1>3 DEF renewable
  <2>2. min(t + (g.end - g.start), g.renewTill) = t + (g.end - g.start)
    BY <1>1, <2>1 DEF min
  <2>3. g.renewTill > g.end
    BY <1>1, <2>1, <2>2
  <2> QED  BY <1>2, <2>1, <2>2, <2>3 DEF renewable
<1>4. renewable(g) => 2 * MaxSleep <= g.end - g.start
  BY DEF long
<1> QED  BY <1>0, <1>1, <1>2, <1>3, <1>4 DEF long

\* Whatever a client STOREs as its TGT is long, and new.
LEMMA StorableLong ==
    ASSUME TimelyLoop, TypeInv, NEW d \in Principal, NEW c \in storable(d), local(c)
    PROVE  long(c, clock) /\ c.start = clock
<1>0. clock \in Nat
  BY DEF TypeInv, TypeOK
<1>1. CASE c \in kinitTGTs(d, clock)
  BY <1>0, <1>1, KinitLong
<1>2. ASSUME NEW s \in StoreServers, c.server = s PROVE FALSE
  BY <1>2 DEF local, isLocalTGT, TimelyLoop
<1>3. CASE \E s \in {x \in StoreServers : isConfigPrincipal(x)} : c = configEntry(d, s)
  BY <1>2, <1>3 DEF configEntry, newTGT
<1>4. CASE \E s \in StoreServers, life \in SvcLives :
              c = newTicket(newTGT(d, clock, life, 0, {}), s, clock, life)
  BY <1>2, <1>4 DEF newTicket
<1> QED  BY <1>1, <1>3, <1>4 DEF storable

\* The local TGTs kinit writes are long, and valid when they are written.
LEMMA ContentsLong ==
    ASSUME TimelyLoop, NEW c \in Clients, NEW t \in Nat, NEW s \in fileContents(c, t),
           NEW i \in DOMAIN s, local(s[i])
    PROVE  long(s[i], t) /\ s[i].end > t
<1>1. c \in Principal
  BY ClientAssumption DEF ClientAssumption
<1>2. \A g \in kinitTGTs(c, t) : long(g, t) /\ g.end > t
  BY <1>1, KinitLong
<1>3. CASE s = <<>>
  BY <1>3
<1>4. CASE \E g \in kinitTGTs(c, t) : s = <<g>>
  BY <1>2, <1>4
<1>5. CASE \E g \in kinitTGTs(c, t), v \in StoreServers, life \in SvcLives :
              s = <<newTicket(g, v, t, life), g>>
  <2>1. PICK g \in kinitTGTs(c, t), v \in StoreServers, life \in SvcLives :
              s = <<newTicket(g, v, t, life), g>>
    BY <1>5
  <2>2. ~local(newTicket(g, v, t, life))
    BY DEF newTicket, local, isLocalTGT, TimelyLoop
  <2> QED  BY <1>2, <2>1, <2>2
<1> QED  BY <1>3, <1>4, <1>5 DEF fileContents

\* The file's TGTs, the held one and those a renewal works on are long.
LongLived ==
    /\ file # Nil => \A i \in DOMAIN file.creds :
                        local(file.creds[i]) => long(file.creds[i], clock)
    /\ tgt # Nil => long(tgt.cred, clock)
    /\ \A p \in Threads : /\ started[p] # Nil => long(started[p].cred, clock)
                          /\ renewed[p] # Nil => long(renewed[p], clock)

\* A TGT is new: it starts now, and is long.
new(c) == c.start = clock /\ long(c, clock)

\* What a renewal is about to install is new.
RenewedNow == \A p \in Threads : renewed[p] # Nil => new(renewed[p])

\* How the held TGT and the backoff change: not at all, to no TGT, to a new
\* one, to the source file's, or by a failure being noted.
LEMMA HeldSteps ==
    ASSUME TimelyLoop, TypeInv, RenewedNow, Next
    PROVE  \/ UNCHANGED <<tgt, backoff>>
           \/ /\ tgt' = Nil /\ UNCHANGED clock
              /\ UNCHANGED backoff \/ resetRenewBackoff
           \/ tgt' # Nil /\ new(tgt'.cred) /\ UNCHANGED clock /\ resetRenewBackoff
           \/ \E p \in Threads : Adopt(p) /\ tgt' # Nil
           \/ \E p \in Threads : RenewInstall(p) /\ UNCHANGED tgt /\ renewBackoff' > 0
<1> DEFINE Goal == \/ UNCHANGED <<tgt, backoff>>
                   \/ /\ tgt' = Nil /\ UNCHANGED clock
                      /\ UNCHANGED backoff \/ resetRenewBackoff
                   \/ tgt' # Nil /\ new(tgt'.cred) /\ UNCHANGED clock /\ resetRenewBackoff
                   \/ \E p \in Threads : Adopt(p) /\ tgt' # Nil
                   \/ \E p \in Threads : RenewInstall(p) /\ UNCHANGED tgt /\ renewBackoff' > 0
<1>1. CASE UNCHANGED <<tgt, backoff>>
  BY <1>1
<1>2. ASSUME NEW p \in Threads, Adopt(p) PROVE Goal
  <2>1. CASE tgt' = Nil
    <3>1. UNCHANGED clock /\ (UNCHANGED backoff \/ resetRenewBackoff)
      BY <1>2 DEF Adopt, world
    <3> QED  BY <2>1, <3>1
  <2> QED  BY <1>2, <2>1
<1>3. ASSUME NEW p \in Threads, RenewInstall(p) PROVE Goal
  <2>1. CASE noteRenewFailure(now[p]) /\ UNCHANGED tgt
    <3>1. renewBackoff' = nextBackoff(renewBackoff) /\ renewBackoff \in Nat
      BY <2>1 DEF noteRenewFailure, TypeInv, TypeOK
    <3>2. nextBackoff(renewBackoff) > 0
      BY <3>1, PolicyAssumption DEF nextBackoff, PolicyAssumption
    <3> QED  BY <1>3, <2>1, <3>1, <3>2
  <2>2. CASE renewed[p] # Nil /\ install(renewed[p])
    <3>1. renewed[p] \in Cred /\ new(renewed[p])
      BY <2>2 DEF TypeInv, TypeOK, RenewedNow
    <3>2. tgt' # Nil /\ tgt'.cred = renewed[p]
      BY <2>2, <3>1, InstallEffect
    <3>3. resetRenewBackoff /\ UNCHANGED clock
      BY <1>3, <2>2 DEF install, RenewInstall, world
    <3> QED  BY <3>1, <3>2, <3>3
  <2>3. CASE UNCHANGED <<tgt, backoff>>
    BY <2>3
  <2> QED  BY <1>3, <2>1, <2>2, <2>3 DEF RenewInstall
<1>4. ASSUME NEW p \in Procs, StoreStep(p) PROVE Goal
  <2>0. /\ UNCHANGED clock
        /\ \E d \in Principal : \E c \in storable(d) : store(c)
    <3>1. CASE Store(p)
      BY <3>1, ClientAssumption DEF Store, ClientAssumption, world
    <3>2. CASE KinitStore(p)
      <4>1. seen[p] \in Principal
        BY <3>2 DEF KinitStore, TypeInv, TypeOK, LocalsSet, Threads
      <4> QED  BY <3>2, <4>1 DEF KinitStore, storable, world
    <3> QED  BY <1>4, <3>1, <3>2 DEF StoreStep
  <2>1. PICK d \in Principal : \E c \in storable(d) : store(c)
    BY <2>0
  <2>2. PICK c \in storable(d) : store(c)
    BY <2>1
  <2>3. c \in Cred
    BY StorableType, PolicyAssumption, ClientAssumption DEF TypeInv, TypeOK
  <2>4. CASE local(c) /\ install(c)
    <3>1. new(c)
      BY <2>4, StorableLong DEF new
    <3>2. tgt' # Nil /\ tgt'.cred = c
      BY <2>3, <2>4, InstallEffect
    <3>3. resetRenewBackoff
      BY <2>4 DEF install
    <3> QED  BY <2>0, <3>1, <3>2, <3>3
  <2>5. CASE UNCHANGED <<tgt, backoff>>
    BY <2>5
  <2> QED  BY <2>2, <2>4, <2>5 DEF store, local
<1>5. ASSUME NEW p \in Procs, Wipe(p) PROVE Goal
  BY <1>5 DEF Wipe, Initialize, DestroyInitialize, KinitKCM, initialize, world
<1>6. ASSUME NEW p \in Threads, MaintainStep(p), ~Adopt(p), ~RenewInstall(p)
      PROVE  UNCHANGED <<tgt, backoff>>
  BY <1>6 DEF MaintainStep, Maintain, Reload, RenewStart, RenewExchange, Sweep, Evict
<1>7. ASSUME NEW p \in Procs, RequestStep(p), ~Wipe(p), ~StoreStep(p)
      PROVE  UNCHANGED <<tgt, backoff>>
  BY <1>7 DEF RequestStep, Wipe, StoreStep, Retrieve, Lookup, Lead, Tgs, Land, Enumerate, List,
              Return, Remove, Destroy
<1>8. ASSUME NEW p \in Background, LoopStep(p) PROVE UNCHANGED <<tgt, backoff>>
  BY <1>8 DEF LoopStep, Wake, Plan
<1>9. CASE Tick
  BY <1>1, <1>9 DEF Tick
<1>10. CASE ChangeFile
  BY <1>1, <1>10, Zenon DEF ChangeFile
<1> QED  BY <1>1, <1>2, <1>3, <1>4, <1>5, <1>6, <1>7, <1>8, <1>9, <1>10 DEF Next

\* Time passes while nobody is in an operation, and the loop is asleep.
LEMMA TickSettled ==
    ASSUME TimelyLoop, TypeInv, Tick
    PROVE  /\ clock \in Nat /\ clock' = clock + 1
           /\ \A p \in Threads : pc[p] \in {"idle", "sleep"}
           /\ \A l \in Background : pc[l] = "sleep" /\ clock < wakeAt
           /\ UNCHANGED <<tgt, backoff, renewing, file, wakeAt, pc, now, started, renewed>>
<1>1. settled
  BY DEF Tick, TimelyLoop
<1> QED  BY <1>1 DEF settled, Tick, Threads, TypeInv, TypeOK, renewal

\* Where a round has its decision about the TGT behind it.
Round == {"renew", "exchange", "install", "sweep", "evict", "plan"}

\* A round of the loop, or a request's maintenance, is over in the instant in
\* which it began.
Instant == \A p \in Threads : pc[p] \in InMaintain \cup {"plan", "skipped"} => now[p] = clock

\* Every step keeps it so.
LEMMA InstantNext ==
    ASSUME TimelyLoop, TypeInv, Instant, Next
    PROVE  Instant'
<1> USE DEF TypeInv, TypeOK
<1> SUFFICES ASSUME NEW q \in Threads, pc'[q] \in InMaintain \cup {"plan", "skipped"}
             PROVE  now'[q] = clock'
  BY DEF Instant
<1>1. CASE Tick
  <2>1. pc'[q] \in {"idle", "sleep"}
    BY <1>1, TickSettled
  <2> QED  BY <2>1 DEF InMaintain
<1> SUFFICES ASSUME UNCHANGED clock PROVE now'[q] = clock
  BY <1>1, ClockSteps
<1>2. CASE Kept(q)
  BY <1>2 DEF Kept, Instant
<1>3. ASSUME NEW p \in Procs, Land(p), q \in crew(p) PROVE FALSE
  BY <1>3 DEF Land, InMaintain
<1>4. ASSUME MaintainStep(q) PROVE now'[q] = clock
  BY <1>4 DEF MaintainStep, Maintain, Reload, Adopt, RenewStart, RenewExchange, RenewInstall,
              Sweep, Evict, Instant, InMaintain
<1>5. ASSUME q \in Procs, RequestStep(q) PROVE now'[q] = clock
  <2>1. ASSUME Retrieve(q) \/ Enumerate(q) PROVE now'[q] = clock
    BY <2>1 DEF Retrieve, Enumerate, BeginMaintain, Goto, InMaintain
  <2>2. ~Return(q) /\ ~List(q) /\ ~Lookup(q) /\ ~Lead(q) /\ ~Tgs(q)
    BY DEF Return, List, Lookup, Lead, Tgs, Landed, Answer, Goto, InMaintain
  <2>3. ~Initialize(q) /\ ~Store(q) /\ ~Remove(q)
    BY DEF Initialize, Store, Remove, CanWrite, InMaintain
  <2>4. ~Destroy(q) /\ ~DestroyInitialize(q) /\ ~KinitKCM(q) /\ ~KinitStore(q)
    BY DEF Destroy, DestroyInitialize, KinitKCM, KinitStore, Goto, InMaintain
  <2>5. ~Land(q)
    BY <1>3, <1>5 DEF crew
  <2> QED  BY <1>5, <2>1, <2>2, <2>3, <2>4, <2>5 DEF RequestStep
<1>6. ASSUME LoopStep(q) PROVE now'[q] = clock
  BY <1>6 DEF LoopStep, Wake, Plan, BeginMaintain, Goto, InMaintain
<1> QED  BY LocalFrame, <1>2, <1>3, <1>4, <1>5, <1>6 DEF Moves

\* Time passing leaves a TGT long.
LEMMA LongLater ==
    ASSUME NEW c \in Cred, NEW t \in Nat, long(c, t)
    PROVE  long(c, t + 1)
BY DEF long, Cred

\* The file's TGTs stay long, whoever writes it.
LEMMA FileLongNext ==
    ASSUME TimelyLoop, TypeInv, LongLived, Next, UNCHANGED clock, file' # Nil
    PROVE  \A i \in DOMAIN file'.creds :
              local(file'.creds[i]) => long(file'.creds[i], clock)
<1> DEFINE Goal == \A i \in DOMAIN file'.creds :
                      local(file'.creds[i]) => long(file'.creds[i], clock)
<1>1. ASSUME NEW c \in Clients, NEW s \in fileContents(c, clock), file' = cacheFile(c, s)
      PROVE  Goal
  BY <1>1, ContentsLong DEF cacheFile, TypeInv, TypeOK
<1>2. ASSUME file # Nil, NEW n \in 0..Len(file.creds),
             file' = [file EXCEPT !.creds = SubSeq(@, 1, n), !.torn = TRUE]
      PROVE  Goal
  <2>1. file \in File /\ file.creds \in Seq(Cred)
    BY <1>2 DEF TypeInv, TypeOK, File
  <2>2. file'.creds = SubSeq(file.creds, 1, n)
    BY <1>2, <2>1 DEF File
  <2>3. \A i \in DOMAIN file'.creds : i \in DOMAIN file.creds /\ file'.creds[i] = file.creds[i]
    BY <2>1, <2>2
  <2> QED  BY <1>2, <2>3 DEF LongLived
<1>3. ASSUME UNCHANGED file PROVE Goal
  BY <1>3 DEF LongLived
<1> HIDE DEF Goal
<1>4. ASSUME ChangeFile PROVE Goal
  BY <1>1, <1>2, <1>4, Zenon DEF ChangeFile
<1>5. Goal
  BY FileSteps, <1>3, <1>4
<1> QED  BY <1>5 DEF Goal

\* What a reload brings in is the file's first local TGT.
LEMMA AdoptedTGT ==
    ASSUME TypeInv, NEW p \in Threads, Adopt(p), tgt' # Nil
    PROVE  /\ file \in File /\ file # Nil /\ ~file.torn
           /\ peekTGT(file.creds) # Nil /\ tgt'.cred = peekTGT(file.creds) /\ tgt'.cred \in Cred
           /\ \E i \in DOMAIN file.creds : tgt'.cred = file.creds[i] /\ local(file.creds[i])
           /\ resetRenewBackoff /\ UNCHANGED <<clock, lastFileCheck, renewing, wakeAt>>
           /\ pc' = [pc EXCEPT ![p] = afterCheck(tgt', now[p], ZeroTime, renewing)]
<1>1. /\ file \in File /\ file.creds \in Seq(Cred)
      /\ peekTGT(file.creds) # Nil /\ tgt'.cred = peekTGT(file.creds)
      /\ peekTGT(file.creds) \in Cred
  BY AdoptEffect
<1>2. file # Nil
  BY <1>1, ClientAssumption DEF ClientAssumption
<1>3. \E i \in DOMAIN file.creds : tgt'.cred = file.creds[i] /\ local(file.creds[i])
  BY <1>1, PeekedTGT DEF local
<1>4. ~file.torn /\ resetRenewBackoff /\ Goto(p, afterCheck(tgt', now[p], renewRetryAt', renewing))
  BY <1>1, <1>2 DEF Adopt
<1>5. pc' = [pc EXCEPT ![p] = afterCheck(tgt', now[p], ZeroTime, renewing)]
  BY <1>4 DEF Goto, resetRenewBackoff
<1>6. UNCHANGED <<clock, lastFileCheck, renewing, wakeAt>>
  BY DEF Adopt, world
<1> QED  BY <1>1, <1>2, <1>3, <1>4, <1>5, <1>6

\* A renewal's locals stay long, and what the KDC gives is new.
LEMMA RenewalLongNext ==
    ASSUME TypeInv, RenewalFits, LongLived, RenewedNow, Next, NEW q \in Threads
    PROVE  /\ started'[q] # Nil => long(started'[q].cred, clock)
           /\ renewed'[q] # Nil => new(renewed'[q])
<1> USE DEF TypeInv, TypeOK
<1> DEFINE Goal == /\ started'[q] # Nil => long(started'[q].cred, clock)
                   /\ renewed'[q] # Nil => new(renewed'[q])
<1>1. CASE started'[q] = started[q] /\ renewed'[q] = renewed[q]
  BY <1>1 DEF LongLived, RenewedNow
<1>2. ASSUME NEW p \in Threads, RenewStart(p) \/ RenewExchange(p) PROVE Goal
  <2>1. CASE p # q \/ UNCHANGED <<started, renewed>>
    BY <1>1, <1>2, <2>1, ExchangeEffect
  <2>2. CASE /\ p = q /\ pc[p] = "renew" /\ tgt # Nil
             /\ started' = [started EXCEPT ![p] = tgt] /\ UNCHANGED renewed
    BY <2>2 DEF LongLived, RenewedNow
  <2>3. CASE /\ p = q /\ UNCHANGED started /\ renewed' = [renewed EXCEPT ![p] = Nil]
    BY <2>3 DEF LongLived
  <2>4. CASE /\ p = q /\ started[p] \in TGTInfo /\ started[p] # Nil /\ UNCHANGED started
             /\ kdcRenews(started[p].cred, clock)
             /\ renewed' = [renewed EXCEPT ![p] = renewedTGT(started[p].cred, clock)]
    <3>1. started[p].cred \in Cred /\ long(started[p].cred, clock) /\ clock \in Nat
      BY <2>4 DEF TGTInfo, LongLived
    <3> QED  BY <2>4, <3>1, RenewedLong DEF new
  <2> QED  BY <1>2, <2>1, <2>2, <2>3, <2>4, ExchangeEffect
<1>3. ASSUME NEW p \in Threads, RenewInstall(p) PROVE Goal
  <2>1. /\ started' = [started EXCEPT ![p] = Nil]
        /\ renewed' = [renewed EXCEPT ![p] = Nil]
    BY <1>3, RenewalEffect
  <2> QED  BY <1>1, <2>1
<1>4. ASSUME NEW p \in Threads, Adopt(p) \/ Evict(p) PROVE Goal
  BY <1>1, <1>4 DEF Adopt, Evict, renewal
<1>5. ASSUME NEW p \in Procs, Tgs(p) \/ Remove(p) PROVE Goal
  BY <1>1, <1>5 DEF Tgs, Remove, renewal
<1>6. ASSUME NEW p \in Procs, Wipe(p) \/ StoreStep(p) PROVE Goal
  BY <1>1, <1>6, WipeEffect, StoreEffect
<1> QED  BY CacheSteps, <1>1, <1>2, <1>3, <1>4, <1>5, <1>6 DEF RenewalStep

\* Every step keeps all of them long.
LEMMA LongNext ==
    ASSUME TimelyLoop, TypeInv, RenewalFits, LongLived, RenewedNow, Next
    PROVE  LongLived' /\ RenewedNow'
<1>1. CASE UNCHANGED clock
  <2>1. file' # Nil => \A i \in DOMAIN file'.creds :
                          local(file'.creds[i]) => long(file'.creds[i], clock)
    BY <1>1, FileLongNext
  <2>2. tgt' # Nil => long(tgt'.cred, clock)
    <3>1. CASE UNCHANGED tgt
      BY <3>1 DEF LongLived
    <3>2. ASSUME NEW p \in Threads, Adopt(p), tgt' # Nil PROVE long(tgt'.cred, clock)
      BY <3>2, AdoptedTGT DEF LongLived
    <3> QED  BY HeldSteps, <3>1, <3>2 DEF new
  <2>3. \A q \in Threads : /\ started'[q] # Nil => long(started'[q].cred, clock)
                           /\ renewed'[q] # Nil => new(renewed'[q])
    BY RenewalLongNext
  <2> QED  BY <1>1, <2>1, <2>2, <2>3 DEF LongLived, RenewedNow, new
<1>2. CASE Tick
  <2>1. /\ clock \in Nat /\ clock' = clock + 1
        /\ UNCHANGED <<file, tgt, started, renewed>>
        /\ \A p \in Threads : pc[p] \in {"idle", "sleep"}
    BY <1>2, TickSettled
  <2>2. \A p \in Threads : renewed[p] = Nil
    BY <2>1 DEF RenewalFits
  <2>3. file # Nil => \A i \in DOMAIN file.creds :
                         local(file.creds[i]) => long(file.creds[i], clock + 1)
    <3>1. file # Nil => file.creds \in Seq(Cred)
      BY DEF TypeInv, TypeOK, File
    <3> QED  BY <2>1, <3>1, LongLater DEF LongLived
  <2>4. tgt # Nil => long(tgt.cred, clock + 1)
    BY <2>1, LongLater DEF LongLived, TypeInv, TypeOK, TGTInfo
  <2>5. \A q \in Threads : started[q] # Nil => long(started[q].cred, clock + 1)
    <3>1. \A q \in Threads : started[q] # Nil => started[q].cred \in Cred
      BY DEF TypeInv, TypeOK, TGTInfo
    <3> QED  BY <2>1, <3>1, LongLater DEF LongLived
  <2> QED  BY <2>1, <2>2, <2>3, <2>4, <2>5 DEF LongLived, RenewedNow
<1> QED  BY ClockSteps, <1>1, <1>2

\* Where a renewal is decided on or under way.
Busy == {"renew", "exchange", "install"}

\* A thread gets there by maintain's decisions only.
LEMMA RoundSteps ==
    ASSUME TypeInv, Next, NEW q \in Threads, pc'[q] \in Round
    PROVE  \/ pc[q] \in Round /\ (pc'[q] \in Busy => pc[q] \in Busy)
                              /\ (pc'[q] = "renew" => pc[q] = "renew")
           \/ Maintain(q) \/ Reload(q) \/ Adopt(q)
<1> USE DEF TypeInv, TypeOK, Round, Busy
<1> DEFINE Goal == pc[q] \in Round /\ (pc'[q] \in Busy => pc[q] \in Busy)
                                   /\ (pc'[q] = "renew" => pc[q] = "renew")
<1>1. CASE Kept(q)
  BY <1>1 DEF Kept
<1>2. ASSUME NEW p \in Procs, Land(p), q \in crew(p) PROVE FALSE
  BY <1>2 DEF Land
<1>3. ASSUME RenewalStep(q) PROVE Goal
  BY <1>3 DEF RenewalStep, RenewStart, RenewExchange, RenewInstall, Goto
<1>4. ASSUME Sweep(q) \/ Evict(q) PROVE Goal
  <2>1. afterMaintain(q) \in {"lookup", "list", "plan"}
    BY <1>4, AfterMaintain DEF Sweep, Evict
  <2> QED  BY <1>4, <2>1 DEF Sweep, Evict, Goto
<1>5. ASSUME q \in Procs, RequestStep(q) PROVE FALSE
  <2>1. ~Retrieve(q) /\ ~Enumerate(q) /\ ~Return(q) /\ ~List(q) /\ ~Lookup(q) /\ ~Lead(q) /\ ~Tgs(q)
    BY DEF Retrieve, Enumerate, Return, List, Lookup, Lead, Tgs, Landed, Answer, BeginMaintain, Goto
  <2>2. ~Initialize(q) /\ ~Store(q) /\ ~Remove(q)
    BY DEF Initialize, Store, Remove, CanWrite
  <2>3. ~Destroy(q) /\ ~DestroyInitialize(q) /\ ~KinitKCM(q) /\ ~KinitStore(q)
    BY DEF Destroy, DestroyInitialize, KinitKCM, KinitStore, Goto
  <2>4. ~Land(q)
    BY <1>2, <1>5 DEF crew
  <2> QED  BY <1>5, <2>1, <2>2, <2>3, <2>4 DEF RequestStep
<1>6. ASSUME LoopStep(q) PROVE FALSE
  BY <1>6 DEF LoopStep, Wake, Plan, BeginMaintain, Goto
<1> QED  BY LocalFrame, <1>1, <1>2, <1>3, <1>4, <1>5, <1>6 DEF Moves, MaintainStep, RenewalStep

\* Nobody leaves a renewal except by a step of the renewal.
LEMMA BusyKept ==
    ASSUME TypeInv, Next, NEW q \in Threads, pc[q] \in Busy, ~RenewalStep(q)
    PROVE  pc'[q] = pc[q]
<1> USE DEF Busy
<1>1. ASSUME NEW p \in Procs, Land(p) PROVE q \notin crew(p)
  BY <1>1 DEF Land, crew
<1>2. ~MaintainStep(q)
  BY DEF MaintainStep, RenewalStep, Maintain, Reload, Adopt, Sweep, Evict
<1>3. ~RequestStep(q)
  BY DEF RequestStep, Retrieve, Lookup, Lead, Tgs, Land, Enumerate, List, Return, Initialize,
         Store, Remove, CanWrite, Destroy, DestroyInitialize, KinitKCM, KinitStore
<1>4. ~LoopStep(q)
  BY DEF LoopStep, Wake, Plan
<1> QED  BY LocalFrame, <1>1, <1>2, <1>3, <1>4 DEF Moves, Kept

\* Only the loop sets its timer, when it goes to sleep.
LEMMA WakeSteps ==
    ASSUME Next
    PROVE  UNCHANGED wakeAt \/ \E p \in Background : Plan(p)
<1>1. ASSUME NEW p \in Threads, MaintainStep(p) PROVE UNCHANGED wakeAt
  BY <1>1 DEF MaintainStep, Maintain, Reload, Adopt, RenewStart, RenewExchange, RenewInstall,
              Sweep, Evict
<1>2. ASSUME NEW p \in Procs, RequestStep(p) PROVE UNCHANGED wakeAt
  BY <1>2 DEF RequestStep, Retrieve, Lookup, Lead, Tgs, Land, Enumerate, List, Return,
              Initialize, Store, Remove, Destroy, DestroyInitialize, KinitKCM, KinitStore
<1>3. ASSUME NEW p \in Background, Wake(p) PROVE UNCHANGED wakeAt
  BY <1>3 DEF Wake
<1>4. ASSUME Tick PROVE UNCHANGED wakeAt
  BY <1>4 DEF Tick
<1>5. ASSUME ChangeFile PROVE UNCHANGED wakeAt
  BY <1>5, Zenon DEF ChangeFile
<1> QED  BY <1>1, <1>2, <1>3, <1>4, <1>5 DEF Next, LoopStep

\* It sleeps from then on.
LEMMA SleepSteps ==
    ASSUME TypeInv, Next, NEW l \in Background, pc'[l] = "sleep"
    PROVE  pc[l] = "sleep" \/ Plan(l)
<1> USE DEF TypeInv, TypeOK
<1>0. l \in Threads /\ l \notin Procs
  BY ClientAssumption DEF ClientAssumption, Threads
<1>1. ASSUME NEW p \in Procs, Land(p), l \in crew(p) PROVE FALSE
  BY <1>0, <1>1 DEF crew
<1>2. ASSUME MaintainStep(l) PROVE FALSE
  <2>1. pc[l] = "sweep" \/ pc[l] = "evict" => afterMaintain(l) = "plan"
    BY <1>0, AfterMaintain
  <2>2. ~Sweep(l) /\ ~Evict(l)
    BY <1>0, <2>1 DEF Sweep, Evict, Goto
  <2> QED  BY <1>0, <1>2, <2>2 DEF MaintainStep, Maintain, Reload, Adopt, RenewStart,
                                   RenewExchange, RenewInstall, Goto, afterCheck
<1>3. ~Wake(l)
  BY <1>0 DEF Wake, BeginMaintain, Goto
<1> QED  BY <1>0, LocalFrame, <1>1, <1>2, <1>3 DEF Moves, Kept, LoopStep

\* Only a round that gets no context is noted as one that went without
\* maintenance.
LEMMA SkipSteps ==
    ASSUME Next
    PROVE  \/ UNCHANGED skippedAt
           \/ \E p \in Background : pc' = [pc EXCEPT ![p] = "skipped"] /\ skippedAt' = clock
<1>1. ASSUME NEW p \in Threads, MaintainStep(p) PROVE UNCHANGED skippedAt
  BY <1>1 DEF MaintainStep, Maintain, Reload, Adopt, RenewStart, RenewExchange, RenewInstall,
              Sweep, Evict, world
<1>2. ASSUME NEW p \in Procs, RequestStep(p) PROVE UNCHANGED skippedAt
  BY <1>2 DEF RequestStep, Retrieve, Lookup, Lead, Tgs, Land, Enumerate, List, Return, Initialize,
              Store, Remove, Destroy, DestroyInitialize, KinitKCM, KinitStore, world
<1>3. ASSUME NEW p \in Background, Wake(p)
      PROVE  \/ UNCHANGED skippedAt
             \/ pc' = [pc EXCEPT ![p] = "skipped"] /\ skippedAt' = clock
  BY <1>3 DEF Wake, Goto
<1>4. ASSUME NEW p \in Background, Plan(p) PROVE UNCHANGED skippedAt
  BY <1>4 DEF Plan, world
<1>5. ASSUME Tick PROVE UNCHANGED skippedAt
  BY <1>5 DEF Tick
<1>6. ASSUME ChangeFile PROVE UNCHANGED skippedAt
  BY <1>6, Zenon DEF ChangeFile
<1> QED  BY <1>1, <1>2, <1>3, <1>4, <1>5, <1>6 DEF Next, LoopStep

\* A round that goes without maintenance is over in the instant it is noted.
SkippedNow == \A l \in Background : pc[l] = "skipped" => skippedAt = clock

\* Every step keeps it so.
LEMMA SkippedNext ==
    ASSUME TimelyLoop, TypeInv, SkippedNow, Next
    PROVE  SkippedNow'
<1> USE DEF TypeInv, TypeOK
<1> SUFFICES ASSUME NEW l \in Background, pc'[l] = "skipped" PROVE skippedAt' = clock'
  BY DEF SkippedNow
<1>0. l \in Threads /\ l \notin Procs
  BY ClientAssumption DEF ClientAssumption, Threads
<1>1. UNCHANGED clock
  <2>1. Tick => pc'[l] \in {"idle", "sleep"}
    BY <1>0, TickSettled
  <2> QED  BY <2>1, ClockSteps
<1>2. ASSUME pc[l] # "skipped" PROVE skippedAt' = clock
  <2>1. ASSUME NEW p \in Procs, Land(p), l \in crew(p) PROVE FALSE
    BY <1>0, <2>1 DEF crew
  <2>2. ASSUME MaintainStep(l) PROVE FALSE
    <3>1. pc[l] = "sweep" \/ pc[l] = "evict" => afterMaintain(l) = "plan"
      BY <1>0, AfterMaintain
    <3>2. ~Sweep(l) /\ ~Evict(l)
      BY <1>0, <3>1 DEF Sweep, Evict, Goto
    <3> QED  BY <1>0, <2>2, <3>2 DEF MaintainStep, Maintain, Reload, Adopt, RenewStart,
                                     RenewExchange, RenewInstall, Goto, afterCheck
  <2>3. ~Plan(l)
    BY <1>0 DEF Plan, Goto
  <2>4. ASSUME Wake(l) PROVE skippedAt' = clock
    BY <1>0, <2>4 DEF Wake, BeginMaintain, Goto
  <2> QED  BY <1>0, <1>2, LocalFrame, <2>1, <2>2, <2>3, <2>4 DEF Moves, Kept, LoopStep
<1>3. CASE UNCHANGED skippedAt
  BY <1>1, <1>2, <1>3 DEF SkippedNow
<1> QED  BY <1>1, <1>3, SkipSteps

\* While no failure is being backed off from, a retry is not held back.
NotHeldBack == renewBackoff = 0 => renewRetryAt = ZeroTime

\* The loop's timer is never further away than its longest sleep.
SleepBounded == wakeAt <= clock + MaxSleep

\* Every step keeps both.
LEMMA TimerNext ==
    ASSUME TimelyLoop, TypeInv, RenewedNow, Instant, NotHeldBack, SleepBounded, Next
    PROVE  NotHeldBack' /\ SleepBounded'
<1>0. MaxSleep \in Nat /\ clock \in Nat /\ clock' \in Nat /\ clock <= clock' /\ wakeAt \in Int
  BY PolicyAssumption, ClockSteps DEF PolicyAssumption, Tick, TypeInv, TypeOK
<1>1. NotHeldBack'
  <2>1. CASE UNCHANGED backoff \/ resetRenewBackoff
    BY <2>1 DEF backoff, resetRenewBackoff, NotHeldBack
  <2>2. ASSUME NEW p \in Threads, Adopt(p), tgt' # Nil PROVE NotHeldBack'
    BY <2>1, <2>2, AdoptedTGT
  <2>3. CASE renewBackoff' > 0
    BY <2>3 DEF NotHeldBack
  <2> QED  BY HeldSteps, <2>1, <2>2, <2>3
<1>2. SleepBounded'
  <2>1. CASE UNCHANGED wakeAt
    <3>1. PICK j \in Int : j = clock'
      BY <1>0
    <3>2. MaxSleep \in Int /\ clock \in Int /\ wakeAt \in Int /\ clock <= j
      BY <1>0, <3>1
    <3>3. wakeAt <= clock + MaxSleep
      BY DEF SleepBounded
    <3>4. wakeAt <= j + MaxSleep
      BY <3>2, <3>3
    <3> QED  BY <2>1, <3>1, <3>4 DEF SleepBounded
  <2>2. ASSUME NEW p \in Background, Plan(p) PROVE SleepBounded'
    <3>1. now[p] = clock /\ UNCHANGED clock
      BY <2>2 DEF Plan, Instant, Threads, world
    <3> DEFINE c == IF tgt = Nil THEN Nil ELSE tgt.cred
    <3>2. wakeAt' = nextWake(c, clock, renewRetryAt)
      BY <2>2, <3>1 DEF Plan
    <3>3. c \in Cred \cup {Nil} /\ renewRetryAt \in Int
      BY DEF TypeInv, TypeOK, TGTInfo
    <3> HIDE DEF c
    <3>4. nextWake(c, clock, renewRetryAt) <= clock + MaxSleep
      BY <1>0, <3>3, WakeBound
    <3> QED  BY <3>1, <3>2, <3>4 DEF SleepBounded
  <2> QED  BY <2>1, <2>2, WakeSteps
<1> QED  BY <1>1, <1>2

\* Whoever adopts the file's TGT or renews the held one does so in the instant
\* the file was consulted, or not long after.
ConsultedLately ==
    \A p \in Threads : pc[p] \in Busy \cup {"adopt"} => ~fileCheckDue(clock, lastFileCheck)

\* Every step keeps it so.
LEMMA ConsultedNext ==
    ASSUME TimelyLoop, TypeInv, LockExclusive, Instant, ConsultedLately, Next
    PROVE  ConsultedLately'
<1> USE DEF TypeInv, TypeOK
<1> SUFFICES ASSUME NEW q \in Threads, pc'[q] \in Busy \cup {"adopt"}
             PROVE  ~fileCheckDue(clock', lastFileCheck')
  BY DEF ConsultedLately
<1>1. ~Tick
  <2>1. Tick => pc'[q] \in {"idle", "sleep"}
    BY TickSettled
  <2> QED  BY <2>1 DEF Busy
<1>2. UNCHANGED clock /\ clock \in Nat
  BY <1>1, ClockSteps
<1> SUFFICES ~fileCheckDue(clock, lastFileCheck')
  BY <1>2
<1>3. CASE ~fileCheckDue(clock, lastFileCheck)
  BY <1>2, <1>3, CheckKept
<1>4. CASE pc[q] \in Busy \cup {"adopt"}
  BY <1>3, <1>4 DEF ConsultedLately
<1>5. ASSUME Maintain(q) PROVE ~fileCheckDue(clock, lastFileCheck)
  <2>1. now[q] = clock
    BY <1>5 DEF Maintain, Instant, InMaintain
  <2>2. /\ ~(tgtNeedsAttention(tgt, clock) /\ fileCheckDue(clock, lastFileCheck))
        /\ renewWanted(tgt, clock, renewRetryAt, renewing)
    BY <1>5, <2>1 DEF Maintain, Goto, afterCheck, Busy
  <2> QED  BY <2>2 DEF renewWanted, tgtNeedsAttention
<1>6. ASSUME Reload(q) PROVE ~fileCheckDue(clock, lastFileCheck')
  <2>1. now[q] = clock
    BY <1>6 DEF Reload, Instant, InMaintain
  <2>2. CASE tgtNeedsAttention(tgt, clock) /\ fileCheckDue(clock, lastFileCheck)
    <3>1. lastFileCheck' = clock
      BY <1>6, <2>1, <2>2 DEF Reload
    <3> QED  BY <1>2, <3>1, PolicyAssumption DEF fileCheckDue, PolicyAssumption
  <2>3. CASE ~(tgtNeedsAttention(tgt, clock) /\ fileCheckDue(clock, lastFileCheck))
    <3>1. renewWanted(tgt, clock, renewRetryAt, renewing)
      BY <1>6, <2>1, <2>3 DEF Reload, Goto, afterCheck, Busy
    <3> QED  BY <1>3, <2>3, <3>1 DEF renewWanted, tgtNeedsAttention
  <2> QED  BY <2>2, <2>3
<1>7. CASE Adopt(q)
  BY <1>4, <1>7 DEF Adopt
<1>8. CASE pc'[q] = "adopt"
  BY <1>4, <1>6, <1>8, AdoptFrame
<1>9. CASE pc'[q] \in Busy
  <2>1. pc'[q] \in Round
    BY <1>9 DEF Busy, Round
  <2> QED  BY <1>3, <1>4, <1>5, <1>6, <1>7, <1>9, <2>1, RoundSteps
<1> QED  BY <1>8, <1>9

\* A reload that goes on to adopt the file's TGT meets no renewal.
AdoptsAlone == \A p, q \in Threads : pc[p] = "adopt" => pc[q] \notin Busy

\* Every step keeps it so.
LEMMA AloneNext ==
    ASSUME TypeInv, LockExclusive, Instant, ConsultedLately, AdoptsAlone, Next
    PROVE  AdoptsAlone'
<1> USE DEF TypeInv, TypeOK
<1> SUFFICES ASSUME NEW p \in Threads, NEW q \in Threads, pc'[p] = "adopt", pc'[q] \in Busy
             PROVE  FALSE
  BY DEF AdoptsAlone
<1>1. pc'[q] \in Round
  BY DEF Busy, Round
<1>2. ASSUME Reload(p) PROVE FALSE
  <2>1. now[p] = clock
    BY <1>2 DEF Reload, Instant, InMaintain
  <2>2. fileCheckDue(clock, lastFileCheck) /\ pc' = [pc EXCEPT ![p] = "adopt"]
    BY <1>2, <2>1 DEF Reload, Goto, afterCheck
  <2>3. pc[q] \in Busy
    BY <2>2 DEF Busy
  <2> QED  BY <2>2, <2>3 DEF ConsultedLately
<1>3. ASSUME pc[p] = "adopt" PROVE FALSE
  <2>1. ~Maintain(q) /\ ~Reload(q)
    BY <1>3 DEF Maintain, Reload, canRLock, canLock
  <2>2. ~Adopt(q)
    BY <1>3 DEF Adopt, LockExclusive, Goto, afterCheck, Busy
  <2>3. pc[q] \in Busy
    BY <1>1, <2>1, <2>2, RoundSteps
  <2> QED  BY <1>3, <2>3 DEF AdoptsAlone
<1> QED  BY AdoptFrame, <1>2, <1>3

\* The TGT it is about to adopt is valid, also when the file was written anew
\* in the meantime.
AdoptsValid ==
    \A p \in Threads : pc[p] = "adopt" =>
        (file # Nil /\ ~file.torn /\ peekTGT(file.creds) # Nil
            => peekTGT(file.creds).end > clock)

\* Every step keeps it so.
LEMMA ValidNext ==
    ASSUME TimelyLoop, TypeInv, LockExclusive, Instant, AdoptsValid, Next
    PROVE  AdoptsValid'
<1> USE DEF TypeInv, TypeOK
<1> SUFFICES ASSUME NEW q \in Threads, pc'[q] = "adopt",
                    file' # Nil, ~file'.torn, peekTGT(file'.creds) # Nil
             PROVE  peekTGT(file'.creds).end > clock'
  BY DEF AdoptsValid
<1>1. ~Tick
  <2>1. Tick => pc'[q] \in {"idle", "sleep"}
    BY TickSettled
  <2> QED  BY <2>1
<1>2. UNCHANGED clock /\ clock \in Nat
  BY <1>1, ClockSteps
<1>3. CASE Reload(q)
  <2>1. now[q] = clock /\ UNCHANGED file
    BY <1>3 DEF Reload, Instant, InMaintain, world
  <2>2. newer(file, tgt, clock)
    BY <1>3, <2>1 DEF Reload, Goto, afterCheck
  <2>3. peekTGT(file.creds) \in Cred
    BY <2>1, PeekType DEF File
  <2> QED  BY <1>2, <2>1, <2>2, <2>3 DEF newer, expired, Cred
<1>4. CASE pc[q] = "adopt" /\ UNCHANGED file
  BY <1>2, <1>4 DEF AdoptsValid
<1>5. ASSUME ChangeFile PROVE peekTGT(file'.creds).end > clock
  <2>1. ASSUME NEW c \in Clients, NEW s \in fileContents(c, clock), file' = cacheFile(c, s)
        PROVE  peekTGT(file'.creds).end > clock
    <3>1. file'.creds = s /\ s \in Seq(Cred)
      BY <1>2, <2>1, FilesType, PolicyAssumption, ClientAssumption DEF cacheFile, File
    <3>2. \E i \in DOMAIN s : peekTGT(s) = s[i] /\ local(s[i])
      BY <3>1, PeekedTGT DEF local
    <3> QED  BY <1>2, <3>1, <3>2, ContentsLong
  <2>2. ASSUME file # Nil, NEW n \in 0..Len(file.creds),
               file' = [file EXCEPT !.creds = SubSeq(@, 1, n), !.torn = TRUE]
        PROVE  FALSE
    <3>1. file'.torn = TRUE
      BY <2>2 DEF File
    <3> QED  BY <3>1
  <2> QED  BY <1>5, <2>1, <2>2, Zenon DEF ChangeFile
<1> QED  BY AdoptFrame, FileSteps, <1>2, <1>3, <1>4, <1>5

\* Somebody is renewing the held TGT, or is about to and nobody keeps them.
Attended ==
    \/ \E q \in Threads : pc[q] \in {"exchange", "install"} /\ tgt.ptr = started[q].ptr
    \/ ~renewing /\ \E q \in Threads : pc[q] = "renew"

\* The held TGT can be renewed, and no renewal of it has failed.
Renewing == tgt # Nil /\ renewable(tgt.cred) /\ renewBackoff = 0

\* When such a TGT is due, every round of the loop that has come to its
\* decision leaves somebody to renew it, and so does whoever is renewing.
DueAttended ==
    (renewing \/ \E l \in Background : pc[l] \in Round)
        => (Renewing /\ renewDue(tgt.cred, clock) => Attended)

\* A round that went without maintenance was the last before the TGT's end.
SkippedLast == skippedAt + Second >= tgt.cred.end

\* The loop wakes up before the end of such a TGT, unless somebody renews it.
WakesInTime ==
    (\A l \in Background : pc[l] = "sleep")
        => (Renewing /\ ~Attended => wakeAt < tgt.cred.end \/ SkippedLast)

\* A renewal under way lasts until it installs its result.
LEMMA AttendedKept ==
    ASSUME TypeInv, Next, tgt # Nil, UNCHANGED tgt, Attended,
           \A p \in Threads : ~RenewInstall(p)
    PROVE  Attended'
<1> USE DEF TypeInv, TypeOK
<1>1. ASSUME NEW p \in Threads, RenewStart(p), ~renewing PROVE Attended'
  <2>1. pc'[p] = "exchange" /\ started'[p] = tgt
    BY <1>1 DEF RenewStart, mayRenew, Goto
  <2> QED  BY <2>1 DEF Attended
<1>2. CASE \E q \in Threads : pc[q] \in {"exchange", "install"} /\ tgt.ptr = started[q].ptr
  <2>1. PICK q \in Threads : pc[q] \in {"exchange", "install"} /\ tgt.ptr = started[q].ptr
    BY <1>2
  <2>2. pc'[q] \in {"exchange", "install"}
    <3>1. CASE RenewalStep(q)
      BY <2>1, <3>1 DEF RenewalStep, RenewStart, RenewExchange, Goto
    <3>2. CASE ~RenewalStep(q)
      BY <2>1, <3>2, BusyKept DEF Busy
    <3> QED  BY <3>1, <3>2
  <2>3. started'[q] = started[q]
    <3>1. ASSUME NEW p \in Threads, RenewStart(p) PROVE started'[q] = started[q]
      BY <2>1, <3>1 DEF RenewStart
    <3>2. ASSUME NEW p \in Threads, RenewExchange(p) PROVE started'[q] = started[q]
      BY <3>2 DEF RenewExchange
    <3>3. ASSUME NEW p \in Threads, Adopt(p) \/ Evict(p) PROVE UNCHANGED started
      BY <3>3 DEF Adopt, Evict, renewal
    <3>4. ASSUME NEW p \in Procs, Tgs(p) \/ Remove(p) PROVE UNCHANGED started
      BY <3>4 DEF Tgs, Remove, renewal
    <3>5. ASSUME NEW p \in Procs, Wipe(p) \/ StoreStep(p) PROVE UNCHANGED started
      BY <3>5, WipeEffect, StoreEffect
    <3> QED  BY CacheSteps, <3>1, <3>2, <3>3, <3>4, <3>5 DEF RenewalStep
  <2> QED  BY <2>1, <2>2, <2>3 DEF Attended
<1>3. ASSUME ~renewing, NEW q \in Threads, pc[q] = "renew",
             \A p \in Threads : ~RenewStart(p)
      PROVE  Attended'
  <2>1. pc'[q] = "renew"
    BY <1>3, BusyKept DEF RenewalStep, RenewExchange, Busy
  <2>2. UNCHANGED renewing
    <3>1. ASSUME NEW p \in Threads, RenewalStep(p) PROVE UNCHANGED renewing
      BY <1>3, <3>1 DEF RenewalStep, RenewExchange
    <3> QED  BY StepKinds, <3>1, FlightStepShape DEF Quiet, Still
  <2> QED  BY <1>3, <2>1, <2>2 DEF Attended
<1> QED  BY <1>1, <1>2, <1>3 DEF Attended

\* A renewal that is dropped because its TGT was replaced attended to nothing.
LEMMA DroppedUnattended ==
    ASSUME TypeInv, RenewalsNeverOverlap, NEW p \in Threads, RenewInstall(p), UNCHANGED backoff,
           NotHeldBack, tgt # Nil, renewBackoff = 0, UNCHANGED tgt
    PROVE  renewing /\ ~Attended
<1> USE DEF TypeInv, TypeOK
<1>1. pc[p] = "install" /\ p \in exchanging
  BY DEF RenewInstall, exchanging
<1>2. renewing
  BY <1>1 DEF RenewalsNeverOverlap
<1>3. tgt.ptr # started[p].ptr
  <2>1. ~noteRenewFailure(now[p])
    <3>1. nextBackoff(renewBackoff) = MinBackoff /\ MinBackoff # 0
      BY PolicyAssumption DEF nextBackoff, PolicyAssumption
    <3> QED  BY <3>1 DEF noteRenewFailure, backoff
  <2>2. ASSUME renewed[p] # Nil, install(renewed[p]) PROVE FALSE
    <3>1. renewed[p] \in Cred
      BY <2>2
    <3> QED  BY <2>2, <3>1, InstallEffect
  <2> QED  BY <2>1, <2>2 DEF RenewInstall, replaced
<1>4. \A q \in Threads : pc[q] \in {"exchange", "install"} => q = p
  BY <1>1 DEF RenewalsNeverOverlap, exchanging
<1> QED  BY <1>2, <1>3, <1>4 DEF Attended

\* A new TGT is not due, not expired, and outlasts the loop's longest sleep.
LEMMA NewTGT ==
    ASSUME NEW c \in Cred, clock \in Nat, new(c), renewable(c)
    PROVE  ~renewDue(c, clock) /\ c.end > clock + MaxSleep
<1>1. /\ c.start = clock /\ renewPoint(c) \in Int /\ c.end \in Int
      /\ renewPoint(c) >= c.start + MaxSleep /\ renewPoint(c) + MaxSleep <= c.end
  BY HalfLife DEF new, Cred
<1>2. MaxSleep \in Nat \ {0}
  BY PolicyAssumption DEF PolicyAssumption
<1> QED  BY <1>1, <1>2 DEF renewDue

\* A valid TGT that is not due outlasts it, too.
LEMMA NotDueTGT ==
    ASSUME NEW c \in Cred, clock \in Nat, long(c, clock), canRenew(c, clock), ~renewDue(c, clock)
    PROVE  renewPoint(c) \in Int /\ renewPoint(c) > clock /\ c.end > clock + MaxSleep
           /\ c.end > renewPoint(c)
<1>1. /\ renewPoint(c) \in Int /\ c.end \in Int /\ c.start \in Int
      /\ renewPoint(c) >= c.start + MaxSleep /\ renewPoint(c) + MaxSleep <= c.end
  BY HalfLife DEF canRenew, Cred
<1>2. MaxSleep \in Nat \ {0}
  BY PolicyAssumption DEF PolicyAssumption
<1>3. ~(clock >= renewPoint(c))
  BY DEF renewDue
<1> QED  BY <1>1, <1>2, <1>3

\* With a TGT that is due and a retry that is not held back, the loop sleeps
\* for a Second only.
LEMMA DueWake ==
    ASSUME NEW c \in Cred, c # Nil, clock \in Nat, canRenew(c, clock), renewDue(c, clock)
    PROVE  nextWake(c, clock, ZeroTime) = clock + Second
<1>1. /\ FileCheckInterval \in Nat \ {0} /\ MaxSleep \in Nat \ {0} /\ Second \in Nat \ {0}
  BY PolicyAssumption DEF PolicyAssumption
<1>2. renewPoint(c) \in Int
  BY DEF renewPoint, Cred
<1>3. ~(renewPoint(c) > clock)
  BY <1>2 DEF renewDue
<1>4. ZeroTime \in Int /\ ZeroTime < clock
  BY <1>1 DEF ZeroTime
<1>5. ~(ZeroTime > clock + MaxSleep) /\ ~(ZeroTime > clock)
  BY <1>1, <1>4
<1> QED  BY <1>3, <1>5 DEF nextWake

\* All that the argument rests on.
TimerInv ==
    /\ LongLived /\ RenewedNow /\ Instant /\ SkippedNow
    /\ NotHeldBack /\ SleepBounded
    /\ ConsultedLately /\ AdoptsAlone /\ AdoptsValid

\* A step that leaves the held TGT and the clock alone.
LEMMA SameTGTNext ==
    ASSUME TimelyLoop, TypeInv, RenewalsNeverOverlap, TimerInv, DueAttended, WakesInTime,
           RenewedInTime, Next, UNCHANGED <<tgt, backoff, clock>>
    PROVE  DueAttended' /\ WakesInTime' /\ RenewedInTime'
<1> USE DEF TypeInv, TypeOK
<1>1. UNCHANGED renewBackoff
  BY DEF backoff
<1>2. RenewedInTime'
  <2>1. CASE UNCHANGED skippedAt
    BY <1>1, <2>1 DEF RenewedInTime
  <2>2. CASE skippedAt' = clock
    <3>1. tgt # Nil /\ expired(tgt.cred, clock) => clock + Second >= tgt.cred.end
      <4>1. Second \in Nat /\ clock \in Nat /\ (tgt # Nil => tgt.cred.end \in Int)
        BY PolicyAssumption DEF PolicyAssumption, TGTInfo, Cred
      <4> QED  BY <4>1 DEF expired
    <3> QED  BY <1>1, <2>2, <3>1 DEF RenewedInTime
  <2> QED  BY <2>1, <2>2, SkipSteps
<1>3. ASSUME Renewing, Attended PROVE Attended'
  BY <1>3, AttendedKept, DroppedUnattended DEF Renewing, TimerInv
<1>4. DueAttended'
  <2> SUFFICES ASSUME renewing' \/ \E l \in Background : pc'[l] \in Round,
                      Renewing, renewDue(tgt.cred, clock)
               PROVE  Attended'
    BY <1>1 DEF DueAttended, Renewing
  <2>1. CASE renewing \/ \E l \in Background : pc[l] \in Round
    BY <1>3, <2>1 DEF DueAttended
  <2>2. CASE ~renewing /\ \A l \in Background : pc[l] \notin Round
    <3>1. ASSUME NEW p \in Threads, RenewStart(p) PROVE Attended'
      <4>1. pc[p] = "renew" /\ ~RenewInstall(p)
        BY <3>1 DEF RenewStart, RenewInstall
      <4> QED  BY <1>3, <2>2, <4>1 DEF Attended
    <3>2. ASSUME renewing' PROVE Attended'
      <4>1. ~UNCHANGED renewing
        BY <2>2, <3>2
      <4>2. ASSUME NEW p \in Threads, RenewExchange(p) \/ RenewInstall(p) PROVE UNCHANGED renewing
        <5>1. p \in exchanging
          BY <4>2 DEF RenewExchange, RenewInstall, exchanging
        <5> QED  BY <2>2, <5>1 DEF RenewalsNeverOverlap
      <4> QED  BY StepKinds, FlightStepShape, <3>1, <4>1, <4>2 DEF Quiet, Still, RenewalStep
    <3>3. ASSUME ~renewing', NEW l \in Background, pc'[l] \in Round PROVE Attended'
      <4>0. l \in Threads /\ pc[l] \notin Round
        BY <2>2 DEF Threads
      <4>1. Maintain(l) \/ Reload(l) \/ Adopt(l)
        BY <3>3, <4>0, RoundSteps
      <4>2. ~Adopt(l)
        <5>1. Adopt(l) => tgt' # Nil
          BY DEF Renewing
        <5>2. Adopt(l) /\ tgt # Nil /\ tgt' # Nil => tgt'.ptr # tgt.ptr
          BY <4>0, AdoptEffect
        <5> QED  BY <5>1, <5>2 DEF Renewing
      <4>3. now[l] = clock
        BY <4>0, <4>1, <4>2 DEF Maintain, Reload, TimerInv, Instant, InMaintain
      <4>4. renewWanted(tgt, clock, renewRetryAt, renewing)
        <5>1. renewRetryAt = ZeroTime
          BY DEF Renewing, TimerInv, NotHeldBack
        <5>2. clock >= renewRetryAt
          BY <5>1, PolicyAssumption DEF ZeroTime, PolicyAssumption
        <5> QED  BY <2>2, <5>2 DEF renewWanted, Renewing
      <4>5. pc'[l] = "renew"
        BY <3>3, <4>0, <4>1, <4>2, <4>3, <4>4 DEF Maintain, Reload, Goto, afterCheck, Round
      <4> QED  BY <3>3, <4>0, <4>5 DEF Attended
    <3> QED  BY <3>2, <3>3
  <2> QED  BY <2>1, <2>2
<1>5. WakesInTime'
  <2> SUFFICES ASSUME \A l \in Background : pc'[l] = "sleep", Renewing, ~Attended'
               PROVE  wakeAt' < tgt.cred.end \/ SkippedLast'
    BY <1>1 DEF WakesInTime, Renewing
  <2>0. ~Attended
    BY <1>3
  <2>1. PICK l \in Background : Background = {l}
    BY DEF TimelyLoop
  <2>2. l \in Threads /\ l \notin Procs
    BY ClientAssumption DEF ClientAssumption, Threads
  <2>s. UNCHANGED skippedAt
    <3>1. ASSUME NEW p \in Background, pc' = [pc EXCEPT ![p] = "skipped"] PROVE FALSE
      <4>1. p \in Threads
        BY DEF Threads
      <4>2. pc'[p] = "skipped"
        BY <3>1, <4>1
      <4> QED  BY <4>2
    <3> QED  BY <3>1, SkipSteps
  <2>k. CASE SkippedLast
    BY <2>s, <2>k DEF SkippedLast
  <2>3. CASE Plan(l) /\ ~SkippedLast
    <3>1. pc[l] \in {"plan", "skipped"} /\ now[l] = clock
      BY <2>2, <2>3 DEF Plan, TimerInv, Instant
    <3>3. tgt.cred \in Cred /\ tgt.cred.end \in Int /\ clock \in Nat /\ long(tgt.cred, clock)
      BY DEF Renewing, TimerInv, LongLived, TGTInfo, Cred
    <3>4. canRenew(tgt.cred, clock)
      BY <2>3, <3>3 DEF Renewing, RenewedInTime, TimelyLoop, canRenew, SkippedLast
    <3>6. wakeAt' = nextWake(tgt.cred, clock, renewRetryAt) /\ tgt.cred # Nil
      BY <2>3, <3>1, <3>3, ClientAssumption DEF Plan, Renewing, ClientAssumption
    <3>8. nextWake(tgt.cred, clock, renewRetryAt) \in Int
      BY <3>3, WakeType, PolicyAssumption
    <3>9. CASE ~renewDue(tgt.cred, clock)
      <4>1. /\ renewPoint(tgt.cred) \in Int /\ renewPoint(tgt.cred) > clock
            /\ tgt.cred.end > renewPoint(tgt.cred)
        BY <3>3, <3>4, <3>9, NotDueTGT
      <4>2. nextWake(tgt.cred, clock, renewRetryAt) <= renewPoint(tgt.cred)
        BY <3>3, <3>4, <3>6, <4>1, WakeBound
      <4> QED  BY <3>3, <3>6, <3>8, <4>1, <4>2
    <3>10. CASE renewDue(tgt.cred, clock)
      <4>1. pc[l] = "skipped"
        BY <2>0, <3>1, <3>10 DEF DueAttended, Round
      <4>2. skippedAt = clock
        BY <4>1 DEF TimerInv, SkippedNow
      <4>3. renewRetryAt = ZeroTime
        BY DEF Renewing, TimerInv, NotHeldBack
      <4>4. wakeAt' = clock + Second
        BY <3>3, <3>4, <3>6, <3>10, <4>3, DueWake
      <4>5. clock + Second \in Int
        BY <3>3, PolicyAssumption DEF PolicyAssumption
      <4>6. clock + Second < tgt.cred.end \/ clock + Second >= tgt.cred.end
        BY <3>3, <4>5
      <4> QED  BY <2>s, <4>2, <4>4, <4>6 DEF SkippedLast
    <3> QED  BY <3>9, <3>10
  <2>4. CASE ~Plan(l) /\ ~SkippedLast
    <3>1. pc[l] = "sleep" /\ UNCHANGED wakeAt
      BY <2>1, <2>4, SleepSteps, WakeSteps
    <3> QED  BY <2>0, <2>1, <2>4, <3>1 DEF WakesInTime
  <2> QED  BY <2>k, <2>3, <2>4
<1> QED  BY <1>2, <1>4, <1>5

\* A step that brings in a new TGT.
LEMMA NewTGTNext ==
    ASSUME TimelyLoop, TypeInv', SleepBounded', UNCHANGED clock, tgt' # Nil, new(tgt'.cred)
    PROVE  DueAttended' /\ WakesInTime' /\ RenewedInTime'
<1>1. /\ clock \in Nat /\ tgt'.cred \in Cred /\ tgt'.cred.end \in Int
      /\ wakeAt' \in Int /\ wakeAt' <= clock + MaxSleep /\ MaxSleep \in Nat
  BY PolicyAssumption DEF TypeInv, TypeOK, TGTInfo, Cred, SleepBounded, PolicyAssumption
<1>2. renewable(tgt'.cred) => ~renewDue(tgt'.cred, clock) /\ tgt'.cred.end > clock + MaxSleep
  BY <1>1, NewTGT
<1>3. DueAttended'
  BY <1>2 DEF DueAttended, Renewing
<1>4. WakesInTime'
  BY <1>1, <1>2 DEF WakesInTime, Renewing
<1>5. RenewedInTime'
  BY <1>1, <1>2 DEF RenewedInTime, expired
<1> QED  BY <1>3, <1>4, <1>5

\* A reload that brings in the file's TGT, however old.
LEMMA AdoptNext ==
    ASSUME TimelyLoop, TypeInv, TypeInv', RenewalsNeverOverlap, TimerInv, SleepBounded',
           NEW p \in Threads, Adopt(p), tgt' # Nil
    PROVE  DueAttended' /\ WakesInTime' /\ RenewedInTime'
<1> USE DEF TypeInv, TypeOK
<1>1. pc[p] = "adopt" /\ now[p] = clock
  BY DEF Adopt, TimerInv, Instant, InMaintain
<1>2. ~renewing
  BY <1>1 DEF TimerInv, AdoptsAlone, RenewalsNeverOverlap, exchanging, Busy
<1>3. UNCHANGED <<clock, renewing>> /\ tgt'.cred \in Cred
  BY AdoptedTGT
<1>4. tgt'.cred.end > clock /\ long(tgt'.cred, clock)
  BY <1>1, AdoptedTGT DEF TimerInv, AdoptsValid, LongLived
<1>5. pc' = [pc EXCEPT ![p] = afterCheck(tgt', clock, ZeroTime, renewing)]
  BY <1>1, AdoptedTGT
<1>6. renewDue(tgt'.cred, clock) => Attended'
  <2>1. clock >= ZeroTime
    BY PolicyAssumption DEF ZeroTime, PolicyAssumption
  <2>2. renewDue(tgt'.cred, clock) => renewWanted(tgt', clock, ZeroTime, renewing)
    BY <1>2, <2>1 DEF renewWanted
  <2>3. renewDue(tgt'.cred, clock) => pc'[p] = "renew"
    BY <1>5, <2>2 DEF afterCheck
  <2> QED  BY <1>2, <1>3, <2>3 DEF Attended
<1>7. /\ clock \in Nat /\ tgt'.cred.end \in Int /\ wakeAt' \in Int
      /\ wakeAt' <= clock + MaxSleep /\ MaxSleep \in Nat
  BY <1>3, PolicyAssumption DEF Cred, SleepBounded, PolicyAssumption
<1>8. DueAttended'
  BY <1>3, <1>6 DEF DueAttended
<1>9. WakesInTime'
  <2> SUFFICES ASSUME renewable(tgt'.cred), ~Attended' PROVE wakeAt' < tgt'.cred.end
    BY DEF WakesInTime, Renewing
  <2>1. canRenew(tgt'.cred, clock)
    BY <1>4, <1>7 DEF canRenew, expired
  <2>2. tgt'.cred.end > clock + MaxSleep
    BY <1>3, <1>4, <1>6, <1>7, <2>1, NotDueTGT
  <2> QED  BY <1>7, <2>2
<1>10. RenewedInTime'
  BY <1>3, <1>4, <1>7 DEF RenewedInTime, expired
<1> QED  BY <1>8, <1>9, <1>10

\* Time passing.
LEMMA TickNext ==
    ASSUME TimelyLoop, TypeInv, RenewalsNeverOverlap, WakesInTime, Tick
    PROVE  DueAttended' /\ WakesInTime' /\ RenewedInTime'
<1>1. /\ clock \in Nat /\ clock' = clock + 1
      /\ \A p \in Threads : pc[p] \in {"idle", "sleep"}
      /\ \A l \in Background : pc[l] = "sleep" /\ clock < wakeAt
      /\ UNCHANGED <<tgt, backoff, renewing, file, wakeAt, pc, now, started, renewed>>
      /\ UNCHANGED skippedAt
  BY TickSettled DEF Tick
<1>2. ~renewing /\ ~Attended
  BY <1>1 DEF RenewalsNeverOverlap, exchanging, Attended
<1>3. UNCHANGED renewBackoff
  BY <1>1 DEF backoff
<1>4. DueAttended'
  <2>1. \A l \in Background : pc'[l] \notin Round
    BY <1>1 DEF Round
  <2> QED  BY <1>1, <1>2, <2>1 DEF DueAttended
<1>5. WakesInTime'
  BY <1>1, <1>2, <1>3 DEF WakesInTime, Renewing, Attended, SkippedLast
<1>6. RenewedInTime'
  <2> SUFFICES ASSUME tgt # Nil, renewable(tgt.cred), expired(tgt.cred, clock + 1),
                      ~(renewBackoff > 0), ~SkippedLast
               PROVE  FALSE
    BY <1>1, <1>3 DEF RenewedInTime, SkippedLast
  <2>1. renewBackoff = 0 /\ wakeAt \in Int /\ tgt.cred.end \in Int
    BY DEF TypeInv, TypeOK, TGTInfo, Cred
  <2>2. wakeAt < tgt.cred.end
    BY <1>1, <1>2, <2>1 DEF WakesInTime, Renewing
  <2>3. clock < wakeAt
    BY <1>1 DEF TimelyLoop
  <2> QED  BY <1>1, <2>1, <2>2, <2>3 DEF expired
<1> QED  BY <1>4, <1>5, <1>6

\* Every step keeps the loop on time.
LEMMA InTimeNext ==
    ASSUME TimelyLoop, TypeInv, RenewalsNeverOverlap, TimerInv, TimerInv', DueAttended, WakesInTime,
           RenewedInTime, Next
    PROVE  DueAttended' /\ WakesInTime' /\ RenewedInTime'
<1> DEFINE Goal == DueAttended' /\ WakesInTime' /\ RenewedInTime'
<1>0. TypeInv' /\ SleepBounded'
  BY TypeNext DEF TimerInv
<1>1. CASE Tick
  BY <1>1, TickNext
<1>2. CASE UNCHANGED <<tgt, backoff>> /\ UNCHANGED clock
  BY <1>2, SameTGTNext
<1>3. CASE tgt' = Nil
  BY <1>3 DEF DueAttended, WakesInTime, RenewedInTime, Renewing
<1>4. CASE tgt' # Nil /\ new(tgt'.cred) /\ UNCHANGED clock
  BY <1>0, <1>4, NewTGTNext
<1>5. ASSUME NEW p \in Threads, Adopt(p), tgt' # Nil PROVE Goal
  BY <1>0, <1>5, AdoptNext
<1>6. CASE renewBackoff' > 0
  BY <1>6 DEF DueAttended, WakesInTime, RenewedInTime, Renewing
<1>7. RenewedNow
  BY DEF TimerInv
<1> QED  BY ClockSteps, HeldSteps, <1>1, <1>2, <1>3, <1>4, <1>5, <1>6, <1>7

(***************************************************************************)
(* The loop renews in time: a renewable TGT, whether it was loaded,        *)
(* adopted, renewed or STOREd, and whatever requests did with it while the *)
(* loop was asleep, runs out only when a renewal of it has failed,         *)
(* provided that a TGT's half-life is not shorter than the loop's longest  *)
(* sleep, and that operations are short and the timer punctual.            *)
(***************************************************************************)
THEOREM RenewalInTime == ASSUME TimelyLoop PROVE Spec => []RenewedInTime
<1>1. Init => TimerInv /\ DueAttended /\ WakesInTime /\ RenewedInTime
  <2> SUFFICES ASSUME Init PROVE TimerInv /\ DueAttended /\ WakesInTime /\ RenewedInTime
    OBVIOUS
  <2>1. /\ clock = 0 /\ wakeAt = 0 /\ ~renewing /\ renewRetryAt = ZeroTime
        /\ file \in File /\ file.creds \in Seq(Cred)
        /\ \A p \in Threads : /\ pc[p] \in {"idle", "sleep"}
                              /\ started[p] = Nil /\ renewed[p] = Nil
    BY FilesType, PolicyAssumption, ClientAssumption DEF Init, Open, File
  <2>2. \A i \in DOMAIN file.creds :
           local(file.creds[i]) => long(file.creds[i], clock) /\ file.creds[i].end > 0
    BY <2>1, ContentsLong DEF Init, Open, cacheFile
  <2>3. tgt # Nil => /\ tgt.cred \in Cred /\ long(tgt.cred, clock) /\ tgt.cred.end > 0
    <3>1. tgt # Nil => peekTGT(file.creds) # Nil /\ tgt.cred = peekTGT(file.creds)
      BY DEF Init, Open
    <3>2. tgt # Nil => \E i \in DOMAIN file.creds : tgt.cred = file.creds[i] /\ local(file.creds[i])
      BY <2>1, <3>1, PeekedTGT DEF local
    <3> QED  BY <2>1, <2>2, <3>2
  <2>4. LongLived /\ RenewedNow
    BY <2>1, <2>2, <2>3 DEF LongLived, RenewedNow
  <2>5. Instant /\ NotHeldBack /\ ConsultedLately /\ AdoptsAlone /\ AdoptsValid /\ SkippedNow
    BY <2>1 DEF Instant, NotHeldBack, ConsultedLately, AdoptsAlone, AdoptsValid, SkippedNow,
                InMaintain, Busy, Threads
  <2>6. SleepBounded
    BY <2>1, PolicyAssumption DEF SleepBounded, PolicyAssumption
  <2>7. DueAttended
    BY <2>1 DEF DueAttended, Round, Threads
  <2>8. WakesInTime /\ RenewedInTime
    <3>1. tgt # Nil => tgt.cred.end \in Int /\ tgt.cred.end > clock /\ wakeAt = clock
      BY <2>1, <2>3 DEF Cred
    <3> QED  BY <2>1, <3>1 DEF WakesInTime, RenewedInTime, Renewing, expired
  <2> QED  BY <2>4, <2>5, <2>6, <2>7, <2>8 DEF TimerInv
<1>2. TypeInv /\ LockExclusive /\ RenewalFits /\ TimerInv /\ [Next]_vars => TimerInv'
  <2>1. CASE UNCHANGED vars
    BY <2>1 DEF vars, world, renewal, backoff, TimerInv, LongLived, RenewedNow, new, Instant,
                SkippedNow, NotHeldBack, SleepBounded, ConsultedLately, AdoptsAlone, AdoptsValid
  <2> QED  BY <2>1, LongNext, InstantNext, SkippedNext, TimerNext, ConsultedNext, AloneNext, ValidNext
           DEF TimerInv
<1>3. TypeInv /\ RenewalsNeverOverlap /\ TimerInv /\ TimerInv' /\ DueAttended /\ WakesInTime
        /\ RenewedInTime /\ [Next]_vars => (DueAttended /\ WakesInTime /\ RenewedInTime)'
  <2>1. CASE UNCHANGED vars
    BY <2>1 DEF vars, world, renewal, backoff, DueAttended, WakesInTime, RenewedInTime, Renewing,
                Attended, SkippedLast
  <2> QED  BY <2>1, InTimeNext
<1> QED  BY <1>1, <1>2, <1>3, TypeAlways, LockAlways, RenewalFitsAlways, RenewalSafety, PTL DEF Spec

=============================================================================
