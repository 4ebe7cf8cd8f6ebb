----------------------------- MODULE Krb5Client -----------------------------
(***************************************************************************)
(* internal/krb5c: the daemon's Client, its working cache and held TGT,    *)
(* and every operation that reads or changes them.                         *)
(*                                                                         *)
(* One thread per connection being served (Procs) and the maintenance loop *)
(* Run (Background).  A thread's pc names the code it runs next; a step is *)
(* one critical section of c.mu, or one exchange outside it.  The RWMutex  *)
(* is read off the pcs: a thread whose pc is in Reading holds it for       *)
(* reading, one in "adopt" for writing, and a step that takes and releases *)
(* it only needs it to be free.                                            *)
(***************************************************************************)
EXTENDS LibKrb5, FiniteSets

CONSTANTS
    Procs,          \* connections being served
    Background,     \* {Run}, or {} while the loop is not scheduled
    Ptrs,           \* addresses of tgtInfo records
    Names,          \* realm names and principal components
    Clients,        \* client principals
    MatchClients,   \* clients a match-credential names; Nil when it has none
    MatchServers,   \* servers a match-credential names; Nil when it has none
    StoreServers,   \* service (or config) principals clients STORE entries for
    TGTLives, RenewLives, TGTFlags,     \* what kinit asks for
    SvcLives,       \* service ticket lifetimes the KDC grants
    Ops,            \* the client operations considered
    FileRaces,      \* may the source file change during a reload?
    Damage,         \* may the source file be truncated?
    Prompt,         \* does time pass only between operations, the loop on time?
    FileTimes,      \* bound: the times at which the source file may change
    SkipTimes,      \* bound: the times at which the loop may fail to get a context
    MaxTime         \* bound: the clock stops here

Threads == Procs \cup Background

Principal == [realm : Names, comps : Seq(Names)]

Cred == [client : Principal, server : Principal, auth : Int, start : Int,
         end : Int, renewTill : Int, flags : SUBSET {Renewable}]

TGTInfo == [ptr : Ptrs, cred : Cred]

File == [princ : Principal, creds : Seq(Cred), torn : BOOLEAN]

Labels == {"idle", "sleep", "maintain", "reload", "adopt", "renew", "exchange", "install",
           "sweep", "evict", "lookup", "lead", "joined", "tgs", "land", "list", "reply",
           "refused", "plan", "skipped", "destroy", "kinit", "panic"}

Codes == {"OK", "FCCPerm", "TktExpired", "CCNotFound", "Malformed", "NoTGT", "KDCError"}

Request == [op : {"none", "loop", "retrieve", "list", "entry"},
            client : Principal \cup {Nil}, server : Principal \cup {Nil}]

Result == [code : Codes, entries : SUBSET [cred : Cred, key : BOOLEAN]]

ASSUME ClientAssumption ==
    /\ Procs \cap Background = {}
    /\ "krbtgt" \in Names
    /\ Clients \subseteq Principal
    /\ MatchClients \subseteq Principal \cup {Nil}
    /\ MatchServers \subseteq Principal \cup {Nil}
    /\ StoreServers \subseteq Principal
    /\ TGTLives \subseteq Nat \ {0}
    /\ RenewLives \subseteq Nat
    /\ SvcLives \subseteq Nat \ {0}
    /\ TGTFlags \subseteq SUBSET {Renewable}
    /\ FileRaces \in BOOLEAN
    /\ Damage \in BOOLEAN
    /\ Prompt \in BOOLEAN
    /\ FileTimes \subseteq Nat
    /\ SkipTimes \subseteq Nat
    /\ MaxTime \in Nat
    /\ Nil \notin Threads \cup Principal \cup TGTInfo \cup Cred \cup File \cup Result

VARIABLES
    princ, creds,                       \* the MEMORY: cache behind every k.cc
    tgt,                                \* c.tgt: an address and its record
    lastFileCheck,
    renewRetryAt, renewBackoff, renewing,
    flights,                            \* c.flights.m: the leader of each key
    file,                               \* the source ccache; Nil if unreadable
    clock,
    wakeAt,                             \* Run's timer
    skippedAt,                          \* history: Run's last round without maintenance
    pc, req, now,                       \* of each thread: place, request, now
    seen,                               \* a principal it read earlier
    started, renewed,                   \* renewTGT's locals
    stale,                              \* sweep's local
    result                              \* what it is about to return

cache   == <<princ, creds>>
backoff == <<renewRetryAt, renewBackoff>>
world   == <<file, clock, skippedAt>>
renewal == <<started, renewed>>
vars == <<cache, tgt, lastFileCheck, backoff, renewing, flights, world, wakeAt,
          pc, req, now, seen, renewal, stale, result>>

-----------------------------------------------------------------------------
(* c.mu                                                                    *)

Reading == {"evict", "lead", "joined", "tgs", "land", "reply"}

canRLock == \A q \in Threads : pc[q] # "adopt"

canLockUnlessWriting == \A q \in Threads : pc[q] # "adopt"

canLock == \A q \in Threads : pc[q] \notin {"adopt"} \cup Reading

-----------------------------------------------------------------------------
(* The working cache and the held TGT.                                     *)

uncleared(c) == c

\* The copy storeTGT puts in the cache.
cleared(c) == [c EXCEPT !.flags = @ \ {Renewable}]

storeTGT(cs, c) == cc_store_cred(cs, cleared(c))

addTGT(cs, held, c) == storeTGT(cs, c)

storeThenRemove(cs, held, c) ==
    IF held = Nil THEN storeTGT(cs, c) ELSE cc_remove_exact(storeTGT(cs, c), held.cred)

\* What setTGT makes of the cache.
setTGT(cs, held, c) ==
    storeTGT(IF held = Nil THEN cs ELSE cc_remove_exact(cs, held.cred), c)

\* Where a file's first local TGT is; at most one position.
firstTGT(s) ==
    LET at == {i \in DOMAIN s : /\ ~isConfigPrincipal(s[i].server)
                                /\ isLocalTGT(s[i].client, s[i].server)}
    IN  {i \in at : \A j \in at : i <= j}

peekTGT(s) == IF firstTGT(s) = {} THEN Nil ELSE s[CHOOSE i \in firstTGT(s) : TRUE]

\* What loadFrom leaves in a just initialised cache: loadOne on every entry.
loadFrom(s, t) ==
    {cleared(s[i]) : i \in firstTGT(s)}
    \cup {c \in {s[i] : i \in DOMAIN s} :
             /\ ~isConfigPrincipal(c.server)
             /\ ~isLocalTGT(c.client, c.server)
             /\ ~expired(c, t)}

\* Would loadNewerTGT, having peeked at the file, adopt it?
newer(f, held, t) ==
    /\ f # Nil
    /\ peekTGT(f.creds) # Nil
    /\ ~expired(peekTGT(f.creds), t)
    /\ held # Nil => peekTGT(f.creds).end > held.cred.end

needsRenewal(held, t) == held # Nil /\ renewDue(held.cred, t)

tgtNeedsAttention(held, t) ==
    \/ held = Nil
    \/ renewDue(held.cred, t)
    \/ remaining(held.cred, t) < MinLife

renewWanted(held, t, retryAt, busy) ==
    /\ held # Nil
    /\ renewDue(held.cred, t)
    /\ t >= retryAt
    /\ ~busy

fileCheckDue(t, last) == t - last >= FileCheckInterval

\* tgtError: may a RETRIEVE go ahead?
tgtUsable(held, t) == held # Nil /\ ~expired(held.cred, t)

\* sweep's scan.
staleEntries(cs, held, t) ==
    {c \in cs : /\ ~isConfigPrincipal(c.server)
                /\ mustEvict(c, IF held = Nil THEN Nil ELSE held.cred, t)}

evictedByName(cs, doomed) == {c \in cs : \A d \in doomed : ~samePrincipals(c, d)}

\* sweep's removals.
evicted(cs, doomed) == {c \in cs : \A d \in doomed : c \in cc_remove_exact(cs, d)}

listedAsStored(c, held) == [cred |-> c, key |-> ~isTGTServer(c.server)]

listedForeignKeys(c, held) ==
    IF ~isLocalTGT(c.client, c.server) \/ held = Nil THEN [cred |-> c, key |-> TRUE]
    ELSE [cred |-> [c EXCEPT !.flags = held.cred.flags], key |-> FALSE]

\* What a listing shows of one entry: a TGT without its session key, and a
\* local TGT with the held one's flags.
listed(c, held) ==
    IF ~isTGTServer(c.server) THEN [cred |-> c, key |-> TRUE]
    ELSE [cred |-> IF held # Nil /\ isLocalTGT(c.client, c.server)
                   THEN [c EXCEPT !.flags = held.cred.flags] ELSE c,
          key |-> FALSE]

\* The client a match template is built with.
templateClient(c) == IF c = Nil THEN princ ELSE c

matchKey(r) == <<r.client, r.server>>

Keys == MatchClients \X MatchServers

noPrincipal(f) == Nil

\* krb5_cc_get_principal on the source file.
readPrincipal(f) == f.princ

\* Addresses nothing refers to.
freePtrs == {a \in Ptrs : /\ tgt # Nil => tgt.ptr # a
                          /\ \A q \in Threads : started[q] # Nil => started[q].ptr # a}

-----------------------------------------------------------------------------
(* Open: the file is readable, and may hold no TGT.                        *)

NoRequest == [op |-> "none", client |-> Nil, server |-> Nil]
LoopRequest == [NoRequest EXCEPT !.op = "loop"]

\* The TGTs kinit can obtain at time t.
kinitTGTs(c, t) ==
    {newTGT(c, t, life, rl, fl) : life \in TGTLives, rl \in RenewLives, fl \in TGTFlags}

\* A credential cache as kinit leaves it at time t, perhaps with a service
\* ticket a program has since put in it, or with nothing but a principal.
fileContents(c, t) ==
    {<<>>} \cup {<<g>> : g \in kinitTGTs(c, t)}
    \cup {<<newTicket(g, v, t, life), g>> :
             g \in kinitTGTs(c, t), v \in StoreServers, life \in SvcLives}

cacheFile(c, s) == [princ |-> c, creds |-> s, torn |-> FALSE]

Open ==
    /\ clock = 0
    /\ \E c \in Clients : \E s \in fileContents(c, clock) : file = cacheFile(c, s)
    /\ princ = file.princ
    /\ creds = loadFrom(file.creds, clock)
    /\ IF peekTGT(file.creds) = Nil THEN tgt = Nil
       ELSE \E a \in Ptrs : tgt = [ptr |-> a, cred |-> peekTGT(file.creds)]
    /\ lastFileCheck = ZeroTime
    /\ renewRetryAt = ZeroTime
    /\ renewBackoff = 0
    /\ renewing = FALSE
    /\ flights = [k \in Keys |-> Nil]

Init ==
    /\ Open
    /\ wakeAt = 0
    /\ skippedAt = ZeroTime
    /\ pc = [p \in Threads |-> IF p \in Procs THEN "idle" ELSE "sleep"]
    /\ req = [p \in Threads |-> IF p \in Procs THEN NoRequest ELSE LoopRequest]
    /\ now = [p \in Threads |-> 0]
    /\ seen = [p \in Threads |-> Nil]
    /\ started = [p \in Threads |-> Nil]
    /\ renewed = [p \in Threads |-> Nil]
    /\ stale = [p \in Threads |-> {}]
    /\ result = [p \in Threads |-> Nil]

-----------------------------------------------------------------------------
(* Steps shared by several operations.                                     *)

Goto(p, l) == pc' = [pc EXCEPT ![p] = l]

resetRenewBackoff == renewBackoff' = 0 /\ renewRetryAt' = ZeroTime

noteRenewFailure(t) ==
    /\ renewBackoff' = nextBackoff(renewBackoff)
    /\ renewRetryAt' = t + nextBackoff(renewBackoff)

\* krb5_cc_initialize and what Initialize does to the fields.
initialize(c) ==
    /\ princ' = c
    /\ creds' = {}
    /\ tgt' = Nil
    /\ resetRenewBackoff

install(c) ==
    /\ creds' = setTGT(creds, tgt, c)
    /\ \E a \in freePtrs : tgt' = [ptr |-> a, cred |-> c]
    /\ resetRenewBackoff

store(c) ==
    IF isLocalTGT(c.client, c.server) /\ c.client = princ
    THEN install(c)
    ELSE creds' = cc_store_cred(creds, c) /\ UNCHANGED <<tgt, backoff>>

Answer(p, code, entries) ==
    /\ result' = [result EXCEPT ![p] = [code |-> code, entries |-> entries]]
    /\ Goto(p, "reply")

-----------------------------------------------------------------------------
(* maintain(k, now)                                                        *)

afterCheck(held, t, retryAt, busy) ==
    IF renewWanted(held, t, retryAt, busy) THEN "renew" ELSE "sweep"

afterMaintain(p) ==
    CASE req[p].op = "retrieve" -> "lookup"
      [] req[p].op \in {"list", "entry"} -> "list"
      [] req[p].op = "loop" -> "plan"

\* The decision under the read lock.
Maintain(p) ==
    /\ pc[p] = "maintain"
    /\ canRLock
    /\ Goto(p, IF tgtNeedsAttention(tgt, now[p]) /\ fileCheckDue(now[p], lastFileCheck)
               THEN "reload"
               ELSE afterCheck(tgt, now[p], renewRetryAt, renewing))
    /\ UNCHANGED <<cache, tgt, lastFileCheck, backoff, renewing, flights, world,
                   wakeAt, req, now, seen, renewal, stale, result>>

\* loadNewerTGT up to its decision: the file's principal and its TGT.  The
\* file is read again, and the lock kept, when it goes on to adopt it.
Reload(p) ==
    /\ pc[p] = "reload"
    /\ canLock
    /\ LET due == tgtNeedsAttention(tgt, now[p]) /\ fileCheckDue(now[p], lastFileCheck)
           adopt == due /\ newer(file, tgt, now[p])
       IN  /\ lastFileCheck' = IF due THEN now[p] ELSE lastFileCheck
           /\ seen' = [seen EXCEPT ![p] = IF adopt THEN readPrincipal(file) ELSE Nil]
           /\ Goto(p, IF adopt THEN "adopt"
                      ELSE afterCheck(tgt, now[p], renewRetryAt, renewing))
    /\ UNCHANGED <<cache, tgt, backoff, renewing, flights, world, wakeAt, req, now,
                   renewal, stale, result>>

\* The rest of loadNewerTGT, still under the lock.
Adopt(p) ==
    /\ pc[p] = "adopt"
    /\ princ' = seen[p]
    /\ creds' = IF file = Nil THEN {} ELSE loadFrom(file.creds, now[p])
    /\ seen' = [seen EXCEPT ![p] = Nil]
    /\ \/ \* the file is no longer readable, or not to its end
          /\ file # Nil => file.torn
          /\ tgt' = Nil
          /\ Goto(p, "sweep")
          /\ UNCHANGED backoff
       \/ \* it no longer holds a TGT: tgt.client is a nil dereference
          /\ file # Nil /\ ~file.torn
          /\ peekTGT(file.creds) = Nil
          /\ tgt' = Nil
          /\ resetRenewBackoff
          /\ Goto(p, "panic")
       \/ /\ file # Nil /\ ~file.torn
          /\ peekTGT(file.creds) # Nil
          /\ \E a \in freePtrs : tgt' = [ptr |-> a, cred |-> peekTGT(file.creds)]
          /\ resetRenewBackoff
          /\ Goto(p, afterCheck(tgt', now[p], renewRetryAt', renewing))
    /\ UNCHANGED <<lastFileCheck, renewing, flights, world, wakeAt, req, now, renewal,
                   stale, result>>

mayRenewAgain(held, busy) == held # Nil

mayRenew(held, busy) == held # Nil /\ ~busy

\* renewTGT's first critical section.
RenewStart(p) ==
    /\ pc[p] = "renew"
    /\ canLock
    /\ IF ~mayRenew(tgt, renewing)
       THEN Goto(p, "sweep") /\ UNCHANGED <<renewing, started>>
       ELSE /\ renewing' = TRUE
            /\ started' = [started EXCEPT ![p] = tgt]
            /\ Goto(p, "exchange")
    /\ UNCHANGED <<cache, tgt, lastFileCheck, backoff, flights, world, wakeAt, req, now,
                   seen, renewed, stale, result>>

\* renewExchange, with no lock held; Nil is an error.
RenewExchange(p) ==
    /\ pc[p] = "exchange"
    /\ \E r \in {Nil} \cup {renewedTGT(g, clock) :
                    g \in {c \in {started[p].cred} : kdcRenews(c, clock)}} :
          renewed' = [renewed EXCEPT ![p] = r]
    /\ Goto(p, "install")
    /\ UNCHANGED <<cache, tgt, lastFileCheck, backoff, renewing, flights, world, wakeAt,
                   req, now, seen, started, stale, result>>

neverReplaced(held, from) == FALSE

\* c.tgt != started, as pointers.
replaced(held, from) == held # Nil => held.ptr # from.ptr

leaveRenewing == UNCHANGED renewing

endRenewing == renewing' = FALSE

\* renewTGT's second critical section.
RenewInstall(p) ==
    /\ pc[p] = "install"
    /\ canLock
    /\ endRenewing
    /\ \/ /\ replaced(tgt, started[p])
          /\ UNCHANGED <<creds, tgt, backoff>>
       \/ /\ ~replaced(tgt, started[p])
          /\ renewed[p] = Nil
          /\ noteRenewFailure(now[p])
          /\ UNCHANGED <<creds, tgt>>
       \/ /\ ~replaced(tgt, started[p])
          /\ renewed[p] # Nil
          /\ install(renewed[p])
    /\ started' = [started EXCEPT ![p] = Nil]
    /\ renewed' = [renewed EXCEPT ![p] = Nil]
    /\ Goto(p, "sweep")
    /\ UNCHANGED <<princ, lastFileCheck, flights, world, wakeAt, req, now, seen, stale,
                   result>>

\* sweep: the scan; then, the read lock still held, the removals.
Sweep(p) ==
    /\ pc[p] = "sweep"
    /\ canRLock
    /\ stale' = [stale EXCEPT ![p] = staleEntries(creds, tgt, now[p])]
    /\ Goto(p, IF stale'[p] = {} THEN afterMaintain(p) ELSE "evict")
    /\ UNCHANGED <<cache, tgt, lastFileCheck, backoff, renewing, flights, world, wakeAt,
                   req, now, seen, renewal, result>>

Evict(p) ==
    /\ pc[p] = "evict"
    /\ creds' = evicted(creds, stale[p])
    /\ stale' = [stale EXCEPT ![p] = {}]
    /\ Goto(p, afterMaintain(p))
    /\ UNCHANGED <<princ, tgt, lastFileCheck, backoff, renewing, flights, world, wakeAt,
                   req, now, seen, renewal, result>>
-----------------------------------------------------------------------------
(* The cache-reading operations: RETRIEVE, the listings, the loop.         *)

\* time.Now() and the call of maintain.
BeginMaintain(p, r) ==
    /\ req' = [req EXCEPT ![p] = r]
    /\ now' = [now EXCEPT ![p] = clock]
    /\ Goto(p, "maintain")

\* Retrieve as far as maintain: a TGT is refused before anything else.
Retrieve(p) ==
    /\ "retrieve" \in Ops
    /\ pc[p] = "idle"
    /\ \E c \in MatchClients, s \in MatchServers :
          LET r == [op |-> "retrieve", client |-> c, server |-> s]
          IN  IF s # Nil /\ isTGTServer(s)
              THEN /\ req' = [req EXCEPT ![p] = r]
                   /\ result' = [result EXCEPT ![p] = [code |-> "FCCPerm", entries |-> {}]]
                   /\ Goto(p, "refused")
                   /\ UNCHANGED now
              ELSE BeginMaintain(p, r) /\ UNCHANGED result
    /\ UNCHANGED <<cache, tgt, lastFileCheck, backoff, renewing, flights, world, wakeAt,
                   seen, renewal, stale>>

neverInFlight(r) == FALSE

\* Is there a flight for the request to join?
inFlight(r) == flights[matchKey(r)] # Nil

\* Retrieve after maintain: tgtError, then flights.do.  The read lock is held
\* from here to the reply.
Lookup(p) ==
    /\ pc[p] = "lookup"
    /\ canRLock
    /\ \/ /\ ~tgtUsable(tgt, now[p])
          /\ Answer(p, "TktExpired", {})
          /\ UNCHANGED flights
       \/ /\ tgtUsable(tgt, now[p])
          /\ inFlight(req[p])
          /\ Goto(p, "joined")
          /\ UNCHANGED <<flights, result>>
       \/ /\ tgtUsable(tgt, now[p])
          /\ ~inFlight(req[p])
          /\ flights' = [flights EXCEPT ![matchKey(req[p])] = p]
          /\ Goto(p, "lead")
          /\ UNCHANGED result
    /\ UNCHANGED <<cache, tgt, lastFileCheck, backoff, renewing, world, wakeAt, req, now,
                   seen, renewal, stale>>

Landed(p, code, entries) ==
    /\ result' = [result EXCEPT ![p] = [code |-> code, entries |-> entries]]
    /\ Goto(p, "land")

\* The tickets krb5_get_credentials can use as the template client's TGT.
usableTGTs(p) ==
    LET c == templateClient(req[p].client)
    IN  cc_lookup(creds, c, krbtgt(c.realm, c.realm), clock)

\* getCredentials: the template, the config check, the lookup.
Lead(p) ==
    /\ pc[p] = "lead"
    /\ LET r == req[p]
           hits == cc_lookup(creds, templateClient(r.client), r.server, clock)
       IN  \/ r.server = Nil /\ Landed(p, "Malformed", {})
           \/ /\ r.server # Nil /\ isConfigPrincipal(r.server)
              /\ Landed(p, "CCNotFound", {})
           \/ /\ r.server # Nil /\ ~isConfigPrincipal(r.server)
              /\ \E c \in hits : Landed(p, "OK", {[cred |-> c, key |-> TRUE]})
           \/ /\ r.server # Nil /\ ~isConfigPrincipal(r.server)
              /\ hits = {} /\ usableTGTs(p) = {}
              /\ Landed(p, "NoTGT", {})
           \/ /\ r.server # Nil /\ ~isConfigPrincipal(r.server)
              /\ hits = {} /\ usableTGTs(p) # {}
              /\ Goto(p, "tgs") /\ UNCHANGED result
    /\ UNCHANGED <<cache, tgt, lastFileCheck, backoff, renewing, flights, world, wakeAt,
                   req, now, seen, renewal, stale>>

\* The TGS exchange: the KDC's answer is stored in the cache, or is an error.
Tgs(p) ==
    /\ pc[p] = "tgs"
    /\ \/ \E g \in usableTGTs(p), life \in SvcLives :
             LET c == newTicket(g, req[p].server, clock, life)
             IN  /\ creds' = cc_store_cred(creds, c)
                                 \cup referrals(g, req[p].server, clock, life)
                 /\ Landed(p, "OK", {[cred |-> c, key |-> TRUE]})
       \/ Landed(p, "KDCError", {}) /\ UNCHANGED creds
    /\ UNCHANGED <<princ, tgt, lastFileCheck, backoff, renewing, flights, world, wakeAt,
                   req, now, seen, renewal, stale>>

leaderOnly(p) == {p}

\* Everyone the flight p leads has an answer for.
crew(p) ==
    {p} \cup {q \in Procs : pc[q] = "joined" /\ matchKey(req[q]) = matchKey(req[p])}

keepFlight(k) == flights

deleteFlight(k) == [flights EXCEPT ![k] = Nil]

\* The end of do: the key is deleted and everyone who joined gets the answer.
Land(p) ==
    /\ pc[p] = "land"
    /\ flights' = deleteFlight(matchKey(req[p]))
    /\ pc' = [q \in Threads |-> IF q \in crew(p) THEN "reply" ELSE pc[q]]
    /\ result' = [q \in Threads |-> IF q \in crew(p) THEN result[p] ELSE result[q]]
    /\ UNCHANGED <<cache, tgt, lastFileCheck, backoff, renewing, world, wakeAt, req, now,
                   seen, renewal, stale>>

\* ListEntries and EntryByUUID.
Enumerate(p) ==
    /\ Ops \cap {"list", "entry"} # {}
    /\ pc[p] = "idle"
    /\ \E op \in Ops \cap {"list", "entry"} : BeginMaintain(p, [NoRequest EXCEPT !.op = op])
    /\ UNCHANGED <<cache, tgt, lastFileCheck, backoff, renewing, flights, world, wakeAt,
                   seen, renewal, stale, result>>

\* A UUID is a hash of the entry: the one asked for is any entry's, or none's.
List(p) ==
    /\ pc[p] = "list"
    /\ canRLock
    /\ LET real == {c \in creds : ~isConfigPrincipal(c.server)}
       IN  \/ req[p].op = "list" /\ Answer(p, "OK", {listed(c, tgt) : c \in real})
           \/ /\ req[p].op = "entry"
              /\ \E c \in real : Answer(p, "OK", {listed(c, tgt)})
           \/ req[p].op = "entry" /\ Answer(p, "CCNotFound", {})
    /\ UNCHANGED <<cache, tgt, lastFileCheck, backoff, renewing, flights, world, wakeAt,
                   req, now, seen, renewal, stale>>

\* The operation returns, releasing the read lock.
Return(p) ==
    /\ pc[p] \in {"reply", "refused"}
    /\ req' = [req EXCEPT ![p] = NoRequest]
    /\ now' = [now EXCEPT ![p] = 0]
    /\ result' = [result EXCEPT ![p] = Nil]
    /\ Goto(p, "idle")
    /\ UNCHANGED <<cache, tgt, lastFileCheck, backoff, renewing, flights, world, wakeAt,
                   seen, renewal, stale>>

\* Run: the timer fires.  A round that gets no context from acquire goes
\* without maintenance.
Wake(p) ==
    /\ pc[p] = "sleep"
    /\ clock >= wakeAt
    /\ \/ BeginMaintain(p, LoopRequest) /\ UNCHANGED skippedAt
       \/ /\ clock \in SkipTimes
          /\ now' = [now EXCEPT ![p] = clock]
          /\ skippedAt' = clock
          /\ Goto(p, "skipped")
          /\ UNCHANGED req
    /\ UNCHANGED <<cache, tgt, lastFileCheck, backoff, renewing, flights, file, clock,
                   wakeAt, seen, renewal, stale, result>>

\* With or without it, the next wake-up is set.
Plan(p) ==
    /\ pc[p] \in {"plan", "skipped"}
    /\ canRLock
    /\ wakeAt' = nextWake(IF tgt = Nil THEN Nil ELSE tgt.cred, now[p], renewRetryAt)
    /\ now' = [now EXCEPT ![p] = 0]
    /\ Goto(p, "sleep")
    /\ UNCHANGED <<cache, tgt, lastFileCheck, backoff, renewing, flights, world, req,
                   seen, renewal, stale, result>>

-----------------------------------------------------------------------------
(* The cache-writing operations.                                           *)

CanWrite(p, op) == op \in Ops /\ pc[p] = "idle" /\ canLock

Initialize(p) ==
    /\ CanWrite(p, "initialize")
    /\ \E c \in Clients : initialize(c)
    /\ UNCHANGED <<lastFileCheck, renewing, flights, world, wakeAt, pc, req, now, seen,
                   renewal, stale, result>>

\* What a client may hold to STORE: its TGT, a service ticket, a config entry
\* (which has no times).
configEntry(c, s) == [newTGT(c, ZeroTime, 0, 0, {}) EXCEPT !.server = s]

storable(c) ==
    kinitTGTs(c, clock)
    \cup {configEntry(c, s) : s \in {x \in StoreServers : isConfigPrincipal(x)}}
    \cup {newTicket(newTGT(c, clock, life, 0, {}), s, clock, life) :
             s \in {x \in StoreServers : ~isConfigPrincipal(x)}, life \in SvcLives}

Store(p) ==
    /\ CanWrite(p, "store")
    /\ \E c \in Clients : \E x \in storable(c) : store(x)
    /\ UNCHANGED <<princ, lastFileCheck, renewing, flights, world, wakeAt, pc, req, now,
                   seen, renewal, stale, result>>

\* RemoveMatching and RemoveByUUID, both with match flags 0.
Remove(p) ==
    /\ CanWrite(p, "remove")
    /\ \/ \E c \in MatchClients, s \in MatchServers \ {Nil} :
             creds' = cc_remove_cred(creds, templateClient(c), s)
       \/ \E c \in {d \in creds : ~isConfigPrincipal(d.server)} :
             creds' = cc_remove_cred(creds, c.client, c.server)
    /\ UNCHANGED <<princ, tgt, lastFileCheck, backoff, renewing, flights, world, wakeAt,
                   pc, req, now, seen, renewal, stale, result>>

\* DESTROY is two calls: DefaultPrincipal, then Initialize with its answer.
Destroy(p) ==
    /\ "destroy" \in Ops
    /\ pc[p] = "idle"
    /\ canRLock
    /\ seen' = [seen EXCEPT ![p] = princ]
    /\ Goto(p, "destroy")
    /\ UNCHANGED <<cache, tgt, lastFileCheck, backoff, renewing, flights, world, wakeAt,
                   req, now, renewal, stale, result>>

DestroyInitialize(p) ==
    /\ pc[p] = "destroy"
    /\ canLock
    /\ initialize(seen[p])
    /\ seen' = [seen EXCEPT ![p] = Nil]
    /\ Goto(p, "idle")
    /\ UNCHANGED <<lastFileCheck, renewing, flights, world, wakeAt, req, now, renewal,
                   stale, result>>

\* kinit into the KCM: cache is an INITIALIZE and a STORE of the new TGT.
KinitKCM(p) ==
    /\ CanWrite(p, "kinit")
    /\ \E c \in Clients : initialize(c) /\ seen' = [seen EXCEPT ![p] = c]
    /\ Goto(p, "kinit")
    /\ UNCHANGED <<lastFileCheck, renewing, flights, world, wakeAt, req, now, renewal,
                   stale, result>>

KinitStore(p) ==
    /\ pc[p] = "kinit"
    /\ canLock
    /\ \E c \in kinitTGTs(seen[p], clock) : store(c)
    /\ seen' = [seen EXCEPT ![p] = Nil]
    /\ Goto(p, "idle")
    /\ UNCHANGED <<princ, lastFileCheck, renewing, flights, world, wakeAt, req, now,
                   renewal, stale, result>>

-----------------------------------------------------------------------------
(* The world: time passes and the user runs kinit, or loses the file.      *)

mayChangeFile ==
    /\ clock \in FileTimes
    /\ FileRaces \/ \A q \in Threads : pc[q] # "adopt"

settled ==
    /\ \A p \in Procs : pc[p] = "idle"
    /\ \A p \in Background : pc[p] = "sleep" /\ clock < wakeAt

Tick ==
    /\ clock < MaxTime
    /\ Prompt => settled
    /\ clock' = clock + 1
    /\ UNCHANGED <<cache, tgt, lastFileCheck, backoff, renewing, flights, file,
                   skippedAt, wakeAt, pc, req, now, seen, renewal, stale, result>>

ChangeFile ==
    /\ mayChangeFile
    /\ \/ \E c \in Clients : \E s \in fileContents(c, clock) : file' = cacheFile(c, s)
       \/ file' = Nil
       \/ /\ Damage /\ file # Nil
          /\ \E n \in 0..Len(file.creds) :
                file' = [file EXCEPT !.creds = SubSeq(@, 1, n), !.torn = TRUE]
    /\ UNCHANGED <<cache, tgt, lastFileCheck, backoff, renewing, flights, clock,
                   skippedAt, wakeAt, pc, req, now, seen, renewal, stale, result>>

-----------------------------------------------------------------------------

\* A panic takes the whole daemon down.
Running == \A q \in Threads : pc[q] # "panic"

MaintainStep(p) ==
    \/ Maintain(p) \/ Reload(p) \/ Adopt(p)
    \/ RenewStart(p) \/ RenewExchange(p) \/ RenewInstall(p)
    \/ Sweep(p) \/ Evict(p)

RequestStep(p) ==
    \/ Retrieve(p) \/ Lookup(p) \/ Lead(p) \/ Tgs(p) \/ Land(p)
    \/ Enumerate(p) \/ List(p) \/ Return(p)
    \/ Initialize(p) \/ Store(p) \/ Remove(p)
    \/ Destroy(p) \/ DestroyInitialize(p)
    \/ KinitKCM(p) \/ KinitStore(p)

LoopStep(p) == Wake(p) \/ Plan(p)

Next ==
    /\ Running
    /\ \/ \E p \in Threads : MaintainStep(p)
       \/ \E p \in Procs : RequestStep(p)
       \/ \E p \in Background : LoopStep(p)
       \/ Tick
       \/ ChangeFile

Spec == Init /\ [][Next]_vars

-----------------------------------------------------------------------------
(* Properties.                                                             *)

\* Every variable of the Client, the file and the threads keeps its type.
TypeOK ==
    /\ princ \in Principal
    /\ creds \in SUBSET Cred
    /\ tgt \in TGTInfo \cup {Nil}
    /\ lastFileCheck \in Int
    /\ renewRetryAt \in Int
    /\ renewBackoff \in Nat
    /\ renewing \in BOOLEAN
    /\ flights \in [Keys -> Procs \cup {Nil}]
    /\ file \in File \cup {Nil}
    /\ clock \in Nat
    /\ wakeAt \in Int
    /\ skippedAt \in Int
    /\ pc \in [Threads -> Labels]
    /\ req \in [Threads -> Request]
    /\ now \in [Threads -> Nat]
    /\ seen \in [Threads -> Principal \cup {Nil}]
    /\ started \in [Threads -> TGTInfo \cup {Nil}]
    /\ renewed \in [Threads -> Cred \cup {Nil}]
    /\ stale \in [Threads -> SUBSET Cred]
    /\ result \in [Threads -> Result \cup {Nil}]

InMaintain ==
    {"maintain", "reload", "adopt", "renew", "exchange", "install", "sweep", "evict"}

\* The held TGT is always for the principal the working cache was last
\* initialised for: a renewal in flight across an INITIALIZE, a DESTROY or a
\* reload never brings the old identity back (renewTGT's drop of a replaced
\* TGT, setTGT's callers).
TGTMatchesPrincipal == tgt # Nil => tgt.cred.client = princ

ownTGTs == {c \in creds : isLocalTGT(c.client, c.server) /\ c.client = princ}

\* The cache never holds a TGT of its principal other than the held one's
\* copy, so libkrb5 never drives a TGS-REQ with a superseded TGT, and that
\* copy is never renewable (setTGT, storeTGT, loadFrom).
OneTGTCached == ownTGTs \subseteq {cleared(x.cred) : x \in {tgt} \ {Nil}}

\* The held TGT is in the cache, where libkrb5 looks for it to drive a TGS
\* exchange: nothing but a client's REMOVE takes its copy out, and whatever
\* brings in a new TGT, a renewal that was in flight when the old one's copy
\* was REMOVEd included, puts the new one's copy there (setTGT, loadFrom,
\* sweep's exemption).
HeldTGTCached ==
    [][tgt' # Nil /\ cleared(tgt'.cred) \notin creds' =>
           tgt' = tgt /\ (cleared(tgt.cred) \notin creds \/ \E p \in Procs : Remove(p))]_vars

\* No service ticket the KDC issued to the daemon is renewable: a client can
\* not extend it without the daemon (storeTGT's cleared flag).
TicketsNotRenewable ==
    \A p \in Procs : pc[p] = "reply" /\ req[p].op = "retrieve" =>
        \A e \in result[p].entries : Renewable \notin e.cred.flags

exchanging == {p \in Threads : pc[p] \in {"exchange", "install"}}

\* At most one renewal is under way, which the shared scratch cache of
\* renewExchange relies on, and renewing says whether there is one.
RenewalsNeverOverlap ==
    /\ \A p, q \in exchanging : p = q
    /\ renewing <=> exchanging # {}

\* A RETRIEVE that does not name a client is answered for the principal the
\* cache has when the answer is returned, even when the answer came from
\* another thread's flight: no INITIALIZE or reload fits in between.
AnswerForCurrentPrincipal ==
    \A p \in Procs : pc[p] = "reply" /\ req[p].op = "retrieve" =>
        \A e \in result[p].entries :
            /\ e.cred.client = templateClient(req[p].client)
            /\ e.cred.server = req[p].server

\* No answer, by whatever operation, carries the session key of a TGT.
NoTGTKeyInReplies ==
    \A p \in Procs : result[p] # Nil =>
        \A e \in result[p].entries : e.key => ~isTGTServer(e.cred.server)

\* A listed TGT of the cache's principal is exactly the held one, its real
\* flags restored, at the moment the listing is returned.
ListingShowsHeldTGT ==
    \A p \in Procs : pc[p] = "reply" /\ req[p].op \in {"list", "entry"} =>
        \A e \in result[p].entries :
            isLocalTGT(e.cred.client, e.cred.server) /\ e.cred.client = princ
                => tgt # Nil /\ e.cred = tgt.cred

\* A flight in the map has a live leader, and every joiner has a flight to
\* wait for.
FlightsHaveLeaders ==
    /\ \A k \in Keys : flights[k] # Nil =>
          pc[flights[k]] \in {"lead", "tgs", "land"} /\ matchKey(req[flights[k]]) = k
    /\ \A p \in Procs : pc[p] \in {"lead", "tgs", "land"} => flights[matchKey(req[p])] = p
    /\ \A p \in Procs : pc[p] = "joined" => flights[matchKey(req[p])] # Nil

\* Coalescing keeps the cache free of duplicates: two entries with the same
\* principals are never both valid.
NoDuplicateTickets ==
    \A c, d \in creds :
        samePrincipals(c, d) /\ ~expired(c, clock) /\ ~expired(d, clock) => c = d

\* A RETRIEVE is never answered with a ticket that had less than MinLife left
\* when the request was taken up, unless it was just issued or the TGT would
\* not outlive it.
HandedOutFresh ==
    \A p \in Procs : pc[p] = "reply" /\ req[p].op = "retrieve" =>
        \A e \in result[p].entries :
            \/ remaining(e.cred, now[p]) >= MinLife
            \/ e.cred.start >= now[p]
            \/ tgt.cred.end <= e.cred.end

\* Maintenance never trades the held TGT for one that ends earlier, whichever
\* way reloads and renewals interleave.
MaintenanceNeverShortens ==
    [][\A p \in Threads : pc[p] \in {"adopt", "install"} /\ pc'[p] # pc[p] =>
           (tgt # Nil /\ tgt' # Nil => tgt'.cred.end >= tgt.cred.end)]_vars

\* An eviction only removes tickets that were stale for the TGT held when it
\* takes effect: a ticket another thread has just fetched for the same service
\* survives, and so does every local TGT.
EvictsOnlyStale ==
    [][\A p \in Threads : pc[p] = "evict" /\ pc'[p] # "evict" =>
           creds \ creds' \subseteq staleEntries(creds, tgt, now[p])]_vars

\* Without another identity coming in, a RETRIEVE is refused for want of a TGT
\* only if the file was consulted less than FileCheckInterval before it.
RefusalFollowsFileCheck ==
    \A p \in Procs : pc[p] = "reply" /\ result[p].code = "TktExpired" =>
        ~fileCheckDue(now[p], lastFileCheck)

\* A renewable TGT, however it came to be held, runs out only when a renewal
\* has failed or the loop got no context within the last Second before its
\* end, provided it lives twice as long as MaxSleep, operations are short and
\* the timer is punctual: nextWake, from what the last round left behind or
\* failed to do, never sleeps through the time to renew, whatever the requests
\* in between have made of the TGT.
RenewedInTime ==
    Prompt /\ tgt # Nil /\ renewable(tgt.cred) /\ expired(tgt.cred, clock)
        => renewBackoff > 0 \/ skippedAt + Second >= tgt.cred.end

-----------------------------------------------------------------------------
(* What the repository says and the code does not do.                      *)

\* DESTROY "keeps the same identity".
DestroyKeepsPrincipal ==
    [][\A p \in Procs : pc[p] = "destroy" /\ pc'[p] = "idle" => princ' = princ]_vars

\* maintain "renews the TGT when due", and a failed attempt is retried only
\* after its backoff.
RenewsOnlyWhenDue ==
    [][\A p \in Threads : pc[p] = "renew" /\ pc'[p] = "exchange" =>
           renewWanted(tgt, now[p], renewRetryAt, renewing)]_vars

\* A source cache without a TGT is accepted: no reload brings the daemon down.
NoPanic == Running

-----------------------------------------------------------------------------
(* Liveness.  The mutex is fair (a waiting writer holds back new readers,  *)
(* and waiting readers go before the next writer), and libkrb5 bounds its  *)
(* exchanges with the KDC, so a thread inside an operation goes on.  The   *)
(* clock, the user and new requests are not fair, and neither is the STORE *)
(* kinit sends after its INITIALIZE.                                       *)

Continue(p) ==
    \/ MaintainStep(p)
    \/ Lookup(p) \/ Lead(p) \/ Tgs(p) \/ Land(p) \/ List(p) \/ Return(p)
    \/ DestroyInitialize(p) \/ Plan(p)

FairSpec == Spec /\ \A p \in Threads : SF_vars(Running /\ Continue(p))

betweenOperations == {"idle", "sleep", "kinit"}

\* Every operation returns, whether it leads a flight, joins one, renews the
\* TGT or reloads the file on the way.
OperationsReturn ==
    \A p \in Threads : pc[p] \notin betweenOperations ~> pc[p] \in betweenOperations

\* A renewal never stays marked as being in flight.
RenewalEnds == renewing ~> ~renewing

=============================================================================
