---------------------------- MODULE TicketPolicy ----------------------------
(***************************************************************************)
(* The time and identity policy of internal/krb5c/policy.go (and the       *)
(* eviction rule of sweep in tgt.go) as constant-level operators: nothing  *)
(* here has state.                                                         *)
(*                                                                         *)
(* A principal is [realm, comps]; a credential is                          *)
(*   [client, server, auth, start, end, renewTill, flags]                  *)
(* with times as integers on one clock and flags a set, of which only      *)
(* "renewable" (TKT_FLG_RENEWABLE) matters to this code.                   *)
(***************************************************************************)
EXTENDS Integers, Sequences

CONSTANTS
    MinLife,            \* -min-ticket-life
    FileCheckInterval,  \* fileCheckInterval
    MinBackoff,         \* minBackoff
    MaxBackoff,         \* maxBackoff
    MaxSleep,           \* maxSleep
    Second,             \* time.Second, the loop's shortest sleep
    Nil                 \* a nil pointer

ASSUME PolicyAssumption ==
    /\ {MinLife, FileCheckInterval, MinBackoff, MaxBackoff, MaxSleep, Second}
           \subseteq Nat \ {0}
    /\ MinBackoff <= MaxBackoff
    /\ Second <= MaxSleep

\* time.Time{}: earlier than any clock reading by at least FileCheckInterval.
ZeroTime == -FileCheckInterval

Renewable == "renewable"

-----------------------------------------------------------------------------
(* Whose ticket is it?                                                     *)

isTGTServer(s) == Len(s.comps) = 2 /\ s.comps[1] = "krbtgt"

isLocalTGT(client, server) ==
    /\ isTGTServer(server)
    /\ server.comps[2] = server.realm
    /\ server.realm = client.realm

-----------------------------------------------------------------------------
(* The lifetime of the held TGT.                                           *)

renewable(c) == Renewable \in c.flags /\ c.renewTill > c.end

expired(c, now) == now >= c.end

remaining(c, now) == c.end - now

canRenew(c, now) == renewable(c) /\ ~expired(c, now)

renewPoint(c) ==
    LET start == IF c.start = ZeroTime THEN c.auth ELSE c.start
    IN  start + (c.end - start) \div 2

renewDue(c, now) == canRenew(c, now) /\ now >= renewPoint(c)

-----------------------------------------------------------------------------
(* The background loop's timer and the retry backoff.                      *)

nextBackoff(b) ==
    IF b = 0 THEN MinBackoff
    ELSE IF 2 * b > MaxBackoff THEN MaxBackoff ELSE 2 * b

nextWakeUncapped(c, now, retryAt) ==
    LET wanted == IF c # Nil /\ canRenew(c, now)
                  THEN IF renewPoint(c) > now THEN renewPoint(c) ELSE retryAt
                  ELSE now + MaxSleep
    IN  IF wanted > now THEN wanted ELSE now + Second

\* c is the held credential, or Nil.
nextWake(c, now, retryAt) ==
    LET wanted == IF c # Nil /\ canRenew(c, now)
                  THEN IF renewPoint(c) > now THEN renewPoint(c) ELSE retryAt
                  ELSE now + MaxSleep
        capped == IF wanted > now + MaxSleep THEN now + MaxSleep ELSE wanted
    IN  IF capped > now THEN capped ELSE now + Second

-----------------------------------------------------------------------------
(* The sweep's verdict on one cached credential, given the held one (or    *)
(* Nil).                                                                   *)

mustEvict(c, held, now) ==
    /\ \/ remaining(c, now) <= 0
       \/ /\ remaining(c, now) < MinLife
          /\ held # Nil
          /\ held.end > c.end
    /\ ~isLocalTGT(c.client, c.server)

=============================================================================
