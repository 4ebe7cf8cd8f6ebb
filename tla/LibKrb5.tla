------------------------------ MODULE LibKrb5 -------------------------------
(***************************************************************************)
(* What internal/krb5c relies on from outside the repository: libkrb5's    *)
(* MEMORY: credential cache and the KDC.  Everything here is external and  *)
(* is modelled from the calls in src/ and the behaviour their comments     *)
(* state.  A cache's contents are a set of credentials: the order of the   *)
(* list is left open, so a lookup may return any match.                    *)
(***************************************************************************)
EXTENDS TicketPolicy

\* krbtgt/to@realm: the local TGT's server when the two are the same.
krbtgt(to, realm) == [realm |-> realm, comps |-> <<"krbtgt", to>>]

\* krb5_is_config_principal: the ccache's pseudo-entries live in their own realm.
isConfigPrincipal(s) == s.realm = "X-CACHECONF:"

-----------------------------------------------------------------------------
(* The MEMORY: cache.                                                      *)

samePrincipals(c, d) == c.client = d.client /\ c.server = d.server

sameTimes(c, d) ==
    /\ c.auth = d.auth /\ c.start = d.start
    /\ c.end = d.end   /\ c.renewTill = d.renewTill

cc_store_cred(cs, c) == cs \cup {c}

\* krb5_cc_remove_cred with flags 0: whatever has the template's principals.
cc_remove_cred(cs, client, server) ==
    {c \in cs : ~(c.client = client /\ c.server = server)}

\* krb5_cc_remove_cred with KRB5_TC_MATCH_TIMES_EXACT.
cc_remove_exact(cs, c) ==
    {d \in cs : ~(samePrincipals(c, d) /\ sameTimes(c, d))}

\* The lookup inside krb5_get_credentials skips what has expired.
cc_lookup(cs, client, server, t) ==
    {c \in cs : c.client = client /\ c.server = server /\ ~expired(c, t)}

-----------------------------------------------------------------------------
(* The KDC.                                                                *)

min(a, b) == IF a <= b THEN a ELSE b

\* A TGT as kinit obtains it at time t.
newTGT(client, t, life, renewLife, flags) ==
    [client |-> client, server |-> krbtgt(client.realm, client.realm),
     auth |-> t, start |-> t, end |-> t + life,
     renewTill |-> IF Renewable \in flags THEN t + renewLife ELSE ZeroTime,
     flags |-> flags]

\* A service ticket issued at t under TGT g: no explicit end time is asked
\* for, and libkrb5 copies the TGT's renewable flag into the request.
newTicket(g, server, t, life) ==
    [client |-> g.client, server |-> server,
     auth |-> g.auth, start |-> t, end |-> min(t + life, g.end),
     renewTill |-> IF Renewable \in g.flags THEN g.renewTill ELSE ZeroTime,
     flags |-> g.flags]

\* What a TGS exchange for server leaves in the cache besides the ticket: the
\* cross-realm TGT libkrb5 obtained on the way to a foreign service.
referrals(g, server, t, life) ==
    {newTicket(g, krbtgt(r, g.client.realm), t, life) :
        r \in {server.realm} \ {g.client.realm}}

\* The KDC renews only a renewable ticket that is still valid.  The renewed
\* one starts now, has the old one's length and is capped at renew_till.
kdcRenews(g, t) == Renewable \in g.flags /\ ~expired(g, t) /\ t < g.renewTill

renewedTGT(g, t) ==
    [g EXCEPT !.start = t, !.end = min(t + (g.end - g.start), g.renewTill)]

=============================================================================
