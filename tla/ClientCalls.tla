---------------------------- MODULE ClientCalls -----------------------------
(***************************************************************************)
(* How the calls of a Client wait for each other: the critical sections of *)
(* c.mu they go through, one after the other, with the rules of Go's       *)
(* sync.RWMutex, and flightGroup.do, step by step, inside Retrieve's last  *)
(* section.  What the sections do, and which of maintain's are entered, is *)
(* Krb5Client's subject: here that is a free choice.                       *)
(*                                                                         *)
(* Which requests share a flight is decided by matchKey, so the match      *)
(* credentials, UnparseName, matchKey and what buildMatchTemplate makes of *)
(* the same names through krb5_parse_name are modelled as they are.  A     *)
(* string is a sequence of symbols, most of them characters.               *)
(***************************************************************************)
EXTENDS FlightGroup, SequencesExt

CONSTANTS
    Symbols,        \* what strings are made of: characters, and the words of a key
    MatchCreds,     \* the decoded match-credentials requests come with
    DefaultRealm    \* the realm krb5.conf names for principals without one

VARIABLES
    sec,        \* the critical section a caller is in, or waits for
    last,       \* the section after maintain's
    mc,         \* the match-credential of its RETRIEVE
    active,     \* the readers that hold c.mu
    blocked,    \* the readers that wait for a writer
    writer      \* who has announced itself as the next writer, or is writing

lockVars == <<active, blocked, writer>>
callVars == <<vars, sec, last, mc, lockVars>>

-----------------------------------------------------------------------------
(* kcmproto.Principal and the key of a RETRIEVE.                           *)

plain(ch) == <<ch>>

escape(ch) ==
    CASE ch \in {"\\", "/", "@"} -> <<"\\", ch>>
      [] ch = "TAB" -> <<"\\", "t">>
      [] ch = "LF" -> <<"\\", "n">>
      [] ch = "BS" -> <<"\\", "b">>
      [] ch = "NUL" -> <<"\\", "0">>
      [] OTHER -> <<ch>>

escapeComponent(s) == FlattenSeq([i \in DOMAIN s |-> escape(s[i])])

UnparseName(p) ==
    FlattenSeq([i \in DOMAIN p.comps |->
                   (IF i > 1 THEN <<"/">> ELSE <<>>) \o escapeComponent(p.comps[i])])
    \o (IF p.realm = <<>> THEN <<>> ELSE <<"@">> \o escapeComponent(p.realm))

\* A match-credential, as far as buildMatchTemplate uses it: client, server,
\* enctype and second are Nil when the field is absent.  The key of an absent
\* principal is the name of the empty one.
nameKey(p) == IF p = Nil THEN <<>> ELSE UnparseName(p)

matchKey(c) ==
    nameKey(c.client) \o (<<"NUL">> \o (nameKey(c.server) \o (
       (IF c.enctype = Nil THEN <<>> ELSE <<"NUL", "enctype=", c.enctype>>) \o (
          (IF c.isSKey THEN <<"NUL", "skey">> ELSE <<>>) \o
             (IF c.second \in {Nil, <<>>} THEN <<>> ELSE <<"NUL", "second=">> \o c.second)))))

\* krb5_parse_name, for the names UnparseName gives it.  A name without a
\* realm is of the default realm, and the empty name has one, empty, component.
unescape(ch) ==
    CASE ch = "t" -> "TAB" [] ch = "n" -> "LF" [] ch = "b" -> "BS" [] ch = "0" -> "NUL"
      [] OTHER -> ch

krb5_parse_name(name) ==
    LET toLast(parts, ch) == [parts EXCEPT ![Len(parts)] = Append(@, ch)]
        take(s, ch) ==
            CASE s.quoted -> [s EXCEPT !.quoted = FALSE, !.parts = toLast(@, unescape(ch))]
              [] ~s.quoted /\ ch = "\\" -> [s EXCEPT !.quoted = TRUE]
              [] ~s.quoted /\ ch \in {"/", "@"} ->
                    [s EXCEPT !.parts = Append(@, <<>>), !.inRealm = @ \/ ch = "@"]
              [] OTHER -> [s EXCEPT !.parts = toLast(@, ch)]
        end == FoldLeft(take, [parts |-> <<<<>>>>, quoted |-> FALSE, inRealm |-> FALSE], name)
    IN  IF end.inRealm
        THEN [comps |-> Front(end.parts), realm |-> Last(end.parts)]
        ELSE [comps |-> end.parts, realm |-> DefaultRealm]

buildPrincipal(p) == krb5_parse_name(UnparseName(p))

\* What buildMatchTemplate gives libkrb5; Nil if it returns an error.  A client
\* of Nil is the cache's own principal.
buildMatchTemplate(c) ==
    IF c.server = Nil THEN Nil
    ELSE [client  |-> IF c.client = Nil THEN Nil ELSE buildPrincipal(c.client),
          server  |-> buildPrincipal(c.server),
          enctype |-> c.enctype,
          is_skey |-> c.isSKey,
          second  |-> IF c.second = <<>> THEN Nil ELSE c.second]

\* The decoded fields, Nil for what is absent.
Principal == [comps : Seq(Seq(Symbols)), realm : Seq(Symbols)]

MatchCredential ==
    [client : Principal \cup {Nil}, server : Principal \cup {Nil},
     enctype : Symbols \cup {Nil}, isSKey : BOOLEAN, second : Seq(Symbols) \cup {Nil}]

ASSUME CallsAssumption ==
    /\ {"\\", "/", "@", "t", "n", "b", "0", "NUL", "enctype=", "skey", "second="} \subseteq Symbols
    /\ DefaultRealm \in Seq(Symbols)
    /\ MatchCreds \subseteq MatchCredential
    /\ Keys = {matchKey(c) : c \in MatchCreds}
    /\ Nil \notin Callers

-----------------------------------------------------------------------------
(* sync.RWMutex: a writer that has announced itself keeps new readers out, *)
(* writes once the readers before it are gone, and lets those that came    *)
(* meanwhile in before the next writer.                                    *)

writing(p) == writer = p /\ active = {}

RLock(p) ==
    /\ p \notin active \cup blocked
    /\ IF writer = Nil
       THEN active' = active \cup {p} /\ UNCHANGED blocked
       ELSE blocked' = blocked \cup {p} /\ UNCHANGED active
    /\ UNCHANGED writer

RUnlock(p) ==
    /\ p \in active
    /\ active' = active \ {p}
    /\ UNCHANGED <<blocked, writer>>

Lock(p) ==
    /\ writer = Nil
    /\ writer' = p
    /\ UNCHANGED <<active, blocked>>

Unlock(p) ==
    /\ writing(p)
    /\ writer' = Nil
    /\ active' = blocked
    /\ blocked' = {}

-----------------------------------------------------------------------------
(* The critical sections, and how they follow each other.                  *)

\* reload, renew and install, and the whole of Store, Initialize and the two
\* removals, take the lock for writing.
writes == {"reload", "renew", "install", "change"}
reads == {"check", "warn", "sweep", "do", "list", "read", "wake"}

\* maintain, then what the call is for.
follows(p) ==
    CASE sec[p] = "check" -> {"reload", "renew", "sweep"}
      [] sec[p] = "reload" -> {"renew", "sweep"}
      [] sec[p] = "renew" -> {"install", "sweep"}
      [] sec[p] = "install" -> {"warn", "sweep"}
      [] sec[p] = "warn" -> {"sweep"}
      [] sec[p] = "sweep" -> {last[p]}
      [] OTHER -> {"idle"}

CallsInit ==
    /\ Init
    /\ sec = [p \in Callers |-> "idle"]
    /\ last = [p \in Callers |-> Nil]
    /\ mc = [p \in Callers |-> Nil]
    /\ active = {} /\ blocked = {} /\ writer = Nil

\* Retrieve; ListEntries and EntryByUUID; a round of Run, which looks at the
\* TGT once more to set its timer.
BeginMaintained(p) ==
    /\ sec[p] = "idle"
    /\ \/ \E c \in MatchCreds : mc' = [mc EXCEPT ![p] = c] /\ last' = [last EXCEPT ![p] = "do"]
       \/ \E l \in {"list", "wake"} : last' = [last EXCEPT ![p] = l] /\ UNCHANGED mc
    /\ sec' = [sec EXCEPT ![p] = "check"]
    /\ UNCHANGED <<vars, lockVars>>

\* DefaultPrincipal and TGT; Store, Initialize, RemoveMatching, RemoveByUUID.
BeginSingle(p) ==
    /\ sec[p] = "idle"
    /\ \E l \in {"read", "change"} : sec' = [sec EXCEPT ![p] = l]
    /\ UNCHANGED <<vars, last, mc, lockVars>>

EnterRead(p) ==
    /\ sec[p] \in reads
    /\ RLock(p)
    /\ UNCHANGED <<vars, sec, last, mc>>

EnterWrite(p) ==
    /\ sec[p] \in writes
    /\ Lock(p)
    /\ UNCHANGED <<vars, sec, last, mc>>

withoutLock(p) == sec[p] = "do" /\ pc[p] = "idle"

mayFly(p) == sec[p] = "do" /\ pc[p] = "idle" /\ p \in active

\* c.flights.do: the calls of FlightGroup.
Do(p) ==
    /\ \/ mayFly(p) /\ (Join(p, matchKey(mc[p])) \/ Start(p, matchKey(mc[p])))
       \/ Run(p) \/ Delete(p) \/ CloseDone(p) \/ Wait(p)
    /\ UNCHANGED <<sec, last, mc, lockVars>>

Leave(p) ==
    /\ \E l \in follows(p) :
          /\ sec' = [sec EXCEPT ![p] = l]
          /\ last' = [last EXCEPT ![p] = IF l = "idle" THEN Nil ELSE @]
          /\ mc' = [mc EXCEPT ![p] = IF l = "idle" THEN Nil ELSE @]
    /\ IF sec[p] \in reads THEN RUnlock(p) ELSE Unlock(p)

\* The end of a section.  Retrieve's ends with do's result, or before it when
\* there is no usable TGT.
LeaveSection(p) ==
    /\ pc[p] = "idle"
    /\ Leave(p)
    /\ UNCHANGED vars

LeaveDo(p) ==
    /\ Return(p)
    /\ Leave(p)

CallsNext ==
    \E p \in Callers :
        \/ BeginMaintained(p) \/ BeginSingle(p)
        \/ EnterRead(p) \/ EnterWrite(p)
        \/ Do(p)
        \/ LeaveSection(p) \/ LeaveDo(p)

CallsSpec == CallsInit /\ [][CallsNext]_callVars

-----------------------------------------------------------------------------
(* Properties.                                                             *)

\* No call changes the TGT or the cache's principal while a RETRIEVE is in
\* flight: whoever runs, or waits for, a flight does so with the read lock.
NoChangeInFlight ==
    \A p, q \in Callers : writing(p) => pc[q] = "idle"

\* A match-credential that carries a principal whose name is empty: neither
\* components (but for an empty one) nor a realm.
namesNobody(c) == \E p \in {c.client, c.server} \ {Nil} : UnparseName(p) = <<>>

\* Requests share an answer only if they build the same match template,
\* whatever characters their names have, which fields they carry and when they
\* come; but for those with an empty principal, which have the key of requests
\* that leave the principal out and yet not their template.
SharedAnswerFits ==
    \A p, q \in Callers :
        p # q /\ f[p] # Nil /\ f[p] = f[q] =>
            \/ buildMatchTemplate(mc[p]) = buildMatchTemplate(mc[q])
            \/ namesNobody(mc[p]) \/ namesNobody(mc[q])

\* Whom a caller waits for: a blocked reader for the writer, a writer for the
\* readers before it or for the writer before it, and a joiner for the leader.
waitsFor(p) ==
    CASE p \in blocked -> {writer}
      [] writer = p -> active
      [] sec[p] \in writes /\ writer \notin {Nil, p} -> {writer}
      [] pc[p] = "wait" /\ ~isDone(f[p]) -> {q \in leading : f[q] = f[p]}
      [] OTHER -> {}

\* Callers never wait for each other in a circle, although joiners hold the
\* read lock while they wait and a writer that waits keeps readers out.
NoWaitCycle ==
    \A S \in (SUBSET Callers) \ {{}} : \E p \in S : waitsFor(p) \cap S = {}

=============================================================================
