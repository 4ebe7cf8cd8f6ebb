---------------------------- MODULE FlightGroup -----------------------------
(***************************************************************************)
(* flightGroup.do of internal/krb5c/flight.go, one step per critical       *)
(* section of g.mu, channel operation and call of fn.  Krb5Client uses its *)
(* effect in one step; here deleting the key and closing the channel are   *)
(* apart, and a new flight for the key can start in between.               *)
(***************************************************************************)
EXTENDS Naturals, FiniteSets

CONSTANTS
    Callers,    \* goroutines calling do
    Keys,       \* match keys
    Flights,    \* addresses of flight records
    Values,     \* what fn may return, its error included
    Nil

ASSUME FlightAssumption == Nil \notin Keys \cup Flights \cup Values

VARIABLES
    m,          \* g.m
    done,       \* the flights whose channel is closed
    val,        \* f.val and f.err; Nil until written
    pc, key,    \* of each caller
    f,          \* the flight it leads or waits for
    answer      \* what do returned to it

vars == <<m, done, val, pc, key, f, answer>>

-----------------------------------------------------------------------------

Init ==
    /\ m = [k \in Keys |-> Nil]
    /\ done = {}
    /\ val = [x \in Flights |-> Nil]
    /\ pc = [p \in Callers |-> "idle"]
    /\ key = [p \in Callers |-> Nil]
    /\ f = [p \in Callers |-> Nil]
    /\ answer = [p \in Callers |-> Nil]

\* A flight nobody refers to any more is garbage, and may be allocated again.
unused == {x \in Flights : (\A k \in Keys : m[k] # x) /\ (\A p \in Callers : f[p] # x)}

alwaysInFlight(k) == TRUE
neverInFlight(k) == FALSE

\* f, ok := g.m[key]
inFlight(k) == m[k] # Nil

\* The first critical section: join the flight of the key, or start one.
Join(p, k) ==
    /\ pc[p] = "idle"
    /\ inFlight(k)
    /\ key' = [key EXCEPT ![p] = k]
    /\ f' = [f EXCEPT ![p] = m[k]]
    /\ pc' = [pc EXCEPT ![p] = "wait"]
    /\ UNCHANGED <<m, done, val, answer>>

Start(p, k) ==
    /\ pc[p] = "idle"
    /\ ~inFlight(k)
    /\ \E x \in unused :
          /\ m' = [m EXCEPT ![k] = x]
          /\ f' = [f EXCEPT ![p] = x]
          /\ done' = done \ {x}
          /\ val' = [val EXCEPT ![x] = Nil]
    /\ key' = [key EXCEPT ![p] = k]
    /\ pc' = [pc EXCEPT ![p] = "run"]
    /\ UNCHANGED answer

\* fn returns.
Run(p) ==
    /\ pc[p] = "run"
    /\ \E v \in Values : val' = [val EXCEPT ![f[p]] = v]
    /\ pc' = [pc EXCEPT ![p] = "delete"]
    /\ UNCHANGED <<m, done, key, f, answer>>

\* The second critical section.
Delete(p) ==
    /\ pc[p] = "delete"
    /\ m' = [m EXCEPT ![key[p]] = Nil]
    /\ pc' = [pc EXCEPT ![p] = "close"]
    /\ UNCHANGED <<done, val, key, f, answer>>

leaveOpen(x) == UNCHANGED done

closeDone(x) == done' = done \cup {x}

\* close(f.done), and the leader returns.
CloseDone(p) ==
    /\ pc[p] = "close"
    /\ closeDone(f[p])
    /\ answer' = [answer EXCEPT ![p] = val[f[p]]]
    /\ pc' = [pc EXCEPT ![p] = "return"]
    /\ UNCHANGED <<m, val, key, f>>

isDoneAtOnce(x) == TRUE

isDone(x) == x \in done

\* <-f.done, and the joiner returns.
Wait(p) ==
    /\ pc[p] = "wait"
    /\ isDone(f[p])
    /\ answer' = [answer EXCEPT ![p] = val[f[p]]]
    /\ pc' = [pc EXCEPT ![p] = "return"]
    /\ UNCHANGED <<m, done, val, key, f>>

Return(p) ==
    /\ pc[p] = "return"
    /\ pc' = [pc EXCEPT ![p] = "idle"]
    /\ key' = [key EXCEPT ![p] = Nil]
    /\ f' = [f EXCEPT ![p] = Nil]
    /\ answer' = [answer EXCEPT ![p] = Nil]
    /\ UNCHANGED <<m, done, val>>

Step(p) == Run(p) \/ Delete(p) \/ CloseDone(p) \/ Wait(p) \/ Return(p)

Next == \E p \in Callers : Step(p) \/ \E k \in Keys : Join(p, k) \/ Start(p, k)

Spec == Init /\ [][Next]_vars

-----------------------------------------------------------------------------
(* Properties.                                                             *)

leading == {p \in Callers : pc[p] \in {"run", "delete", "close"}}

\* Every part of the group and of its callers keeps its type, and a caller in
\* do has a key and a flight.
TypeOK ==
    /\ m \in [Keys -> Flights \cup {Nil}]
    /\ done \in SUBSET Flights
    /\ val \in [Flights -> Values \cup {Nil}]
    /\ pc \in [Callers -> {"idle", "run", "delete", "close", "wait", "return"}]
    /\ key \in [Callers -> Keys \cup {Nil}]
    /\ f \in [Callers -> Flights \cup {Nil}]
    /\ answer \in [Callers -> Values \cup {Nil}]
    /\ \A p \in Callers : pc[p] # "idle" => key[p] # Nil /\ f[p] # Nil

\* fn never runs twice at once for a key.
OneRunPerKey ==
    \A p, q \in Callers :
        pc[p] = "run" /\ pc[q] = "run" /\ key[p] = key[q] => p = q

\* A caller returns the result its own flight ended with, and never before it
\* is complete: the flight's record is not reused or still unwritten when its
\* joiners read it, even if a new flight for the key is already under way.
AnswersAreComplete ==
    \A p \in Callers : pc[p] = "return" => answer[p] # Nil /\ answer[p] = val[f[p]]

\* Whoever waits, waits for a flight that has landed or that exactly one
\* caller, for the same key, still leads.
WaitersHaveALeader ==
    \A p \in Callers : pc[p] = "wait" =>
        \/ f[p] \in done
        \/ \E q \in leading : f[q] = f[p] /\ key[q] = key[p]

=============================================================================
