------------------------------- MODULE Daemon -------------------------------
(***************************************************************************)
(* kcmexd around the pool of ContextPool: run of cmd/kcmexd/main.go once   *)
(* krb5c.Open has succeeded, Listen of internal/server/listener.go, Serve, *)
(* handleConn and the Client calls of dispatch in internal/server/server.go*)
(* and the loop Run of internal/krb5c/tgt.go.                              *)
(*                                                                         *)
(* A goroutine that calls a Client method goes through the pool: its place *)
(* outside is in at, its place in acquire and release in pc.  What the     *)
(* method does while it holds a context is Krb5Client's subject.           *)
(***************************************************************************)
EXTENDS ContextPool

CONSTANTS
    Main,       \* the goroutine of run
    Loop,       \* the one of krb.Run
    Conns       \* one per connection, reused after it is closed

ASSUME DaemonAssumption ==
    /\ Main # Loop
    /\ {Main, Loop} \cap Conns = {}
    /\ Workers = Conns \cup {Main, Loop}

VARIABLES
    at,         \* where each goroutine is; of a connection, also "none"
    code,       \* what run returns
    sig,        \* SIGINT or SIGTERM: "none", "pending" in sigCh, "handled"
    cancelled,  \* stopMaint has been called
    listener,   \* "none", "open" or "closed"
    sock        \* what the path names: "none", "mine", or "stale"

poolVars == <<sem, free, closed, live, pc, ctx, drained, closer>>
outside == <<code, sig, cancelled, listener, sock>>
daemonVars == <<poolVars, at, outside>>

\* The Client calls dispatch makes for one request: "op" stands for the one
\* of every request that makes a single one.
Calls == {"op", "DestroyPrincipal", "DestroyInitialize", "ErrorMessage"}

-----------------------------------------------------------------------------

\* Whatever an earlier run has left at the path.
DaemonInit ==
    /\ Init
    /\ at = [p \in Workers |->
                CASE p = Main -> "hello" [] p = Loop -> "off" [] OTHER -> "none"]
    /\ code = 0
    /\ sig = "none"
    /\ cancelled = FALSE
    /\ listener = "none"
    /\ sock \in {"none", "stale"}

alive == at[Main] \notin {"exited", "killed"}

Goto(p, l) == at' = [at EXCEPT ![p] = l]

-----------------------------------------------------------------------------
(* Client calls, through the pool.                                         *)

callsClient(p) ==
    CASE p = Main -> at[p] = "hello"
      [] p = Loop -> at[p] = "round"
      [] OTHER -> at[p] \in Calls

\* What dispatch does after a call that succeeded, or failed.  A reply with
\* an error code asks the pool again for the text that is logged, at every
\* log level: log.Debug's arguments are evaluated before it decides.
afterCall(l, ok) ==
    CASE l = "op" /\ ~ok -> "ErrorMessage"
      [] l = "DestroyPrincipal" /\ ok -> "DestroyInitialize"
      [] OTHER -> "write"

returnsTo(p, ok) ==
    CASE p = Main -> "spawn"
      [] p = Loop -> "wait"
      [] OTHER -> afterCall(at[p], ok)

BeginCall(p) ==
    /\ callsClient(p)
    /\ AcquireSlot(p)
    /\ UNCHANGED <<at, outside>>

InCall(p) ==
    /\ Take(p) \/ Create(p) \/ Finish(p) \/ Put(p)
    /\ UNCHANGED <<at, outside>>

EndCall(p) ==
    /\ \/ Drop(p) /\ \E ok \in BOOLEAN : Goto(p, returnsTo(p, ok))
       \/ CreateFails(p) /\ Goto(p, returnsTo(p, FALSE))
    /\ UNCHANGED outside

-----------------------------------------------------------------------------
(* run: start-up.  Every failure returns 1 through the deferred calls.     *)

MainGoes(from, to) == at[Main] = from /\ Goto(Main, to)

Fail(from) ==
    /\ MainGoes(from, "stop")
    /\ code' = 1

Spawn ==
    /\ at[Main] = "spawn"
    /\ at' = [at EXCEPT ![Main] = "mkdir", ![Loop] = "round"]
    /\ UNCHANGED <<poolVars, outside>>

MkdirAll ==
    /\ \/ MainGoes("mkdir", "remove") /\ UNCHANGED code
       \/ Fail("mkdir")
    /\ UNCHANGED <<poolVars, sig, cancelled, listener, sock>>

\* os.Remove takes away whatever is there.
Remove ==
    /\ \/ MainGoes("remove", "bind") /\ sock' = "none" /\ UNCHANGED code
       \/ Fail("remove") /\ UNCHANGED sock
    /\ UNCHANGED <<poolVars, sig, cancelled, listener>>

Bind ==
    /\ \/ /\ MainGoes("bind", "chmod")
          /\ sock = "none"
          /\ sock' = "mine"
          /\ listener' = "open"
          /\ UNCHANGED code
       \/ Fail("bind") /\ UNCHANGED <<sock, listener>>
    /\ UNCHANGED <<poolVars, sig, cancelled>>

\* Closing a listener unlinks its path first, whatever is there by then, and
\* resets the connections nobody has accepted.
CloseListener ==
    /\ listener' = "closed"
    /\ sock' = "none"

resetBacklog(c) == IF c \in Conns /\ at[c] = "backlog" THEN "none" ELSE at[c]

Chmod ==
    /\ \/ MainGoes("chmod", "notify") /\ UNCHANGED <<code, listener, sock>>
       \/ /\ at[Main] = "chmod"
          /\ at' = [p \in Workers |-> IF p = Main THEN "stop" ELSE resetBacklog(p)]
          /\ code' = 1
          /\ CloseListener
    /\ UNCHANGED <<poolVars, sig, cancelled>>

Notify ==
    /\ MainGoes("notify", "serve")
    /\ UNCHANGED <<poolVars, outside>>

-----------------------------------------------------------------------------
(* Serve, and the way out: the deferred calls in their order.              *)

Accept(c) ==
    /\ at[Main] = "serve"
    /\ listener = "open"
    /\ at[c] = "backlog"
    /\ Goto(c, "check")
    /\ UNCHANGED <<poolVars, outside>>

\* A closed listener ends Serve without an error; any other error of accept
\* ends it too.
ServeReturns ==
    /\ MainGoes("serve", "stop")
    /\ listener = "closed"
    /\ UNCHANGED <<poolVars, outside>>

AcceptFails ==
    /\ Fail("serve")
    /\ listener = "open"
    /\ UNCHANGED <<poolVars, sig, cancelled, listener, sock>>

cancel == cancelled' = TRUE

StopMaint ==
    /\ MainGoes("stop", "join")
    /\ cancel
    /\ UNCHANGED <<poolVars, code, sig, listener, sock>>

dontJoin == TRUE
maintDone == at[Loop] = "stopped"

Join ==
    /\ MainGoes("join", "close")
    /\ maintDone
    /\ UNCHANGED <<poolVars, outside>>

CloseClient ==
    /\ at[Main] = "close"
    /\ CloserStep
    /\ UNCHANGED <<at, outside>>

\* What this process leaves at the path when it ends.
leave == sock' = IF sock = "mine" THEN "stale" ELSE sock

exitEarly == closer = "range"
clientClosed == closer = "closed"

Exit ==
    /\ MainGoes("close", "exited")
    /\ clientClosed
    /\ leave
    /\ UNCHANGED <<poolVars, code, sig, cancelled, listener>>

-----------------------------------------------------------------------------
(* The signal goroutine, and the ways a process ends without one.          *)

notified == at[Main] \notin {"hello", "spawn", "mkdir", "remove", "bind", "chmod", "notify"}

HandleSignal ==
    /\ sig = "pending"
    /\ listener = "open"
    /\ sig' = "handled"
    /\ CloseListener
    /\ at' = [p \in Workers |-> resetBacklog(p)]
    /\ UNCHANGED <<poolVars, code, cancelled>>

\* run has not returned after Notify without a listener, so one is open.
Signal ==
    /\ listener = "open"
    /\ notified
    /\ sig = "none"
    /\ sig' = "pending"
    /\ UNCHANGED <<poolVars, at, code, cancelled, listener, sock>>

\* Before Notify a signal has its default effect.  (SIGKILL, or a crash, just
\* ends the behaviour at any point and leaves the path as DaemonInit finds it.)
Kill ==
    /\ ~notified
    /\ Goto(Main, "killed")
    /\ leave
    /\ UNCHANGED <<poolVars, code, sig, cancelled, listener>>

-----------------------------------------------------------------------------
(* The loop of Run: a round of maintenance, then the select.               *)

Timer ==
    /\ at[Loop] = "wait"
    /\ Goto(Loop, "round")
    /\ UNCHANGED <<poolVars, outside>>

Done ==
    /\ at[Loop] = "wait"
    /\ cancelled
    /\ Goto(Loop, "stopped")
    /\ UNCHANGED <<poolVars, outside>>

-----------------------------------------------------------------------------
(* handleConn.                                                             *)

\* connect(2) succeeds as soon as the socket is bound.
Connect(c) ==
    /\ sock = "mine"
    /\ at[c] = "none"
    /\ Goto(c, "backlog")
    /\ UNCHANGED <<poolVars, outside>>

\* peerUID: the owner, or somebody else, or unknown.
Check(c) ==
    /\ at[c] = "check"
    /\ \E l \in {"read", "none"} : Goto(c, l)
    /\ UNCHANGED <<poolVars, outside>>

\* ReadMessage and dispatch as far as the first Client call: none for what is
\* malformed, unsupported or about the cache's name; ErrorMessage for what
\* handle refuses by itself.  (At debug level a STORE makes one more call,
\* SummarizeCredential, before its own.)  A peer that is gone, or a framing
\* error, ends the connection.
Read(c) ==
    /\ at[c] = "read"
    /\ \E l \in {"write", "ErrorMessage", "op", "DestroyPrincipal", "none"} : Goto(c, l)
    /\ UNCHANGED <<poolVars, outside>>

\* WriteReply, which may fail; a peer that does not read may keep it waiting.
Write(c) ==
    /\ at[c] = "write"
    /\ \E l \in {"read", "none"} : Goto(c, l)
    /\ UNCHANGED <<poolVars, outside>>

-----------------------------------------------------------------------------

MainRuns ==
    \/ Spawn \/ MkdirAll \/ Remove \/ Bind \/ Chmod \/ Notify
    \/ ServeReturns \/ StopMaint \/ Join \/ Exit

Scheduled(p) == InCall(p) \/ EndCall(p)

DaemonNext ==
    alive /\ \/ MainRuns \/ AcceptFails \/ CloseClient
             \/ HandleSignal \/ Signal \/ Kill
             \/ Timer \/ Done
             \/ \E p \in Workers : BeginCall(p) \/ Scheduled(p)
             \/ \E c \in Conns : Accept(c) \/ Connect(c) \/ Check(c) \/ Read(c) \/ Write(c)

DaemonSpec == DaemonInit /\ [][DaemonNext]_daemonVars

\* Goroutines are scheduled, libkrb5's exchanges end, senders blocked on a
\* channel are served in their order, and a select that finds both of its
\* channels ready again and again takes each of them at some point.  Nothing
\* makes a peer connect, send or read, and nothing makes a signal come.
DaemonFairSpec ==
    /\ DaemonSpec
    /\ WF_daemonVars(alive /\ MainRuns)
    /\ SF_daemonVars(alive /\ CloseClient)
    /\ WF_daemonVars(alive /\ HandleSignal)
    /\ WF_daemonVars(alive /\ Timer)
    /\ SF_daemonVars(alive /\ Done)
    /\ \A p \in {Main, Loop} : SF_daemonVars(alive /\ BeginCall(p))
    /\ \A p \in Workers : WF_daemonVars(alive /\ Scheduled(p))

-----------------------------------------------------------------------------
(* Properties.                                                             *)

OutsideTypeOK ==
    /\ at \in [Workers -> Calls \cup
          {"none", "backlog", "check", "read", "write", "off", "round", "wait", "stopped",
           "hello", "spawn", "mkdir", "remove", "bind", "chmod", "notify", "serve",
           "stop", "join", "close", "exited", "killed"}]
    /\ code \in {0, 1}
    /\ sig \in {"none", "pending", "handled"}
    /\ cancelled \in BOOLEAN
    /\ listener \in {"none", "open", "closed"}
    /\ sock \in {"none", "stale", "mine"}

\* The pool and the daemon around it keep their types.
DaemonTypeOK == TypeOK /\ OutsideTypeOK

\* main.go: the loop "must be stopped before krb.Close() (deferred above)
\* tears down the context", on every path out of run.
LoopStopsBeforeClose == closer # "open" => at[Loop] = "stopped"

\* README.md: "The daemon shuts down cleanly on SIGINT or SIGTERM".  However
\* run returns, every context has been freed and no goroutine is left with
\* one; it returns 0 only after a signal, and then its socket is gone.
CleanExit ==
    at[Main] = "exited" =>
        /\ live = {}
        /\ \A p \in Workers : ctx[p] = Nil
        /\ code = 0 => sig = "handled" /\ sock # "stale"

\* A signal ends the daemon, whatever its clients do: requests being served
\* and the loop's round are waited for, idle connections, queued requests and
\* peers that do not read their replies are not.
ExitsAfterSignal == sig = "pending" ~> ~alive

=============================================================================
