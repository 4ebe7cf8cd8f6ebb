----------------------------- MODULE SharedPath -----------------------------
(***************************************************************************)
(* Daemon, and another kcmexd that is started on the same socket path: its *)
(* Remove, its Bind, and its end, which unlinks the path too.              *)
(***************************************************************************)
EXTENDS Daemon

VARIABLE other      \* the other kcmexd: "off", "starting" or "on"

sharedVars == <<daemonVars, other>>

SharedInit == DaemonInit /\ other = "off"

OtherRemoves ==
    /\ other = "off"
    /\ other' = "starting"
    /\ sock' = "none"

OtherBinds ==
    /\ other = "starting"
    /\ IF sock = "none" THEN sock' = "other" /\ other' = "on"
                        ELSE other' = "off" /\ UNCHANGED sock

OtherStops ==
    /\ other = "on"
    /\ other' = "off"
    /\ sock' = "none"

OtherStep ==
    /\ OtherRemoves \/ OtherBinds \/ OtherStops
    /\ UNCHANGED <<poolVars, at, code, sig, cancelled, listener>>

SharedNext == OtherStep \/ (DaemonNext /\ UNCHANGED other)

SharedSpec == SharedInit /\ [][SharedNext]_sharedVars

\* listener.go: "any stale socket file left over from a previous run is
\* removed first".  No step of this daemon takes the path away from another
\* one that is serving on it.
RemovesOnlyStale ==
    [][sock = "other" /\ UNCHANGED other => sock' = "other"]_sharedVars

=============================================================================
