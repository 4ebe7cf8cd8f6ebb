---------------------------- MODULE MCKrb5Client ----------------------------
(* Small instances of Krb5Client for TLC.                                  *)
EXTENDS Krb5Client, TLC

names == {"A", "B", "X-CACHECONF:", "krbtgt", "alice", "bob", "host", "h", "f",
          "krb5_ccache_conf_data", "x"}
alice == [realm |-> "A", comps |-> <<"alice">>]
bob   == [realm |-> "A", comps |-> <<"bob">>]
host  == [realm |-> "A", comps |-> <<"host", "h">>]
far   == [realm |-> "B", comps |-> <<"host", "f">>]
conf  == [realm |-> "X-CACHECONF:", comps |-> <<"krb5_ccache_conf_data", "x">>]
tgs   == krbtgt("A", "A")

renewableOnly == {{Renewable}}
none == {}
noClient == {Nil}
oneUser == {alice}
twoUsers == {alice, bob}
oneService == {host}
farOrTGT == {far, tgs}
hostOrConf == {host, conf, Nil}
anyServer == {host, tgs, conf, Nil}

Symmetry == Permutations(Procs) \cup Permutations(Ptrs)
=============================================================================
