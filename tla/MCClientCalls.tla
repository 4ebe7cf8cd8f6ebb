--------------------------- MODULE MCClientCalls ----------------------------
(***************************************************************************)
(* Match-credentials for TLC: a service asked for with is_skey set, one    *)
(* whose realm holds the characters that follow the first one's name in    *)
(* its key, so that only escaping tells their keys apart, and the first    *)
(* with an empty client principal, whose key is that of no client.         *)
(***************************************************************************)
EXTENDS ClientCalls

MCSymbols == {"\\", "/", "@", "t", "n", "b", "0", "NUL", "a", "s", "R",
              "enctype=", "skey", "second=", "17", "18"}

name(comps) == [comps |-> comps, realm |-> <<"R">>]
nobody == [comps |-> <<>>, realm |-> <<>>]
two == name(<<<<"a">>, <<"b">>>>)
one == name(<<<<"a", "/", "b">>>>)

match(client, server, skey) == [client |-> client, server |-> server, enctype |-> Nil,
                                isSKey |-> skey, second |-> Nil]

oddRealm == [two EXCEPT !.realm = <<"R", "NUL", "skey">>]

MCMatchCreds == {match(Nil, two, TRUE), match(Nil, oddRealm, FALSE), match(nobody, two, TRUE)}
MCDefaultRealm == <<"R">>

Symmetry == Permutations(Callers) \cup Permutations(Flights) \cup Permutations(Values)

MCKeys == {matchKey(c) : c \in MCMatchCreds}

\* What libkrb5 makes of some names.
ASSUME ParsedNames ==
    /\ krb5_parse_name(<<>>) = [comps |-> <<<<>>>>, realm |-> DefaultRealm]
    /\ krb5_parse_name(<<"a", "/", "b">>) = two
    /\ krb5_parse_name(<<"a", "\\", "/", "b", "@", "R">>) = one
    /\ krb5_parse_name(<<"\\", "t", "t", "/", "/", "\\", "\\", "n", "@", "S", "\\", "@", "\\", "0">>)
          = [comps |-> <<<<"TAB", "t">>, <<>>, <<"\\", "n">>>>, realm |-> <<"S", "@", "NUL">>]

\* Over every combination of the optional fields, the key of match-credentials
\* without an empty principal determines their template; and an empty client is
\* not told apart from none.
someMatches ==
    [client : {Nil, nobody, name(<<<<"a">>>>), two},
     server : {Nil, nobody, name(<<<<"a">>>>), two},
     enctype : {Nil, "17", "18"}, isSKey : BOOLEAN,
     second : {Nil, <<>>, <<"s">>, <<"NUL", "skey">>}]

ASSUME KeysTellTemplatesApart ==
    LET named == {c \in someMatches : ~namesNobody(c)}
    IN  Cardinality({<<matchKey(c), buildMatchTemplate(c)>> : c \in named})
            = Cardinality({matchKey(c) : c \in named})

ASSUME EmptyClientHasNoKeyOfItsOwn ==
    /\ matchKey(match(nobody, two, FALSE)) = matchKey(match(Nil, two, FALSE))
    /\ buildMatchTemplate(match(nobody, two, FALSE)) # buildMatchTemplate(match(Nil, two, FALSE))

=============================================================================
