--------------------------- MODULE MCMetisControl ---------------------------
(***************************************************************************)
(* Command lines for MetisControl: the help texts' own examples and their *)
(* malformed neighbours.  Each token is given the character classes,       *)
(* address family, atoi value and MAC parse of the string it stands for.   *)
(***************************************************************************)
EXTENDS MetisControl, TLC

A == "alpha"
D == "digit"
O == "other"

\* token -> its characters' classes
MCChars ==
    ("add" :> <<A,A,A>>) @@ ("connection" :> <<A,A,A,A,A,A,A,A,A,A>>)
    @@ ("tcp" :> <<A,A,A>>) @@ ("udp" :> <<A,A,A>>)
    @@ ("ether" :> <<A,A,A,A,A>>) @@ ("mcast" :> <<A,A,A,A,A>>)
    @@ ("conn1" :> <<A,A,A,A,D>>) @@ ("1conn" :> <<D,A,A,A,A>>)
    @@ ("conn_1" :> <<A,A,A,A,O,D>>)
    @@ ("1.1.1.1" :> <<D,O,D,O,D,O,D>>) @@ ("2.2.2.2" :> <<D,O,D,O,D,O,D>>)
    @@ ("fe80::1" :> <<A,A,D,D,O,O,D>>) @@ ("nohost" :> <<A,A,A,A,A,A>>)
    @@ ("1200" :> <<D,D,D,D>>) @@ ("x12" :> <<A,D,D>>)
    @@ ("0.0.0.0" :> <<D,O,D,O,D,O,D>>) @@ ("0" :> <<D>>)
    @@ ("e8-06-88-cd-28-de" :> <<A,D,O,D,D,O,D,D,O,A,A,O,D,D,O,A,A>>)
    @@ ("zz" :> <<A,A>>) @@ ("eth0" :> <<A,A,A,D>>) @@ ("" :> << >>)
    @@ ("help" :> <<A,A,A,A>>)

MCResolve ==
    [t \in DOMAIN MCChars |->
        CASE t \in {"1.1.1.1", "2.2.2.2", "0.0.0.0"} -> "inet"
          [] t = "fe80::1"                          -> "inet6"
          [] OTHER                                   -> "none"]

\* atoi: the value of the leading digits, 0 if there are none
MCAtoi ==
    [t \in DOMAIN MCChars |->
        CASE t = "1200" -> 1200 [] t = "1.1.1.1" -> 1 [] t = "2.2.2.2" -> 2
          [] t = "1conn" -> 1 [] OTHER -> 0]

MCIsMac == [t \in DOMAIN MCChars |-> t = "e8-06-88-cd-28-de"]

Symbolics == {"conn1", "1conn", "conn_1"}

\* add connection tcp|udp <symbolic> <remote> <port> [<local> [<port>]]
IPCommands ==
    UNION {{<<"add", "connection", proto, sym, r, port>> \o opt :
              opt \in {<< >>, <<"2.2.2.2">>, <<"fe80::1">>,
                       <<"2.2.2.2", "1200">>, <<"nohost", "1200">>}} :
           proto \in {"tcp", "udp"}, sym \in Symbolics,
           r \in {"1.1.1.1", "fe80::1", "nohost"}, port \in {"1200", "x12"}}
    \cup {<<"add", "connection", "tcp", "conn1", "1.1.1.1">>}

\* add connection ether <symbolic> <mac> <interface>
EtherCommands ==
    {<<"add", "connection", "ether", sym, mac>> \o opt :
        sym \in {"conn1", "1conn"}, mac \in {"e8-06-88-cd-28-de", "zz"},
        opt \in {<< >>, <<"eth0">>, <<"">>}}
    \cup {<<"add", "connection", "ether", "conn1">>}

\* help [add connection [<protocol>]] and "add connection" with no protocol
HelpCommands ==
    {<<"help", "add", "connection">>, <<"add", "connection">>,
     <<"add", "connection", "conn1">>}
    \cup {<<"help", "add", "connection", p>> : p \in {"tcp", "udp", "mcast", "ether"}}

\* no options, a keystore and its password, -h, and an unknown option
MCOptionSets == {{}, {"-k", "-p"}, {"-h"}, {"-x"}}

MCCommands ==
    IPCommands \cup EtherCommands \cup HelpCommands
    \cup {<<"add", "connection", "mcast", "conn1", "1.1.1.1", "1200">>}

=============================================================================
