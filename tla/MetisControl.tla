---------------------------- MODULE MetisControl ----------------------------
(***************************************************************************)
(* metis_control's "add connection" commands (config/                      *)
(* metisControl_AddConnection.c) and the request/response exchange with    *)
(* the forwarder (_writeAndReadMessage in metisControl_main.c).            *)
(*                                                                         *)
(* A command line is a sequence of tokens, args[0..] in PARCList indexing: *)
(* "add" "connection" <proto> <symbolic> ...  A token is abstracted to     *)
(* what the code's conversions make of it, given as constant tables:      *)
(*   Chars[t]    its characters' classes ("alpha", "digit", "other"),      *)
(*               which is all isalpha/isalnum/strlen look at               *)
(*   Resolve[t]  the family parcNetwork_SockAddress resolves it to         *)
(*               ("inet", "inet6", or "none" when it returns NULL)         *)
(*   Atoi[t]     atoi(t)                                                   *)
(*   IsMac[t]    parcNetwork_ParseMAC48Address succeeds                    *)
(*                                                                         *)
(* The forwarder's side (configuration, not in this repository) is taken  *)
(* from the spec's configuration API: an add carries a symbolic name,     *)
(* which must be unique (DuplicateSymbolic), and may fail to bind or       *)
(* connect (BindFailed, ConnectFailed).                                    *)
(***************************************************************************)
EXTENDS Naturals, Sequences

LOCAL Seqs == INSTANCE SequencesExt

CONSTANTS
    Commands,       \* the command lines the user may type
    Chars, Resolve, Atoi, IsMac,
    SendMayFail,    \* ccnxPortal_Send may fail (the forwarder went away)
    KeystoreMayFail, \* the keystore may fail to open
    OptionSets,     \* the sets of options metis_control may be started with
    MaxCommands,    \* bound on commands dispatched in one session
    Null            \* NULL

VARIABLES
    names,          \* forwarder: symbolic names in use
    lastCommand,    \* the command line dispatched last, or << >>
    lastRequest,    \* the last control request metis_control sent, or Null
    lastReturn,     \* MetisCommandReturn of the last command
    lastAccepted,   \* did the forwarder accept the last request
    dispatched,     \* commands dispatched so far
    aborted,        \* an assertion or trap has ended metis_control
    options,        \* the options on the command line
    argv,           \* the commands given on the command line, or << >>
    phase,          \* "start", "oneshot", "interactive" or "exited"
    exitStatus      \* main's exit status once it has exited, else Null

vars == <<names, lastCommand, lastRequest, lastReturn, lastAccepted, dispatched, aborted,
         options, argv, phase, exitStatus>>

\* parcList_GetAtIndex(args, i); Null past the end.
Arg(args, i) == IF i < Len(args) THEN args[i + 1] ELSE Null

(***************************************************************************)
(* _validateSymbolicName: at least one character, the first alpha, the    *)
(* rest alphanumeric.                                                      *)
(***************************************************************************)
ValidateSymbolicName(t) ==
    LET c == Chars[t] IN
    /\ Len(c) > 0
    /\ c[1] = "alpha"
    /\ \A i \in 2 .. Len(c) : c[i] \in {"alpha", "digit"}

\* Mutant: the address used without the NULL check.
ConvertStringsToCpiAddressNoNullCheck(ip, port) ==
    [family |-> Resolve[ip], port |-> Atoi[port]]

(***************************************************************************)
(* _metisControlAddConnection_ConvertStringsToCpiAddress: NULL when the   *)
(* address does not resolve, otherwise an address of its family with port *)
(* atoi(port).                                                             *)
(***************************************************************************)
ConvertStringsToCpiAddress(ip, port) ==
    IF Resolve[ip] = "none" THEN Null
    ELSE [family |-> Resolve[ip], port |-> Atoi[port]]

\* The IPv4 wildcard the parser uses when no local address is given.
DefaultLocalIp == "0.0.0.0"
DefaultLocalPort == "0"

Failure == [ret |-> "Failure"]

\* Mutant: no check that local and remote are of the same type.
ParseIPCommandLineNoTypeCheck(args) ==
    LET remote == ConvertStringsToCpiAddress(Arg(args, 4), Arg(args, 5))
        local == ConvertStringsToCpiAddress(
                     IF Len(args) > 6 THEN Arg(args, 6) ELSE DefaultLocalIp,
                     IF Len(args) > 7 THEN Arg(args, 7) ELSE DefaultLocalPort)
    IN IF Len(args) < 6 \/ Len(args) > 8 \/ ~ValidateSymbolicName(Arg(args, 3))
          \/ remote = Null \/ local = Null THEN Failure
       ELSE [ret |-> "Success", symbolic |-> Arg(args, 3), remote |-> remote,
             local |-> local]

(***************************************************************************)
(* _metisControlAddConnection_ParseIPCommandLine: 6 to 8 arguments, a     *)
(* valid symbolic name, a remote address, an optional local address and    *)
(* port (default 0.0.0.0 port 0), and local and remote of the same type.   *)
(***************************************************************************)
ParseIPCommandLine(args) ==
    LET symbolic == Arg(args, 3)
        remote == ConvertStringsToCpiAddress(Arg(args, 4), Arg(args, 5))
        localIp == IF Len(args) > 6 THEN Arg(args, 6) ELSE DefaultLocalIp
        localPort == IF Len(args) > 7 THEN Arg(args, 7) ELSE DefaultLocalPort
        local == ConvertStringsToCpiAddress(localIp, localPort)
    IN IF Len(args) < 6 \/ Len(args) > 8 THEN Failure
       ELSE IF ~ValidateSymbolicName(symbolic) THEN Failure
       ELSE IF remote = Null THEN Failure
       ELSE IF local = Null THEN Failure
       ELSE IF local.family # remote.family THEN Failure
       ELSE [ret |-> "Success", symbolic |-> symbolic, remote |-> remote,
             local |-> local]

(***************************************************************************)
(* _metisControl_ParseEtherCommandLine: at least 5 arguments, a valid     *)
(* symbolic name, then the MAC (args[4]) and the interface (args[5]); a    *)
(* non-empty interface and a parsable MAC.  The set of possible results:   *)
(* with exactly 5 arguments args[5] is past the end of the list, which     *)
(* traps in the list or yields whatever pointer lies there.               *)
(***************************************************************************)
ParseEtherCommandLine(args) ==
    LET symbolic == Arg(args, 3)
        mac == Arg(args, 4)
        Result(iface) ==
            IF Len(Chars[iface]) > 0 /\ IsMac[mac]
            THEN [ret |-> "Success", symbolic |-> symbolic, remote |-> mac,
                  local |-> iface]
            ELSE Failure
    IN IF Len(args) < 5 THEN {Failure}
       ELSE IF ~ValidateSymbolicName(symbolic) THEN {Failure}
       ELSE IF Len(args) > 5 THEN {Result(Arg(args, 5))}
       ELSE {[ret |-> "trap"]} \cup {Result(t) : t \in DOMAIN Chars}

(***************************************************************************)
(* A request reaches the forwarder, which adds the connection unless the  *)
(* symbolic name is taken or the bind/connect fails.  The response is an  *)
(* ACK or a NACK.                                                          *)
(***************************************************************************)
ForwarderAdd(req) ==
    \/ /\ req.symbolic \notin names
       /\ names' = names \cup {req.symbolic}
       /\ lastAccepted' = TRUE
    \/ /\ lastAccepted' = FALSE
       /\ UNCHANGED names

(***************************************************************************)
(* _writeAndReadMessage, then what the Execute function does with the     *)
(* result.  A failed send returns NULL; _CreateTunnel and EtherExecute use *)
(* the response without a check (ccnxMetaMessage_GetControl and _Release   *)
(* assert on NULL).  Otherwise the response is only printed in debug mode  *)
(* and the command returns Success whatever it says.                       *)
(***************************************************************************)
WriteRead(req) ==
    /\ lastRequest' = req
    /\ \/ /\ ForwarderAdd(req)
          /\ lastReturn' = "Success"
          /\ UNCHANGED aborted
       \/ /\ SendMayFail
          /\ aborted' = TRUE
          /\ UNCHANGED <<names, lastReturn, lastAccepted>>

\* The command fails before sending anything.
NoRequest ==
    /\ lastRequest' = Null
    /\ lastReturn' = "Failure"
    /\ UNCHANGED <<names, lastAccepted, aborted>>

\* _metisControlAddConnection_CreateTunnel: the IP tunnel request is written
\* and the response fetched (GetControl on it without a NULL check).
CreateTunnel(req) == WriteRead(req)

\* _metisControlAddConnection_TcpExecute / _UdpExecute
IPExecute(args) ==
    LET p == ParseIPCommandLine(args) IN
    IF p.ret = "Success"
    THEN CreateTunnel([kind |-> Arg(args, 2), symbolic |-> p.symbolic,
                    remote |-> p.remote, local |-> p.local])
    ELSE NoRequest

\* _metisControlAddConnection_EtherExecute
EtherExecute(args) ==
    \E p \in ParseEtherCommandLine(args) :
        IF p.ret = "trap"
        THEN /\ aborted' = TRUE
             /\ lastRequest' = Null
             /\ UNCHANGED <<names, lastReturn, lastAccepted>>
        ELSE IF p.ret = "Success"
        THEN WriteRead([kind |-> "ether", symbolic |-> p.symbolic,
                        remote |-> p.remote, local |-> p.local])
        ELSE NoRequest

\* _metisControlAddConnection_McastExecute: not implemented.
McastExecute(args) == NoRequest

(***************************************************************************)
(* The help texts are printed and the command returns Success; nothing is  *)
(* sent.  _Execute, the handler of "add connection" alone, prints the     *)
(* list of protocol commands.                                              *)
(***************************************************************************)
HelpExecute ==
    /\ lastRequest' = Null
    /\ lastReturn' = "Success"
    /\ UNCHANGED <<names, lastAccepted, aborted>>

Execute == HelpExecute

IpHelp == HelpExecute

TcpHelpExecute == IpHelp

UdpHelpExecute == IpHelp

McastHelpExecute == HelpExecute

EtherHelpExecute == HelpExecute

-----------------------------------------------------------------------------
(***************************************************************************)
(* The command table.  metisCommandOps_Create pairs a command string,      *)
(* here its words, with the function that executes it; registering a      *)
(* command runs its init function, and "add connection"'s init registers   *)
(* the four protocol commands and their help commands.                     *)
(***************************************************************************)
Protocols == {"tcp", "udp", "mcast", "ether"}

CommandOps(command, handler, hasInit) ==
    [command |-> command, handler |-> handler, hasInit |-> hasInit]

\* metisControlAddConnection_Create / _HelpCreate
AddConnectionCreate == CommandOps(<<"add", "connection">>, "add", TRUE)
AddConnectionHelpCreate == CommandOps(<<"help", "add", "connection">>, "help", FALSE)

\* _metisControlAddConnection_TcpCreate ... _EtherHelpCreate
ProtocolCreate(p) == CommandOps(<<"add", "connection", p>>, p, FALSE)
ProtocolHelpCreate(p) == CommandOps(<<"help", "add", "connection", p>>, "help " \o p, FALSE)

\* _metisControlAddConnection_Init
AddConnectionInit ==
    {ProtocolHelpCreate(p) : p \in Protocols} \cup {ProtocolCreate(p) : p \in Protocols}

\* metisControlState_RegisterCommand: add the command, then run its init.
RegisterCommand(table, ops) ==
    table \cup {ops} \cup (IF ops.hasInit THEN AddConnectionInit ELSE {})

CommandTable == RegisterCommand(RegisterCommand({}, AddConnectionHelpCreate), AddConnectionCreate)

\* The registered command that is the longest prefix of the command line.
LongestMatch(args) ==
    LET matches == {o \in CommandTable : Seqs!IsPrefix(o.command, args)} IN
    CHOOSE o \in matches : \A q \in matches : Len(q.command) <= Len(o.command)

\* The function the matched command names, given the whole argument list.
RunHandler(o, args) ==
    CASE o.handler \in {"tcp", "udp"}   -> IPExecute(args)
      [] o.handler = "ether"            -> EtherExecute(args)
      [] o.handler = "mcast"            -> McastExecute(args)
      [] o.handler = "add"              -> Execute
      [] o.handler = "help tcp"         -> TcpHelpExecute
      [] o.handler = "help udp"         -> UdpHelpExecute
      [] o.handler = "help mcast"       -> McastHelpExecute
      [] o.handler = "help ether"       -> EtherHelpExecute
      [] o.handler = "help"             -> HelpExecute

(***************************************************************************)
(* metisControlState_DispatchCommand: the command registered for the      *)
(* longest matching prefix runs on the whole argument list.                *)
(***************************************************************************)
DispatchCommand(args) ==
    /\ dispatched < MaxCommands
    /\ dispatched' = dispatched + 1
    /\ lastCommand' = args
    /\ RunHandler(LongestMatch(args), args)

-----------------------------------------------------------------------------
(***************************************************************************)
(* main: the commands left on the command line after the options, if any, *)
(* are dispatched once and the program exits; otherwise the interactive   *)
(* loop dispatches typed lines until the user ends it.  The keystore must  *)
(* open first.  The exit status is EXIT_SUCCESS once a command has been    *)
(* dispatched, whatever the command returned.                              *)
(***************************************************************************)
EXIT_SUCCESS == 0
EXIT_FAILURE == 1

Init ==
    /\ names = {}
    /\ lastCommand = << >>
    /\ lastRequest = Null
    /\ lastReturn = "Success"
    /\ lastAccepted = TRUE
    /\ dispatched = 0
    /\ aborted = FALSE
    /\ options \in OptionSets
    /\ argv \in {<< >>} \cup Commands
    /\ phase = "start"
    /\ exitStatus = Null

(***************************************************************************)
(* The options: -k and -p with their argument, -h, and "-x" for any option *)
(* getopt_long does not know.  getopt_long takes options from anywhere in  *)
(* argv, so the commands are what is left.                                *)
(***************************************************************************)
Options == {"-k", "-p", "-h", "-x"}

\* main's first test: argc == 2 && strcmp("-h", argv[1]) == 0.
HelpOnly == options = {"-h"} /\ argv = << >>

\* _parseArgs: returns 0 (after the usage text) at -h or an unknown option.
ParseArgs == options \cap {"-h", "-x"} = {}

\* _openKeyStore: with no -p the password is read from the terminal; the
\* keystore file may fail to open either way.
OpenKeyStore == IF KeystoreMayFail THEN BOOLEAN ELSE {TRUE}

\* exit(status), or main's return.
Exit(status) == phase' = "exited" /\ exitStatus' = status

Main ==
    LET run == IF argv = << >> THEN "interactive" ELSE "oneshot" IN
    /\ phase = "start"
    /\ \/ /\ HelpOnly
          /\ Exit(EXIT_SUCCESS)
       \/ /\ ~HelpOnly /\ ~ParseArgs
          /\ Exit(EXIT_FAILURE)
       \/ /\ ~HelpOnly /\ ParseArgs
          /\ \E opened \in OpenKeyStore :
                IF opened THEN phase' = run /\ UNCHANGED exitStatus
                ELSE Exit(EXIT_FAILURE)
    /\ UNCHANGED <<names, lastCommand, lastRequest, lastReturn, lastAccepted,
                   dispatched, aborted, options, argv>>

DispatchArgv ==
    /\ phase = "oneshot"
    /\ ~aborted
    /\ DispatchCommand(argv)
    /\ Exit(EXIT_SUCCESS)
    /\ UNCHANGED <<options, argv>>

Interactive(args) ==
    /\ phase = "interactive"
    /\ ~aborted
    /\ DispatchCommand(args)
    /\ UNCHANGED <<options, argv, phase, exitStatus>>

\* The user ends the interactive loop; main returns EXIT_SUCCESS.
Quit ==
    /\ phase = "interactive"
    /\ ~aborted
    /\ Exit(EXIT_SUCCESS)
    /\ UNCHANGED <<names, lastCommand, lastRequest, lastReturn, lastAccepted,
                   dispatched, aborted, options, argv>>

Next ==
    \/ Main
    \/ DispatchArgv
    \/ \E args \in Commands : Interactive(args)
    \/ Quit

Spec == Init /\ [][Next]_vars

-----------------------------------------------------------------------------
Tokens == DOMAIN Chars

CpiAddresses == [family : {"inet", "inet6"}, port : Nat]

IsRequest(r) ==
    \/ r.kind \in {"tcp", "udp"} /\
       r \in [kind : {"tcp", "udp"}, symbolic : Tokens,
              remote : CpiAddresses, local : CpiAddresses]
    \/ r.kind = "ether" /\
       r \in [kind : {"ether"}, symbolic : Tokens, remote : Tokens, local : Tokens]

TypeOK ==
    /\ names \subseteq Tokens
    /\ lastCommand \in {<< >>} \cup Commands
    /\ lastRequest = Null \/ IsRequest(lastRequest)
    /\ lastReturn \in {"Success", "Failure"}
    /\ lastAccepted \in BOOLEAN
    /\ dispatched \in 0 .. MaxCommands
    /\ aborted \in BOOLEAN
    /\ options \subseteq Options
    /\ argv \in {<< >>} \cup Commands
    /\ phase \in {"start", "oneshot", "interactive", "exited"}
    /\ exitStatus \in {Null, EXIT_SUCCESS, EXIT_FAILURE}

(***************************************************************************)
(* The usage the help texts print (_metisControlAddConnection_IpHelp,     *)
(* _EtherHelpExecute) and the symbolic-name rule of the spec: a name       *)
(* begins with a letter and has only alphanumerics; a port is a number;    *)
(* an ether line may carry a trailing ethertype (the parser's TODO).       *)
(***************************************************************************)
SymbolicNameOK(t) ==
    Chars[t] # << >> /\ Head(Chars[t]) = "alpha"
    /\ \A i \in DOMAIN Chars[t] : Chars[t][i] \in {"alpha", "digit"}

IsPort(t) == Chars[t] # << >> /\ \A i \in DOMAIN Chars[t] : Chars[t][i] = "digit"

DocumentedIP(args) ==
    /\ Len(args) \in 6 .. 8
    /\ SymbolicNameOK(args[4])
    /\ Resolve[args[5]] # "none" /\ IsPort(args[6])
    /\ Len(args) > 6 => Resolve[args[7]] = Resolve[args[5]]
    /\ Len(args) > 7 => IsPort(args[8])

DocumentedEther(args) ==
    /\ Len(args) >= 6
    /\ SymbolicNameOK(args[4]) /\ IsMac[args[5]] /\ Chars[args[6]] # << >>

Documented(args) ==
    IF Arg(args, 2) \in {"tcp", "udp"} THEN DocumentedIP(args)
    ELSE Arg(args, 2) = "ether" /\ DocumentedEther(args)

\* A command was dispatched in this step.
Dispatched == dispatched' # dispatched

(***************************************************************************)
(* The request metis_control sends is the command the user typed: it      *)
(* carries that command's symbolic name, which is a valid one, and its     *)
(* remote address; a tunnel's local and remote addresses are of one        *)
(* family; an ether request has a parsed MAC and a named interface.        *)
(* (The parsers' checks in ParseIPCommandLine and ParseEtherCommandLine.)  *)
(***************************************************************************)
RequestsWellFormed ==
    lastRequest # Null =>
        LET r == lastRequest IN
        /\ r.symbolic = Arg(lastCommand, 3) /\ SymbolicNameOK(r.symbolic)
        /\ r.kind = Arg(lastCommand, 2)
        /\ r.kind \in {"tcp", "udp"} =>
              /\ r.remote.family = Resolve[Arg(lastCommand, 4)]
              /\ r.local.family = r.remote.family
        /\ r.kind = "ether" =>
              /\ r.remote = Arg(lastCommand, 4) /\ IsMac[r.remote]
              /\ Chars[r.local] # << >>

(***************************************************************************)
(* Every command written as the help text documents it, its examples      *)
(* included, reaches the forwarder (ParseIPCommandLine accepts it).        *)
(***************************************************************************)
DocumentedCommandsAccepted ==
    [][Dispatched /\ Documented(lastCommand') =>
         lastRequest' # Null \/ aborted']_vars

(***************************************************************************)
(* A command typed at metis_control never ends it: malformed input gets   *)
(* the help text and MetisCommandReturn_Failure (ParseEtherCommandLine).   *)
(***************************************************************************)
NoAbortOnInput == ~aborted

=============================================================================
