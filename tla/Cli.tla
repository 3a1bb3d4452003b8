-------------------------------- MODULE Cli ---------------------------------
(***************************************************************************)
(* From a command line to a request (agent-tx main.rs: main, parse_request *)
(* and Cli; network.rs).  An operator types a line, perhaps with a slip in *)
(* one key, and the tool either refuses it, prints help, or has a request  *)
(* with which it goes to the network.                                      *)
(*                                                                         *)
(* A token is a flag with its value, None when the line ends before the    *)
(* value.  --asset also stands for --token, and --secret for               *)
(* --agent-secret, which are spellings of the same flag.                   *)
(***************************************************************************)
EXTENDS StrKey, Guards, FiniteSets

CONSTANTS
    None,
    Text,        \* a value that is not a number, or names no network
    Dash,        \* "-", for stdin
    I128_MAX, U32_MAX, U64_MAX,   \* bounds of the number parsers
    Line,        \* command lines as meant, with what surrounds them
    SlipLine     \* those in which a key may be mistyped

ASSUME CliConstants ==
    /\ SlipLine \subseteq Line
    /\ \A l \in Line : {"cmd", "argv"} \subseteq DOMAIN l /\ l.argv \in Seq(Range(l.argv))
    /\ NoAlias = None

VARIABLES
    meant,    \* the line the operator has in mind
    line,     \* the line as typed: cmd, argv, and around it env (AGENT_SECRET),
              \* disk (a secret file and stdin) and reg (the guard registry)
    result    \* what the tool makes of it, None before

cvars == <<meant, line, result>>

-----------------------------------------------------------------------------
(* network.rs *)

Network == {"testnet", "futurenet", "mainnet"}
DEFAULT_NETWORK == "testnet"

(* A URL: the host it names, whether a port is given, and whether scheme,  *)
(* case, path or query differ from the preset's.                           *)
rpc_url(network) == [host |-> network, port |-> FALSE, dressed |-> FALSE]

(* Hosts are compared with scheme, path, query and case taken off; a port  *)
(* is part of what is compared.                                            *)
from_rpc_url(url) == IF url.host \in Network /\ ~ url.port THEN url.host ELSE None

(* Network::notice *)
notice(network) == network = "mainnet"

(* Seeded fault: a custom URL without a passphrase is taken for testnet. *)
resolve_guessing(network, url, passphrase) ==
    IF network # None /\ url # None THEN None
    ELSE LET preset == IF network # None THEN network
                       ELSE IF url # None THEN from_rpc_url(url) ELSE DEFAULT_NETWORK
         IN  [network    |-> preset,
              rpc_url    |-> IF url # None THEN url ELSE rpc_url(preset),
              passphrase |-> IF passphrase # None THEN passphrase
                             ELSE IF preset = None THEN DEFAULT_NETWORK ELSE preset]

(* The endpoint, None when the flags conflict, name no network, or name a  *)
(* custom endpoint without its passphrase.  The passphrase of a network is *)
(* written as its name.                                                    *)
resolve_endpoint(network, url, passphrase) ==
    LET preset == IF network # None THEN network
                  ELSE IF url # None THEN from_rpc_url(url) ELSE DEFAULT_NETWORK
    IN  IF \/ network # None /\ (url # None \/ network \notin Network)
           \/ preset = None /\ passphrase = None
        THEN None
        ELSE [network    |-> preset,
              rpc_url    |-> IF url # None THEN url ELSE rpc_url(preset),
              passphrase |-> IF passphrase # None THEN passphrase ELSE preset]

-----------------------------------------------------------------------------
(* Flags *)

SpendCommand  == {"preflight", "transfer", "transfer-from", "check"}
SubmitCommand == {"transfer", "transfer-from", "heartbeat"}
Subcommand    == SpendCommand \union SubmitCommand \union {"status", "policy"}

valid_flags_for_subcommand(cmd) ==
    UNION {{"--guard", "--network", "--rpc-url", "--rpc-timeout", "--network-passphrase", "--json"},
           IF cmd \in SpendCommand THEN {"--asset", "--to", "--amount"} ELSE {},
           IF cmd \in SubmitCommand \union {"preflight"}
               THEN {"--secret", "--agent-secret-file", "--inclusion-fee"} ELSE {},
           IF cmd \in SpendCommand \ {"check"} THEN {"--expect-blocked"} ELSE {},
           IF cmd = "transfer-from" THEN {"--from"} ELSE {}}

Switch == {"--expect-blocked", "--json"}

(* What a value has to be for its flag to be taken at once; the others are *)
(* looked at when the whole line is read.                                  *)
ParsesFor(flag, value) ==
    CASE flag = "--amount"        -> value \in -I128_MAX - 1 .. I128_MAX
      [] flag = "--rpc-timeout"   -> value \in 1 .. U64_MAX
      [] flag = "--inclusion-fee" -> value \in 0 .. U32_MAX
      [] OTHER -> TRUE

(* The loop over the tokens: the first that is not valid for the command,  *)
(* lacks its value or does not parse stops it; a repeated flag counts as   *)
(* given last; a secret of "-" asks for stdin.                             *)
NoArgs ==
    [bad |-> FALSE,
     got |-> [flag \in UNION {valid_flags_for_subcommand(cmd) : cmd \in Subcommand} |->
                 IF flag \in Switch THEN FALSE ELSE None]]

Take(cmd, args, token) ==
    LET flag == token.flag IN
    IF args.bad THEN args
    ELSE IF \/ flag \notin valid_flags_for_subcommand(cmd)
            \/ flag \notin Switch /\ (token.value = None \/ ~ ParsesFor(flag, token.value))
    THEN [args EXCEPT !.bad = TRUE]
    ELSE IF flag \in Switch THEN [args EXCEPT !.got[flag] = TRUE]
    ELSE IF flag = "--secret" /\ token.value = Dash
    THEN [args EXCEPT !.got["--agent-secret-file"] = Dash]
    ELSE [args EXCEPT !.got[flag] = token.value]

Collected(cmd, argv) == FoldLeft(LAMBDA args, token : Take(cmd, args, token), NoArgs, argv)

-----------------------------------------------------------------------------
(* parse_request *)

(* resolve_guard: the value of --guard, else the default of the registry. *)
resolve_guard(arg, reg) == IF arg # None THEN arg ELSE resolve_default(reg)

(* read_secret_from_file *)
read_secret_from_file(path, disk) == IF path = Dash THEN disk.stdin ELSE disk.file

(* Seeded fault: the environment is asked first. *)
secret_env_first(got, l) ==
    IF l.env # None THEN l.env
    ELSE IF got["--agent-secret-file"] # None
    THEN read_secret_from_file(got["--agent-secret-file"], l.disk)
    ELSE got["--secret"]

(* Where the secret comes from: file or stdin, the line, the environment. *)
resolve_secret(got, l) ==
    IF got["--agent-secret-file"] # None
    THEN read_secret_from_file(got["--agent-secret-file"], l.disk)
    ELSE IF got["--secret"] # None THEN got["--secret"] ELSE l.env

Refused == [kind |-> "refused"]
Help    == [kind |-> "help"]

parse_request(l) ==
    LET args     == Collected(l.cmd, l.argv)
        got      == args.got
        endpoint == resolve_endpoint(got["--network"], got["--rpc-url"], got["--network-passphrase"])
        guard    == resolve_guard(got["--guard"], l.reg)
        secret   == resolve_secret(got, l)
        spends   == l.cmd \in SpendCommand
    IN  IF \/ args.bad
           \/ endpoint = None
           \/ guard = None \/ ~ validate_key("Contract", guard)
           \/ got["--agent-secret-file"] # None /\ secret = None
           \/ secret # None /\ ~ validate_key("Secret", secret)
           \/ l.cmd \in SubmitCommand /\ secret = None
           \/ spends /\ (got["--asset"] = None \/ ~ validate_key("Contract", got["--asset"]))
           \/ l.cmd = "transfer-from"
                 /\ (got["--from"] = None \/ ~ validate_key("Recipient", got["--from"]))
           \/ spends /\ (got["--to"] = None \/ ~ validate_key("Recipient", got["--to"]))
           \/ spends /\ got["--amount"] = None
        THEN Refused
        ELSE [kind |-> "request", guard |-> guard, secret |-> secret, endpoint |-> endpoint,
              token |-> got["--asset"], from |-> got["--from"], to |-> got["--to"],
              amount |-> got["--amount"], expect_blocked |-> got["--expect-blocked"],
              notice |-> notice(endpoint.network)]

(* main: help anywhere on the line goes before everything else. *)
main(l) ==
    IF \E i \in DOMAIN l.argv : l.argv[i].flag = "--help" THEN Help
    ELSE IF l.cmd \notin Subcommand THEN Refused
    ELSE parse_request(l)

-----------------------------------------------------------------------------
(* What can happen to a key on its way to the tool: one character is       *)
(* mistyped, two neighbours are swapped, the last one is lost.             *)
Slips(key) ==
    {[key EXCEPT ![i] = ch] : i \in DOMAIN key, ch \in B32 \union {NotB32}}
      \union {[key EXCEPT ![i] = key[i + 1], ![i + 1] = key[i]] : i \in 1 .. Len(key) - 1}
      \union {Front(key)}

KeyFlag == {"--guard", "--asset", "--from", "--to", "--secret"}
KeyTokens(l) ==
    {i \in DOMAIN l.argv : l.argv[i].flag \in KeyFlag /\ l.argv[i].value \notin {None, Dash}}

(* The keys a line is made of. *)
Keys(l) ==
    ({l.argv[i].value : i \in KeyTokens(l)} \union {l.env, l.disk.file, l.disk.stdin}
        \union {l.reg.guards[i].address : i \in DOMAIN l.reg.guards}) \ {None}

CInit == meant \in Line /\ line = meant /\ result = None

(* A slip in one key: on the line, in the environment, in the secret file, *)
(* or in the registry file, which is edited by hand too.                   *)
Mistype ==
    /\ result = None /\ line = meant /\ meant \in SlipLine
    /\ \/ \E i \in KeyTokens(line) : \E key \in Slips(line.argv[i].value) :
             line' = [line EXCEPT !.argv[i].value = key]
       \/ line.env # None /\ \E key \in Slips(line.env) : line' = [line EXCEPT !.env = key]
       \/ /\ line.disk.file # None
          /\ \E key \in Slips(line.disk.file) : line' = [line EXCEPT !.disk.file = key]
       \/ \E i \in DOMAIN line.reg.guards : \E key \in Slips(line.reg.guards[i].address) :
             line' = [line EXCEPT !.reg.guards[i].address = key]
    /\ line' # line
    /\ UNCHANGED <<meant, result>>

Invoke ==
    /\ result = None
    /\ result' = main(line)
    /\ UNCHANGED <<meant, line>>

CNext == Mistype \/ Invoke

CSpec == CInit /\ [][CNext]_cvars

-----------------------------------------------------------------------------
Accepted == result # None /\ result.kind = "request"

(* No key with a slip in it ever reaches the network: each key of an       *)
(* accepted request is one the operator meant, wherever it came from (main:*)
(* "nothing past this point can reach the network with a malformed input").*)
SlipNeverRuns ==
    Accepted => {result.guard, result.token, result.from, result.to, result.secret} \ {None}
                    \subseteq Keys(meant)

(* An accepted request is fit for its command, so that the "missing        *)
(* required argument" exits of main are unreachable: every part the        *)
(* command needs is there and of its kind, a secret can sign, and no flag's*)
(* value is carried that the command has no use for.  A command that only  *)
(* reads has no flag for a secret: it carries one only when AGENT_SECRET   *)
(* is set, which parse_request takes for every command.                    *)
VersionOf(key) == decode_strkey(key).version
ReadCommand == {"check", "status", "policy"}
RequestFitsCommand ==
    Accepted =>
        /\ VersionOf(result.guard) = VER_CONTRACT
        /\ IF line.cmd \in SpendCommand
           THEN /\ VersionOf(result.token) = VER_CONTRACT
                /\ VersionOf(result.to) \in {VER_ACCOUNT, VER_CONTRACT}
                /\ result.amount # None
           ELSE {result.token, result.to, result.amount} = {None}
        /\ IF line.cmd = "transfer-from"
           THEN VersionOf(result.from) \in {VER_ACCOUNT, VER_CONTRACT}
           ELSE result.from = None
        /\ line.cmd \in SubmitCommand => result.secret # None
        /\ line.cmd \in ReadCommand => result.secret = line.env
        /\ result.secret # None => VersionOf(result.secret) = VER_SECRET
        /\ result.expect_blocked => line.cmd \in {"preflight", "transfer", "transfer-from"}

(* Endpoint and passphrase do not diverge (network.rs: "Pairing them is    *)
(* the point"): unless the operator gave a passphrase, the one signed for  *)
(* is that of the network contacted; and mainnet is contacted only by a    *)
(* line that names it, with the warning, unless a port hides it, and then  *)
(* the operator has spelled out the passphrase too.                        *)
Given(flag) == {i \in DOMAIN line.argv : line.argv[i].flag = flag}
EndpointMatchesPassphrase ==
    Accepted =>
        /\ Given("--network-passphrase") = {} =>
               result.endpoint.passphrase = result.endpoint.rpc_url.host
        /\ result.endpoint.rpc_url.host = "mainnet" =>
               /\ \/ \E i \in Given("--network") : line.argv[i].value = "mainnet"
                  \/ \E i \in Given("--rpc-url") : line.argv[i].value.host = "mainnet"
               /\ \/ result.notice
                  \/ result.endpoint.rpc_url.port /\ Given("--network-passphrase") # {}

(* The key that signs comes from the most deliberate source: the file or   *)
(* stdin, whichever is named last, when either is named anywhere on the    *)
(* line, else the last key on the line, and the environment only when the  *)
(* line says nothing (parse_request: "Secret resolution order").           *)
IsLast(i, S) == i \in S /\ \A j \in S : j <= i
SecretSource ==
    (Accepted /\ result.secret # None) =>
        LET files == {i \in DOMAIN line.argv :
                         \/ line.argv[i].flag = "--agent-secret-file"
                         \/ line.argv[i].flag = "--secret" /\ line.argv[i].value = Dash}
            seeds == Given("--secret")
        IN  /\ \A i \in DOMAIN line.argv : IsLast(i, files) =>
                   result.secret = IF line.argv[i].value = Dash THEN line.disk.stdin
                                   ELSE line.disk.file
            /\ files = {} => \A i \in DOMAIN line.argv : IsLast(i, seeds) =>
                   result.secret = line.argv[i].value
            /\ files = {} /\ seeds = {} => result.secret = line.env

-----------------------------------------------------------------------------
(* A statement of the repository that the code does not meet. *)

(* The help text of every command: --guard is a "Guard contract address    *)
(* (C...) or registered alias", so a line that names a registered guard by *)
(* its alias is taken as the line with its address.                        *)
AliasStandsForAddress ==
    result # None =>
        \A i \in Given("--guard"), j \in DOMAIN line.reg.guards :
            line.argv[i].value = line.reg.guards[j].alias =>
                result = main([line EXCEPT !.argv[i].value = line.reg.guards[j].address])
=============================================================================
