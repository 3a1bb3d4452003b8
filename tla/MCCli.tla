------------------------------- MODULE MCCli --------------------------------
(***************************************************************************)
(* Command lines for TLC: for every subcommand a complete line, the line   *)
(* without one of its tokens, and the line with one or two tokens added.   *)
(***************************************************************************)
EXTENDS Cli

(* Keys with payloads of two bytes; every source of a secret has its own. *)
GuardKey  == strkey_encode(VER_CONTRACT, <<0, 1>>)
TokenKey  == strkey_encode(VER_CONTRACT, <<255, 128>>)
PayerKey  == strkey_encode(VER_ACCOUNT, <<7, 7>>)
PayeeKey  == strkey_encode(VER_ACCOUNT, <<170, 85>>)
SeedKey   == strkey_encode(VER_SECRET, <<1, 2>>)
EnvKey    == strkey_encode(VER_SECRET, <<3, 4>>)
FileKey   == strkey_encode(VER_SECRET, <<16, 32>>)
StdinKey  == strkey_encode(VER_SECRET, <<5, 6>>)
OtherKey  == strkey_encode(VER_SECRET, <<9, 200>>)

Token(flag, value) == [flag |-> flag, value |-> value]
Url(host, port, dressed) == [host |-> host, port |-> port, dressed |-> dressed]

Spend == <<Token("--asset", TokenKey), Token("--to", PayeeKey), Token("--amount", 1)>>
Complete(cmd) ==
    CASE cmd \in {"transfer", "preflight"} -> <<Token("--secret", SeedKey)>> \o Spend
      [] cmd = "transfer-from" ->
            <<Token("--secret", SeedKey), Token("--from", PayerKey)>> \o Spend
      [] cmd = "check" -> Spend
      [] cmd = "heartbeat" -> <<Token("--agent-secret-file", "path")>>
      [] cmd \in {"status", "policy", "other"} -> <<>>

EndpointToken ==
    {Token("--network", n) : n \in {"futurenet", "mainnet", Text}}
      \union {Token("--rpc-url", Url(h, p, d)) :
                 h \in {"mainnet", "custom"}, p \in BOOLEAN, d \in BOOLEAN}
      \union {Token("--network-passphrase", "mainnet")}
SecretToken ==
    {Token("--secret", Dash), Token("--secret", SeedKey), Token("--secret", OtherKey),
     Token("--agent-secret-file", "path")}
OtherToken ==
    {Token("--guard", GuardKey), Token("--guard", PayeeKey), Token("--asset", PayerKey),
     Token("--to", SeedKey), Token("--to", GuardKey), Token("--from", PayerKey),
     Token("--secret", PayeeKey), Token("--amount", Text), Token("--amount", I128_MAX + 1),
     Token("--amount", 0), Token("--guard", None), Token("--rpc-timeout", 0),
     Token("--rpc-timeout", 1), Token("--inclusion-fee", U32_MAX + 1),
     Token("--inclusion-fee", 0), Token("--expect-blocked", None), Token("--json", None),
     Token("--fee-multiplier", 2), Token("--help", None)}

Argv(cmd) ==
    {Complete(cmd)}
      \union {RemoveAt(Complete(cmd), i) : i \in DOMAIN Complete(cmd)}
      \union {Append(Complete(cmd), t) : t \in OtherToken}
      \union {Complete(cmd) \o <<t, u>> : t, u \in EndpointToken}
      \union {Complete(cmd) \o <<t, u>> : t, u \in SecretToken}
      \union {<<t>> \o Complete(cmd) : t \in SecretToken}

(* The alias "MAIN", spelled in the alphabet of the keys. *)
MainAlias == <<12, 0, 8, 13>>
OneGuard == [guards |-> <<[alias |-> MainAlias, address |-> GuardKey]>>, default |-> MainAlias]
Disk == [file |-> FileKey, stdin |-> StdinKey]

LineOf(cmd, argv) ==
    [cmd |-> cmd, argv |-> argv, env |-> EnvKey, disk |-> Disk, reg |-> OneGuard]
Commands == Subcommand \union {"other"}
Whole == {LineOf(cmd, Complete(cmd)) : cmd \in Commands}

AllLines ==
    UNION {{LineOf(cmd, argv) : argv \in Argv(cmd)} : cmd \in Commands}
      \union {[l EXCEPT !.env = None] : l \in Whole}
      \union {[l EXCEPT !.env = None, !.argv = Append(@, Token("--agent-secret-file", "path")),
                        !.disk.file = None] : l \in Whole}
      \union {[l EXCEPT !.reg = Registry_default] : l \in Whole}

(* Complete lines that name the guard by its alias. *)
AliasLines == {[l EXCEPT !.argv = Append(@, Token("--guard", MainAlias))] : l \in Whole}
=============================================================================
