----------------------------- MODULE MCStartup -----------------------------
(***************************************************************************)
(* The configuration files of the TLC instances of Startup: one working    *)
(* node of each module, what can be different about a node, alone and in   *)
(* pairs, and the timing of schedules.                                     *)
(***************************************************************************)
EXTENDS Startup

MCUnitNames == {"", " ", "eth", "gwei", "wei", "cosm", "ucosm", "ETH", "usdt", "USDT",
                "usdt_atomic", " usdt", " usdt_atomic", " USDT"}
MCTrim == [name \in MCUnitNames |->
    CASE name = " " -> "" [] name = " usdt" -> "usdt" [] name = " USDT" -> "USDT"
      [] name = " usdt_atomic" -> "usdt_atomic" [] OTHER -> name]
MCLower == [name \in MCUnitNames |->
    CASE name = "ETH" -> "eth" [] name = "USDT" -> "usdt" [] name = " USDT" -> " usdt"
      [] OTHER -> name]

\* Two tokens with one symbol and different decimals, one with blanks in its
\* symbol, and a contract without metadata.
MCChecksumAddresses == {"0xUSDT", "0xBridged", "0xBlank", "0xOld", "0xA", "0xB"}
MCToken == [address \in MCChecksumAddresses |->
    CASE address = "0xUSDT" -> [symbol |-> "USDT", decimals |-> 6]
      [] address = "0xBridged" -> [symbol |-> "usdt", decimals |-> 18]
      [] address = "0xBlank" -> [symbol |-> " USDT", decimals |-> 6]
      [] OTHER -> Nil]

MCWasmAddresses == {"wasmA"}

Global == [metricsAddr |-> ":9091", logLevel |-> "info"]
Account(name, address) ==
    [name |-> name, address |-> address, addressEnv |-> "",
     refundThreshold |-> 1, refundTarget |-> 2]
AutoRefund(schedule) ==
    [enabled |-> TRUE, faucetUrl |-> "faucet", faucetUrlEnv |-> "", timeout |-> 0,
     schedule |-> schedule]
Every(interval) == [fields |-> "every", interval |-> interval]

evm == [name |-> "gateway", module |-> "evm", httpAddr |-> "http", httpAddrEnv |-> "",
        httpSSLVerify |-> "", grpcAddr |-> "", contractAddr |-> "",
        unit |-> "wei", metricsUnit |-> "ETH", autoUnitDiscovery |-> FALSE,
        labels |-> [app |-> "l1"],
        accounts |-> <<Account("main", "0xA"), Account("spare", "0xB")>>,
        autoRefund |-> AutoRefund(Every(600))]
erc20 == [evm EXCEPT !.name = "token", !.module = "erc20", !.contractAddr = "0xUSDT",
                     !.unit = Nil, !.metricsUnit = Nil, !.autoUnitDiscovery = TRUE]
cosmos == [evm EXCEPT !.name = "hub", !.module = "cosmos", !.httpAddr = "",
                      !.grpcAddr = "port", !.unit = "ucosm", !.metricsUnit = Nil,
                      !.accounts = <<Account("main", "wasmA"), Account("main", "wasmA")>>]

\* Files that the validators should reject, each for one reason.
Invalid ==
    {[evm EXCEPT !.name = ""], [evm EXCEPT !.accounts = <<>>], [evm EXCEPT !.module = "btc"]}
    \union {[evm EXCEPT !.unit = u] : u \in {Nil, "cosm"}}
    \union {[evm EXCEPT !.accounts = <<Account("main", a)>>] : a \in {"", "0xa", "wasmA"}}
    \union {[evm EXCEPT !.accounts = <<Account("main", "0xA"), Account("main", a)>>] :
              a \in {"0xA", "0xB"}}
    \union {[evm EXCEPT !.accounts[1].refundTarget = t] : t \in {0, 1}}
    \union {[evm EXCEPT !.httpAddr = h] : h \in {"", "malformed", "ws", "https"}}
    \union {[erc20 EXCEPT !.contractAddr = c] : c \in {"", "0xusdt"}}
    \union {[erc20 EXCEPT !.autoUnitDiscovery = FALSE]}
    \union {[cosmos EXCEPT !.grpcAddr = g] : g \in {"", "malformed", "noPort"}}
    \union {[cosmos EXCEPT !.metricsUnit = "eth"]}

\* Those that they accept, although some of them cannot work.
Valid ==
    {evm, erc20, cosmos}
    \union {[evm EXCEPT !.name = n] : n \in {"token", "other"}}
    \union {[evm EXCEPT !.labels = l] :
              l \in {Nil, [app |-> "l2"], [team |-> "l1"], [address |-> "l1"]}}
    \union {[evm EXCEPT !.httpAddr = "ws", !.httpAddrEnv = "https", !.httpSSLVerify = "true"]}
    \union {[evm EXCEPT !.accounts[2].address = "", !.accounts[2].addressEnv = "0xA"]}
    \union {[evm EXCEPT !.autoRefund = Nil], [evm EXCEPT !.autoRefund.faucetUrl = ""]}
    \union {[evm EXCEPT !.name = "other", !.autoRefund = AutoRefund(s)] :
              s \in {Nil, [fields |-> "five", interval |-> 0], [fields |-> "six", interval |-> 120]}}
    \union {[erc20 EXCEPT !.contractAddr = c] : c \in {"0xBlank", "0xOld"}}
    \union {[erc20 EXCEPT !.name = "bridged", !.contractAddr = "0xBridged"]}
    \union {[erc20 EXCEPT !.unit = "usdt_atomic", !.autoUnitDiscovery = d,
                          !.metricsUnit = m, !.labels = [app |-> "l3"]] :
              d \in BOOLEAN, m \in {"USDT", " ", " usdt", "usdt_atomic"}}
    \union {[erc20 EXCEPT !.name = "native", !.unit = "wei", !.metricsUnit = "eth"]}

Timed == {[evm EXCEPT !.autoRefund.timeout = t, !.autoRefund.schedule = Every(i)] :
            t \in {-1, 0, 1, 84, 85, 120},
            i \in {0, 1, 9, 10, 11, 12, 60, 120, 178, 179, 188, 250, 360}}

MCConfigs ==
    {[global |-> Global, nodes |-> ns] :
        ns \in {<<>>} \union {<<n>> : n \in Invalid \union Timed}
               \union {<<n>> : n \in Valid} \union {<<n, m>> : n, m \in Valid}}
    \union {[global |-> [Global EXCEPT !.logLevel = l], nodes |-> <<evm>>] :
              l \in {"", "debug", "fatal", "loud"}}
    \union {[global |-> [Global EXCEPT !.metricsAddr = ""], nodes |-> <<evm>>]}

\* The valid nodes one by one, and two whose labels do not go together.
MCEarlyConfigs ==
    {[global |-> Global, nodes |-> <<n>>] : n \in Valid}
    \union {[global |-> Global,
             nodes |-> <<evm, [evm EXCEPT !.name = "other", !.labels = [team |-> "l1"]]>>]}
=============================================================================
