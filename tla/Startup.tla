------------------------------ MODULE Startup ------------------------------
(***************************************************************************)
(* From a configuration file to a running exporter: main in cmd/main.go,   *)
(* up to the server, with the normalization (pkg/config), the validators   *)
(* (pkg/validation), the units of ERC20 tokens (pkg/erc20), the            *)
(* constructors of the collectors and the start of the schedulers.         *)
(*                                                                         *)
(* What a validator reports is whether it reports anything.  A URL is      *)
(* its scheme, an address is known by the form it has, and an environment  *)
(* variable by its value ("" when there is none).  Times are half seconds. *)
(***************************************************************************)
EXTENDS CycleTiming, UnitRegistry, Sequences, FiniteSets

CONSTANTS
    Configs,            \* the configuration files that are tried
    ChecksumAddresses,  \* EVM addresses in checksum form
    Token,              \* what is there -> [symbol, decimals], or Nil when
                        \*   it lacks one of these methods
    WasmAddresses,      \* bech32 addresses with the prefix "wasm"
    Nil                 \* a pointer or map that is not set

\* The name that discovery gives to the smallest unit of a token.
Atomic(symbol) == Lower[symbol] \o "_atomic"

ASSUME TokenAssumption ==
    \A address \in ChecksumAddresses : LET meta == Token[address] IN
        meta # Nil => /\ meta.decimals \in 0 .. 255
                      /\ {meta.symbol, Atomic(meta.symbol)} \subseteq UnitNames

\* What a file says of a node is what the program has fields for.
NodeFields == {"name", "module", "httpAddr", "httpAddrEnv", "httpSSLVerify", "grpcAddr",
               "contractAddr", "unit", "metricsUnit", "autoUnitDiscovery", "labels",
               "accounts", "autoRefund"}
AutoRefundFields == {"enabled", "faucetUrl", "faucetUrlEnv", "timeout", "schedule"}

ASSUME ConfigsAssumption ==
    \A f \in Configs :
        /\ f.nodes \in Seq({f.nodes[i] : i \in DOMAIN f.nodes})
        /\ \A i \in DOMAIN f.nodes : LET n == f.nodes[i] IN
              /\ DOMAIN n = NodeFields
              /\ {n.unit, n.metricsUnit} \subseteq UnitNames \union {Nil}
              /\ n.autoRefund # Nil =>
                    /\ DOMAIN n.autoRefund = AutoRefundFields
                    /\ n.autoRefund.timeout \in Int
                    /\ n.autoRefund.schedule = Nil \/ n.autoRefund.schedule.interval \in Nat

\* A pointer that is not set is no string.
ASSUME NilAssumption == Nil \notin UnitNames

second == 2
MAX_FAUCET_RETRIES == 3
PER_ATTEMPT_TIMEOUT == 15 * second
PROCESSING_OVERHEAD_BUFFER == 10 * second
CYCLE_SAFETY_MARGIN == 5 * second

VARIABLES
    file,           \* the configuration as it was written
    nodes,          \* config.Nodes, as the program has changed them so far
    registry,       \* currencyRegistry
    stage,          \* how far main has come
    cursor,         \* the node that main's loop is at
    metrics,        \* promRegistry: node -> its constant labels
    collectors,     \* of the manager: name -> the node it reads
    schedulers,     \* of the manager: name -> the node it refunds
    failure         \* what ended the process, or ""

vars == <<file, nodes, registry, stage, cursor, metrics, collectors, schedulers, failure>>

Stages == {"reading", "logging", "validating", "units", "collector", "starting", "serving"}
Causes == {"", "log level", "validation", "units", "network", "labels", "registration",
           "schedulers"}
Empty == [x \in {} |-> x]

Init == /\ file \in Configs
        /\ nodes = <<>>
        /\ registry = NewDefaultRegistry
        /\ stage = "reading"
        /\ cursor = 1
        /\ metrics = Empty
        /\ collectors = Empty /\ schedulers = Empty
        /\ failure = ""

Die(cause) ==
    /\ failure' = cause
    /\ UNCHANGED <<file, nodes, registry, stage, cursor, metrics, collectors, schedulers>>

(***************************************************************************)
(* pkg/config.                                                             *)
(***************************************************************************)
Override(value, env) == IF env = "" THEN value ELSE env

NormalizeAutoRefund(ar) ==
    [ar EXCEPT !.faucetUrl = Override(@, ar.faucetUrlEnv),
               !.timeout = IF @ = 0 THEN 30 ELSE @,
               !.schedule = IF @ = Nil THEN [fields |-> "every", interval |-> 1800 * second]
                            ELSE @]

Unmarshaled(unit) == IF unit = Nil THEN Nil ELSE UnmarshalUnit(unit)

Normalize(n) ==
    [n EXCEPT !.unit = Unmarshaled(@),
              !.metricsUnit = Unmarshaled(IF @ = Nil THEN n.unit ELSE @),
              !.httpAddr = Override(@, n.httpAddrEnv),
              !.autoRefund = IF @ = Nil THEN Nil ELSE NormalizeAutoRefund(@),
              !.accounts = [i \in DOMAIN @ |->
                              [@[i] EXCEPT !.address = Override(@, n.accounts[i].addressEnv)]]]

RefundEnabled(account) == account.refundThreshold # Nil /\ account.refundTarget # Nil

Accounts(n) == {n.accounts[i] : i \in DOMAIN n.accounts}

IsAutoRefundEnabled(n) ==
    /\ n.autoRefund # Nil /\ n.autoRefund.enabled /\ n.autoRefund.faucetUrl # ""
    /\ \E account \in Accounts(n) : RefundEnabled(account)

(***************************************************************************)
(* pkg/validation.                                                         *)
(***************************************************************************)
ValidateGlobal(global) ==
    /\ global.metricsAddr # ""
    /\ global.logLevel \in {"debug", "info", "warn", "error"}

ValidateCommonFields(n) == n.name # "" /\ n.accounts # <<>>

ValidateRefundThreshold(n) ==
    \A account \in Accounts(n) :
        RefundEnabled(account) => account.refundThreshold < account.refundTarget

ValidateUnitWithConfig(n, validUnits) ==
    n.unit # Nil /\ {n.unit, n.metricsUnit} \ {Nil} \subseteq validUnits

ValidateHTTPAddress(n) ==
    \/ n.httpAddr = "http"
    \/ n.httpAddr = "https" /\ n.httpSSLVerify \in {"true", "false"}

\* Mutant: the names that were seen are not remembered.
ValidateEVMAccountsUnseen(n) ==
    /\ \A account \in Accounts(n) :
          account.name # "" /\ account.address \in ChecksumAddresses
    /\ ValidateRefundThreshold(n)

ValidateEVMAccounts(n) ==
    /\ \A account \in Accounts(n) :
          account.name # "" /\ account.address \in ChecksumAddresses
    /\ \A i, j \in DOMAIN n.accounts :
          n.accounts[i].name = n.accounts[j].name => i = j
    /\ ValidateRefundThreshold(n)

ValidateEVM(n) ==
    /\ ValidateCommonFields(n)
    /\ ValidateHTTPAddress(n)
    /\ n.module = "erc20" \/ ValidateUnitWithConfig(n, {"eth", "wei", "gwei"})
    /\ ValidateEVMAccounts(n)

ValidateERC20(n) ==
    /\ ValidateEVM(n)
    /\ n.autoUnitDiscovery \/ (n.unit # Nil /\ n.metricsUnit # Nil)
    /\ n.contractAddr \in ChecksumAddresses

\* Only the form of a Cosmos account is looked at.
ValidateCosmos(n) ==
    /\ ValidateCommonFields(n)
    /\ n.grpcAddr = "port"
    /\ ValidateUnitWithConfig(n, {"cosm", "ucosm"})
    /\ \A account \in Accounts(n) : account.address \in WasmAddresses

ValidateNode(n) == \/ n.module = "evm" /\ ValidateEVM(n)
                   \/ n.module = "erc20" /\ ValidateERC20(n)
                   \/ n.module = "cosmos" /\ ValidateCosmos(n)

ValidateConfig ==
    ValidateGlobal(file.global) /\ \A i \in DOMAIN nodes : ValidateNode(nodes[i])

(***************************************************************************)
(* main, up to the loop over the nodes.                                    *)
(***************************************************************************)
ReadConfig ==
    /\ stage = "reading"
    /\ nodes' = [i \in DOMAIN file.nodes |-> Normalize(file.nodes[i])]
    /\ stage' = "logging"
    /\ UNCHANGED <<file, registry, cursor, metrics, collectors, schedulers, failure>>

\* zap knows levels that the validator does not.
InitLogger ==
    /\ stage = "logging"
    /\ IF file.global.logLevel
            \in {"", "debug", "info", "warn", "error", "dpanic", "panic", "fatal"}
       THEN /\ stage' = "validating"
            /\ UNCHANGED <<file, nodes, registry, cursor, metrics, collectors, schedulers,
                           failure>>
       ELSE Die("log level")

Validate ==
    /\ stage = "validating"
    /\ IF ValidateConfig
       THEN /\ stage' = "units"
            /\ UNCHANGED <<file, nodes, registry, cursor, metrics, collectors, schedulers,
                           failure>>
       ELSE Die("validation")

(***************************************************************************)
(* The loop: units, collector, registration.                               *)
(***************************************************************************)
\* Mutant: discovery is left to the metrics unit.
BaseUnitNameConfigured(n, meta) == IF n.unit = Nil THEN "" ELSE n.unit

BaseUnitName(n, meta) ==
    IF n.unit \in {Nil, ""} /\ n.autoUnitDiscovery THEN Atomic(meta.symbol)
    ELSE IF n.unit = Nil THEN "" ELSE n.unit

MetricsUnitName(n, meta) ==
    IF n.metricsUnit \in {Nil, ""} /\ n.autoUnitDiscovery THEN Lower[meta.symbol]
    ELSE IF n.metricsUnit = Nil THEN "" ELSE n.metricsUnit

\* The names that ResolveUnits goes on with, if it does not return an error.
UnitsResolved(n, meta) ==
    LET base == BaseUnitName(n, meta)
        display == MetricsUnitName(n, meta)
        pairs == EnsureUnitPair(registry, base, display, meta.decimals)
    IN  /\ base # "" /\ display # ""
        /\ ~PairRefused(base)
        /\ Known(pairs, base) /\ Known(pairs, display)

ResolveUnits ==
    LET n == nodes[cursor]
        meta == Token[n.contractAddr]
    IN  /\ stage = "units" /\ cursor \in DOMAIN nodes
        /\ IF n.module # "erc20"
           THEN /\ stage' = "collector"
                /\ UNCHANGED <<nodes, registry, failure>>
           ELSE IF meta # Nil /\ UnitsResolved(n, meta)
           THEN LET base == BaseUnitName(n, meta)
                    display == MetricsUnitName(n, meta)
                IN  /\ registry' = EnsureUnitPair(registry, base, display, meta.decimals)
                    /\ nodes' = [nodes EXCEPT ![cursor].unit = Lower[base],
                                              ![cursor].metricsUnit = Lower[display]]
                    /\ stage' = "collector"
                    /\ UNCHANGED failure
           ELSE /\ failure' = "units"
                /\ UNCHANGED <<nodes, registry, stage>>
        /\ UNCHANGED <<file, cursor, metrics, collectors, schedulers>>

\* symbol() and decimals() are asked for over the network.
MetadataFails ==
    /\ stage = "units" /\ cursor \in DOMAIN nodes /\ nodes[cursor].module = "erc20"
    /\ Die("network")

VariableLabels == {"address", "account_name"}

\* NewBaseCollector's labels; those of the file are overwritten.
ConstLabels(n) ==
    [key \in DOMAIN n.labels \union {"exporter_version", "node_name", "module", "unit"} |->
        CASE key = "exporter_version" -> "version"
          [] key = "node_name" -> n.name
          [] key = "module" -> n.module
          [] key = "unit" -> n.metricsUnit
          [] OTHER -> n.labels[key]]

\* A Prometheus registry takes metrics of one name only with the same label
\* names and not twice with the same values.
Registrable(labels) ==
    /\ DOMAIN labels \intersect VariableLabels = {}
    /\ \A i \in DOMAIN metrics :
          DOMAIN metrics[i] = DOMAIN labels /\ metrics[i] # labels

\* Mutant: a node whose metrics are refused is passed over.
BuildCollectorSkips ==
    LET n == nodes[cursor]
    IN  /\ stage = "collector"
        /\ IF n.labels = Nil THEN Die("labels")
           ELSE /\ metrics' = IF Registrable(ConstLabels(n))
                              THEN Put(metrics, cursor, ConstLabels(n)) ELSE metrics
                /\ cursor' = cursor + 1
                /\ stage' = "units"
                /\ UNCHANGED <<file, nodes, registry, collectors, schedulers, failure>>

\* NewCollector connects to nothing, but writes to the map of labels, which
\* is a panic when the node has none; then the collector is registered.
BuildCollector ==
    LET n == nodes[cursor]
    IN  /\ stage = "collector"
        /\ IF n.labels = Nil THEN Die("labels")
           ELSE IF ~Registrable(ConstLabels(n)) THEN Die("registration")
           ELSE /\ metrics' = Put(metrics, cursor, ConstLabels(n))
                /\ cursor' = cursor + 1
                /\ stage' = "units"
                /\ UNCHANGED <<file, nodes, registry, collectors, schedulers, failure>>

(***************************************************************************)
(* The scheduler manager, when a node wants refunds.                       *)
(***************************************************************************)
Last(S) == CHOOSE i \in S : \A j \in S : j <= i

\* A map from the names of these nodes; later ones replace earlier ones.
ByName(S) == [name \in {nodes[i].name : i \in S} |-> Last({i \in S : nodes[i].name = name})]

Refunded == {i \in DOMAIN nodes : IsAutoRefundEnabled(nodes[i])}

NewSchedulerManager ==
    /\ stage = "units" /\ cursor = Len(nodes) + 1
    /\ IF Refunded = {}
       THEN stage' = "serving" /\ UNCHANGED collectors
       ELSE stage' = "starting" /\ collectors' = ByName(DOMAIN nodes)
    /\ UNCHANGED <<file, nodes, registry, cursor, metrics, schedulers, failure>>

\* cron.WithSeconds wants six fields, or a descriptor.
CronAccepts(n) == n.autoRefund.schedule.fields \in {"six", "every"}

\* Mutant: Start returns with the first scheduler.
StartSchedulersOne ==
    LET accepted == {i \in Refunded : CronAccepts(nodes[i])}
        started == {i \in accepted : \A j \in accepted : i <= j}
    IN  /\ stage \in {"starting", "serving"} /\ collectors # Empty /\ schedulers = Empty
        /\ IF started = {} THEN Die("schedulers")
           ELSE /\ schedulers' = ByName(started)
                /\ UNCHANGED <<file, nodes, registry, stage, cursor, metrics, collectors,
                               failure>>

\* Start, in a goroutine of its own: nodes that cron refuses are skipped, and
\* the process ends when there is no other.
StartSchedulers ==
    LET started == {i \in Refunded : CronAccepts(nodes[i])}
    IN  /\ stage \in {"starting", "serving"} /\ collectors # Empty /\ schedulers = Empty
        /\ IF started = {} THEN Die("schedulers")
           ELSE /\ schedulers' = ByName(started)
                /\ UNCHANGED <<file, nodes, registry, stage, cursor, metrics, collectors,
                               failure>>

Serve ==
    /\ stage = "starting"
    /\ stage' = "serving"
    /\ UNCHANGED <<file, nodes, registry, cursor, metrics, collectors, schedulers, failure>>

ListenFails == stage = "serving" /\ Die("network")

Step == ReadConfig \/ InitLogger \/ Validate \/ ResolveUnits \/ BuildCollector
            \/ NewSchedulerManager \/ Serve
Starter == StartSchedulers
Network == MetadataFails \/ ListenFails

Next == failure = "" /\ (Step \/ Starter \/ Network)

Spec == Init /\ [][Next]_vars /\ WF_vars(failure = "" /\ Step)
             /\ WF_vars(failure = "" /\ Starter)

(***************************************************************************)
(* Properties.                                                             *)
(***************************************************************************)
Served == DOMAIN metrics

\* Types; nodes are prepared one after the other, and the loop does not end
\* before the last of them.
TypeOK == /\ stage \in Stages /\ failure \in Causes
          /\ Len(nodes) \in {0, Len(file.nodes)}
          /\ DOMAIN registry \subseteq UnitNames
          /\ Served = 1 .. cursor - 1
          /\ stage \in {"starting", "serving"} => Served = DOMAIN nodes
          /\ DOMAIN schedulers \subseteq DOMAIN collectors

\* Through everything that tokens add to the registry, a conversion keeps its
\* reverse: the scheduler converts with the one what the collector has
\* converted with the other.
RoundTrip == Reciprocal(registry)

\* No two tokens mean different things by a pair of units, and none by a pair
\* of the default ones.
TokensAgree ==
    LET resolved == Served \union (IF stage = "collector" THEN {cursor} ELSE {})
        tokens == {i \in resolved : nodes[i].module = "erc20"}
    IN  /\ \A i \in tokens :
              ~{nodes[i].unit, nodes[i].metricsUnit} \subseteq DOMAIN NewDefaultRegistry
        /\ \A i, j \in tokens :
              {nodes[i].unit, nodes[i].metricsUnit} = {nodes[j].unit, nodes[j].metricsUnit}
                  => /\ nodes[i].unit = nodes[j].unit
                     /\ Token[nodes[i].contractAddr].decimals
                            = Token[nodes[j].contractAddr].decimals

Worth(n) == IF n.unit = n.metricsUnit THEN 0
            ELSE IF n.module = "erc20" THEN -Token[n.contractAddr].decimals
            ELSE Exponent(NewDefaultRegistry, n.unit, n.metricsUnit)

\* A node that has a collector can convert its balances and its thresholds,
\* whatever nodes are prepared after it; and by the right factor, as long as
\* no other token has other ideas about the same two units.
BalancesConvert ==
    \A i \in Served :
        LET n == nodes[i]
        IN  /\ Converts(registry, n.unit, n.metricsUnit)
            /\ Converts(registry, n.metricsUnit, n.unit)
            /\ TokensAgree => Exponent(registry, n.unit, n.metricsUnit) = Worth(n)

\* No account's series is overwritten by another's, of its node or of any
\* other: what the validators ask of account names, the labels that are added
\* and what the Prometheus registry refuses suffice for that together.
\* Cosmos accounts may have one name and one address.
EveryAccountHasItsSeries ==
    LET Series(i, account) == <<metrics[i], account.address, account.name>>
        EVM == {i \in Served : nodes[i].module # "cosmos"}
    IN  \A i, j \in EVM : \A k \in DOMAIN nodes[i].accounts, l \in DOMAIN nodes[j].accounts :
            Series(i, nodes[i].accounts[k]) = Series(j, nodes[j].accounts[l])
                => i = j /\ k = l

Scheduled(i) == schedulers # Empty /\ i \in Refunded /\ CronAccepts(nodes[i])

\* Every node that asks for refunds with a schedule that cron accepts gets
\* them, from balances read at the node itself: unless two nodes share a name,
\* which the validators and the Prometheus registry let pass when there is
\* any other difference.
SchedulersReadTheirNode ==
    \A i \in DOMAIN nodes :
        Scheduled(i) /\ (\A j \in DOMAIN nodes : nodes[j].name = nodes[i].name => j = i)
            => /\ nodes[i].name \in DOMAIN schedulers
               /\ schedulers[nodes[i].name] = i /\ collectors[nodes[i].name] = i

\* What is left to luck by the validators.
Blank(name) == name # Nil /\ (name = "" \/ Trim[name] # name)
HasUnits(n) ==
    n.module = "erc20" => /\ Token[n.contractAddr] # Nil
                          /\ ~Blank(Token[n.contractAddr].symbol)
                          /\ ~Blank(n.unit) /\ ~Blank(n.metricsUnit)
Sound ==
    /\ \A i \in DOMAIN nodes :
          /\ nodes[i].labels # Nil /\ DOMAIN nodes[i].labels \intersect VariableLabels = {}
          /\ HasUnits(nodes[i])
    /\ \A i, j \in DOMAIN nodes :
          /\ DOMAIN nodes[i].labels = DOMAIN nodes[j].labels
          /\ nodes[i].name = nodes[j].name => i = j
    /\ Refunded # {} => \E i \in Refunded : CronAccepts(nodes[i])

\* A configuration that is valid, and sound beyond what is validated, gets as
\* far as serving and refunding, unless the network fails.
SoundConfigStarts ==
    stage = "units" /\ Sound
        ~> \/ stage = "serving" /\ (Refunded # {} => schedulers # Empty)
           \/ failure = "network"

\* "Validate configuration before any network operations.  This catches
\* config errors early without needing to connect to nodes": what is wrong
\* with a configuration shows before the first node is prepared.
ConfigErrorsAreCaughtEarly ==
    stage \in {"units", "collector", "starting", "serving"} => failure \in {"", "network"}

(***************************************************************************)
(* What the schedules leave to the cycles of the schedulers.               *)
(***************************************************************************)
\* What scheduleInterval makes of a schedule, fractions of a second included.
\* It is not the pace that cron fires at, which drops them (see RefundCycle).
Interval(i) == nodes[i].autoRefund.schedule.interval

minTimeout == MinTimeout(MAX_FAUCET_RETRIES, PER_ATTEMPT_TIMEOUT, second,
                         PROCESSING_OVERHEAD_BUFFER)

CycleTimeoutOf(i) == CycleTimeout(minTimeout, nodes[i].autoRefund.timeout * second,
                                  Interval(i), CYCLE_SAFETY_MARGIN)

\* Configured timeouts, small, absent or negative, never take from the time
\* that the retries need; only a schedule does.
BudgetKept ==
    \A i \in DOMAIN nodes :
        Scheduled(i) /\ (Interval(i) = 0 \/ Interval(i) >= minTimeout + CYCLE_SAFETY_MARGIN)
            => CycleTimeoutOf(i) >= minTimeout

\* However much of a cycle is left when a call begins to wait for its
\* confirmation, it polls at least once before it gives up, unless not even
\* the shortest poll interval is left.
PollsBeforeTimeout ==
    \A i \in DOMAIN nodes : Scheduled(i) =>
        \A left \in 2 * second + 1 .. CycleTimeoutOf(i) :
            LET wait == ConfirmationTimeout(PER_ATTEMPT_TIMEOUT, left, second)
            IN  AdaptivePoll(wait, second) < wait
=============================================================================
