--------------------------- MODULE StartupProofs ---------------------------
(***************************************************************************)
(* Theorems about Startup: the registry's conversions can be undone,       *)
(* whatever tokens are met in whatever order, and what the arithmetic of   *)
(* the timeouts guarantees for every schedule and every timeout.           *)
(***************************************************************************)
EXTENDS Startup, TLAPS

(***************************************************************************)
(* The registry.                                                           *)
(***************************************************************************)
\* The rates are integers, so that a sign can be taken back.
Rates(r) == \A u \in DOMAIN r : \A v \in DOMAIN r[u] : r[u][v] \in Int

\* A unit that is new has no rates, so none that lacks a reverse.
LEMMA EnsureUnitKeeps ==
    ASSUME NEW r, NEW name, Reciprocal(r), Rates(r)
    PROVE  /\ Reciprocal(EnsureUnit(r, name)) /\ Rates(EnsureUnit(r, name))
           /\ Lower[name] \in DOMAIN EnsureUnit(r, name)
           /\ DOMAIN r \subseteq DOMAIN EnsureUnit(r, name)
<1> DEFINE s == EnsureUnit(r, name)
           none == [other \in {} |-> 0]
<1>1. CASE Known(r, name)
  BY <1>1 DEF EnsureUnit, Known
<1>2. CASE ~Known(r, name)
  <2>1. s = Put(r, Lower[name], none)
    BY <1>2 DEF EnsureUnit, Register
  <2>2. /\ DOMAIN s = DOMAIN r \union {Lower[name]}
        /\ s[Lower[name]] = none
        /\ \A k \in DOMAIN r : s[k] = r[k]
    BY <2>1, <1>2 DEF Known, Put
  <2>3. DOMAIN none = {}
    OBVIOUS
  <2> HIDE DEF s, none
  <2>4. ASSUME NEW u \in DOMAIN s, NEW v \in DOMAIN s[u]
        PROVE  /\ v \in DOMAIN s /\ u \in DOMAIN s[v]
               /\ s[v][u] = -s[u][v] /\ s[u][v] \in Int
    <3>1. u \in DOMAIN r /\ s[u] = r[u]
      BY <2>2, <2>3, <2>4
    <3>2. v \in DOMAIN r /\ u \in DOMAIN r[v] /\ r[v][u] = -r[u][v] /\ r[u][v] \in Int
      BY <3>1, <2>4 DEF Reciprocal, Rates
    <3> QED
      BY <3>1, <3>2, <2>2
  <2>5. Reciprocal(s) /\ Rates(s)
    BY <2>4 DEF Reciprocal, Rates
  <2> QED
    BY <2>2, <2>5 DEF s
<1> QED
  BY <1>1, <1>2

\* The two rates of a pair are written together, and are each other's reverse;
\* no other rate is touched.
LEMMA EnsureUnitPairKeeps ==
    ASSUME NEW r, NEW b \in UnitNames, NEW d \in UnitNames, NEW decimals \in Int,
           Reciprocal(r), Rates(r)
    PROVE  LET s == EnsureUnitPair(r, b, d, decimals) IN Reciprocal(s) /\ Rates(s)
<1> DEFINE base == Normalized(b)
           display == Normalized(d)
           one == EnsureUnit(r, base)
           both == EnsureUnit(one, display)
           s == EnsureUnitPair(r, b, d, decimals)
<1>1. Reciprocal(one) /\ Rates(one) /\ Lower[base] \in DOMAIN one
  BY EnsureUnitKeeps
<1>2. CASE display \in {"", base}
  BY <1>1, <1>2 DEF EnsureUnitPair
<1>3. CASE display \notin {"", base}
  <2>1. Lower[base] = base /\ Lower[display] = display
    BY UnitNamesAssumption DEF Normalized
  <2>2. /\ Reciprocal(both) /\ Rates(both)
        /\ base \in DOMAIN both /\ display \in DOMAIN both
    BY <1>1, <2>1, EnsureUnitKeeps
  <2>3. s = [both EXCEPT ![base] = Put(@, display, -decimals),
                         ![display] = Put(@, base, decimals)]
    BY <1>3 DEF EnsureUnitPair
  <2> DEFINE atBase == Put(both[base], display, -decimals)
             atDisplay == Put(both[display], base, decimals)
  <2> HIDE DEF both, s, base, display
  <2>4. /\ DOMAIN s = DOMAIN both
        /\ s[base] = atBase /\ s[display] = atDisplay
        /\ \A u \in DOMAIN both \ {base, display} : s[u] = both[u]
    BY <2>2, <2>3, <1>3
  <2>5. /\ DOMAIN atBase = DOMAIN both[base] \union {display}
        /\ atBase[display] = -decimals
        /\ \A v \in DOMAIN both[base] \ {display} : atBase[v] = both[base][v]
    BY DEF Put
  <2>6. /\ DOMAIN atDisplay = DOMAIN both[display] \union {base}
        /\ atDisplay[base] = decimals
        /\ \A v \in DOMAIN both[display] \ {base} : atDisplay[v] = both[display][v]
    BY DEF Put
  <2> HIDE DEF atBase, atDisplay
  <2> DEFINE Paired(u, v) == (u = base /\ v = display) \/ (u = display /\ v = base)
  <2>7. \A u \in DOMAIN s : \A v :
           /\ Paired(u, v) => v \in DOMAIN s[u]
           /\ ~Paired(u, v) => /\ v \in DOMAIN s[u] <=> v \in DOMAIN both[u]
                               /\ v \in DOMAIN both[u] => s[u][v] = both[u][v]
    BY <2>4, <2>5, <2>6
  <2>8. ASSUME NEW u \in DOMAIN s, NEW v \in DOMAIN s[u]
        PROVE  /\ v \in DOMAIN s /\ u \in DOMAIN s[v]
               /\ s[v][u] = -s[u][v] /\ s[u][v] \in Int
    <3>1. CASE Paired(u, v)
      BY <3>1, <2>2, <2>4, <2>5, <2>6
    <3>2. CASE ~Paired(u, v)
      <4>1. v \in DOMAIN both[u] /\ s[u][v] = both[u][v] /\ u \in DOMAIN both
        BY <3>2, <2>7, <2>8, <2>4
      <4>2. v \in DOMAIN both /\ u \in DOMAIN both[v] /\ both[v][u] = -both[u][v]
            /\ both[u][v] \in Int
        BY <4>1, <2>2 DEF Reciprocal, Rates
      <4>3. ~Paired(v, u)
        BY <3>2
      <4>4. u \in DOMAIN s[v] /\ s[v][u] = both[v][u]
        BY <4>2, <4>3, <2>4, <2>7
      <4> QED
        BY <4>1, <4>2, <4>4, <2>4
    <3> QED
      BY <3>1, <3>2
  <2> QED
    BY <2>8 DEF Reciprocal, Rates, s
<1> QED
  BY <1>2, <1>3

(***************************************************************************)
(* What is known of a node while the program prepares it: the names of     *)
(* its units, and, once it is validated, where its token is.               *)
(***************************************************************************)
Prepared(n) ==
    /\ DOMAIN n = NodeFields
    /\ n.unit \in UnitNames \union {Nil} /\ n.metricsUnit \in UnitNames \union {Nil}
    /\ n.unit # Nil => n.metricsUnit # Nil
    /\ n.autoRefund # Nil =>
          n.autoRefund.timeout \in Int /\ n.autoRefund.schedule.interval \in Nat

Defaults == DOMAIN NewDefaultRegistry

Validated(n) ==
    /\ n.module = "erc20" => n.contractAddr \in ChecksumAddresses
    /\ n.module # "erc20" =>
          /\ {n.unit, n.metricsUnit} \subseteq Defaults
          /\ n.unit = n.metricsUnit \/ n.metricsUnit \in DOMAIN NewDefaultRegistry[n.unit]
    /\ n.module # "cosmos" =>
          \A k, l \in DOMAIN n.accounts : n.accounts[k].name = n.accounts[l].name => k = l

NodesInv ==
    /\ \A i \in DOMAIN nodes : Prepared(nodes[i])
    /\ stage \notin {"reading", "logging", "validating"}
          => \A i \in DOMAIN nodes : Validated(nodes[i])

\* The metrics registered so far are those of nodes that were validated, and
\* no two are alike.
MetricsInv ==
    /\ Served \subseteq DOMAIN nodes
    /\ stage \in {"reading", "logging", "validating"} => Served = {}
    /\ stage = "collector" => cursor \in DOMAIN nodes
    /\ \A i, j \in Served : metrics[i] = metrics[j] => i = j

IInv == NodesInv /\ MetricsInv /\ file \in Configs /\ RoundTrip /\ Rates(registry)

LEMMA NormalizePrepares ==
    ASSUME NEW f \in Configs, NEW i \in DOMAIN f.nodes
    PROVE  Prepared(Normalize(f.nodes[i]))
<1> DEFINE n == f.nodes[i]
           m == Normalize(n)
<1>1. /\ DOMAIN n = NodeFields
      /\ n.unit \in UnitNames \union {Nil} /\ n.metricsUnit \in UnitNames \union {Nil}
      /\ n.autoRefund # Nil =>
            /\ DOMAIN n.autoRefund = AutoRefundFields
            /\ n.autoRefund.timeout \in Int
            /\ n.autoRefund.schedule = Nil \/ n.autoRefund.schedule.interval \in Nat
  BY ConfigsAssumption
<1> HIDE DEF n
<1>2. DOMAIN m = NodeFields
  BY <1>1 DEF Normalize
<1>3. /\ m.unit = Unmarshaled(n.unit)
      /\ m.metricsUnit = Unmarshaled(IF n.metricsUnit = Nil THEN n.unit ELSE n.metricsUnit)
      /\ m.autoRefund = IF n.autoRefund = Nil THEN Nil ELSE NormalizeAutoRefund(n.autoRefund)
  BY <1>1 DEF Normalize, NodeFields
<1>4. \A u \in UnitNames \union {Nil} :
         Unmarshaled(u) \in UnitNames \union {Nil} /\ (Unmarshaled(u) = Nil <=> u = Nil)
  <2>1. \A u \in UnitNames : Lower[u] \in UnitNames
    BY UnitNamesAssumption
  <2>2. \A u \in UnitNames : u # Nil
    BY NilAssumption
  <2> QED
    BY <2>1, <2>2 DEF Unmarshaled, UnmarshalUnit
<1>5. n.autoRefund # Nil =>
         LET ar == NormalizeAutoRefund(n.autoRefund)
         IN  ar.timeout \in Int /\ ar.schedule.interval \in Nat
  BY <1>1 DEF NormalizeAutoRefund, AutoRefundFields, second
<1> QED
  BY <1>1, <1>2, <1>3, <1>4, <1>5 DEF Prepared, n

\* The names that a node gets from its token are names of units.
LEMMA ResolvedNames ==
    ASSUME NEW n, Prepared(n), NEW address \in ChecksumAddresses, Token[address] # Nil
    PROVE  /\ BaseUnitName(n, Token[address]) \in UnitNames
           /\ MetricsUnitName(n, Token[address]) \in UnitNames
           /\ Token[address].decimals \in Int
<1>1. LET meta == Token[address] IN
      /\ meta.decimals \in 0 .. 255
      /\ meta.symbol \in UnitNames /\ Atomic(meta.symbol) \in UnitNames
  BY TokenAssumption
<1>2. Lower[Token[address].symbol] \in UnitNames /\ "" \in UnitNames
  BY <1>1, UnitNamesAssumption
<1>3. n.unit \in UnitNames \union {Nil} /\ n.metricsUnit \in UnitNames \union {Nil}
  BY DEF Prepared
<1>4. BaseUnitName(n, Token[address]) \in UnitNames
  BY <1>1, <1>2, <1>3 DEF BaseUnitName
<1>5. MetricsUnitName(n, Token[address]) \in UnitNames
  BY <1>1, <1>2, <1>3 DEF MetricsUnitName
<1>6. Token[address].decimals \in Int
  BY <1>1
<1> QED
  BY <1>4, <1>5, <1>6

\* The units of a node without a token are among those the registry knows
\* from the start, and convert into each other.
LEMMA ValidUnits ==
    ASSUME NEW n, Prepared(n), NEW units,
           units = {"eth", "wei", "gwei"} \/ units = {"cosm", "ucosm"},
           ValidateUnitWithConfig(n, units)
    PROVE  /\ {n.unit, n.metricsUnit} \subseteq Defaults
           /\ n.unit = n.metricsUnit \/ n.metricsUnit \in DOMAIN NewDefaultRegistry[n.unit]
<1>1. n.unit \in units /\ n.metricsUnit \in units
  BY DEF ValidateUnitWithConfig, Prepared
<1>2. Defaults = {"eth", "wei", "gwei", "cosm", "ucosm"}
  BY DEF Defaults, NewDefaultRegistry
<1>3. /\ DOMAIN NewDefaultRegistry["eth"] = {"wei", "gwei"}
      /\ DOMAIN NewDefaultRegistry["wei"] = {"eth", "gwei"}
      /\ DOMAIN NewDefaultRegistry["gwei"] = {"eth", "wei"}
      /\ DOMAIN NewDefaultRegistry["cosm"] = {"ucosm"}
      /\ DOMAIN NewDefaultRegistry["ucosm"] = {"cosm"}
  BY DEF NewDefaultRegistry
<1> QED
  BY <1>1, <1>2, <1>3

LEMMA ValidNode ==
    ASSUME NEW n, Prepared(n), ValidateNode(n)
    PROVE  Validated(n)
<1>1. n.module = "erc20" => n.contractAddr \in ChecksumAddresses
  BY DEF ValidateNode, ValidateERC20
<1>2. n.module # "cosmos" =>
        \A k, l \in DOMAIN n.accounts : n.accounts[k].name = n.accounts[l].name => k = l
  BY DEF ValidateNode, ValidateERC20, ValidateEVM, ValidateEVMAccounts
<1>3. n.module # "erc20" =>
        \/ ValidateUnitWithConfig(n, {"eth", "wei", "gwei"})
        \/ ValidateUnitWithConfig(n, {"cosm", "ucosm"})
  BY DEF ValidateNode, ValidateEVM, ValidateCosmos
<1> QED
  BY <1>1, <1>2, <1>3, ValidUnits DEF Validated

LEMMA InitInv == Init => IInv
<1> SUFFICES ASSUME Init PROVE IInv
  OBVIOUS
<1>1. DOMAIN registry = {"eth", "wei", "gwei", "cosm", "ucosm"}
  BY DEF Init, NewDefaultRegistry
<1>2. RoundTrip /\ Rates(registry)
  <2>1. /\ DOMAIN registry["eth"] = {"wei", "gwei"}
        /\ DOMAIN registry["wei"] = {"eth", "gwei"}
        /\ DOMAIN registry["gwei"] = {"eth", "wei"}
        /\ DOMAIN registry["cosm"] = {"ucosm"} /\ DOMAIN registry["ucosm"] = {"cosm"}
    BY DEF Init, NewDefaultRegistry
  <2>2. /\ registry["eth"]["wei"] = 18 /\ registry["eth"]["gwei"] = 9
        /\ registry["wei"]["eth"] = -18 /\ registry["wei"]["gwei"] = -9
        /\ registry["gwei"]["eth"] = -9 /\ registry["gwei"]["wei"] = 9
        /\ registry["cosm"]["ucosm"] = 6 /\ registry["ucosm"]["cosm"] = -6
    BY DEF Init, NewDefaultRegistry
  <2> QED
    BY <1>1, <2>1, <2>2 DEF RoundTrip, Reciprocal, Rates
<1>3. NodesInv
  <2>1. DOMAIN <<>> = {}
    OBVIOUS
  <2> QED
    BY <2>1 DEF Init, NodesInv
<1>4. MetricsInv
  BY DEF Init, MetricsInv, Served, Empty
<1> QED
  BY <1>2, <1>3, <1>4 DEF IInv, Init

\* The steps that leave the nodes and the registry alone, and do not enter the
\* stages in which the nodes are validated.
Aside == /\ UNCHANGED <<file, nodes, registry, metrics>>
         /\ \/ stage' = stage /\ cursor' = cursor
            \/ stage = "reading" /\ stage' = "logging"
            \/ stage = "logging" /\ stage' = "validating"
            \/ stage = "units" /\ stage' = "collector" /\ cursor' \in DOMAIN nodes
            \/ stage' \in {"starting", "serving"}
                  /\ stage \in {"units", "collector", "starting", "serving"}

LEMMA AsideKeeps == IInv /\ Aside => IInv'
<1> SUFFICES ASSUME IInv, Aside PROVE IInv'
  OBVIOUS
<1>1. NodesInv'
  BY DEF IInv, Aside, NodesInv
<1>2. MetricsInv'
  BY DEF IInv, Aside, MetricsInv, Served
<1> QED
  BY <1>1, <1>2 DEF IInv, Aside, RoundTrip

LEMMA ResolveUnitsKeeps == IInv /\ ResolveUnits => IInv'
<1> SUFFICES ASSUME IInv, ResolveUnits PROVE IInv'
  OBVIOUS
<1> DEFINE n == nodes[cursor]
           meta == Token[n.contractAddr]
           base == BaseUnitName(n, meta)
           display == MetricsUnitName(n, meta)
<1>1. CASE n.module # "erc20"
  <2>1. Aside
    BY <1>1 DEF ResolveUnits, Aside
  <2> QED
    BY <2>1, AsideKeeps
<1>2. CASE n.module = "erc20" /\ ~(meta # Nil /\ UnitsResolved(n, meta))
  <2>1. Aside
    BY <1>2 DEF ResolveUnits, Aside
  <2> QED
    BY <2>1, AsideKeeps
<1>3. CASE n.module = "erc20" /\ meta # Nil /\ UnitsResolved(n, meta)
  <2>1. /\ cursor \in DOMAIN nodes /\ stage = "units" /\ stage' = "collector"
        /\ registry' = EnsureUnitPair(registry, base, display, meta.decimals)
        /\ nodes' = [nodes EXCEPT ![cursor].unit = Lower[base],
                                  ![cursor].metricsUnit = Lower[display]]
        /\ file' = file
    BY <1>3 DEF ResolveUnits
  <2>2. Prepared(n) /\ Validated(n) /\ n.contractAddr \in ChecksumAddresses
    BY <1>3, <2>1 DEF IInv, NodesInv, Validated
  <2>3. base \in UnitNames /\ display \in UnitNames /\ meta.decimals \in Int
    BY <1>3, <2>2, ResolvedNames
  <2>4. Reciprocal(registry') /\ Rates(registry')
    BY <2>1, <2>3, EnsureUnitPairKeeps DEF IInv, RoundTrip
  <2>5. Lower[base] \in UnitNames /\ Lower[display] \in UnitNames
    BY <2>3, UnitNamesAssumption
  <2> HIDE DEF base, display, meta
  <2>6. /\ DOMAIN nodes' = DOMAIN nodes
        /\ nodes'[cursor] = [n EXCEPT !.unit = Lower[base], !.metricsUnit = Lower[display]]
        /\ \A i \in DOMAIN nodes \ {cursor} : nodes'[i] = nodes[i]
    BY <2>1
  <2>7. Prepared(nodes'[cursor]) /\ Validated(nodes'[cursor])
    <3>1. LET m == nodes'[cursor] IN
          /\ DOMAIN m = NodeFields /\ m.unit = Lower[base] /\ m.metricsUnit = Lower[display]
          /\ m.module = n.module /\ m.contractAddr = n.contractAddr
          /\ m.accounts = n.accounts /\ m.autoRefund = n.autoRefund
      BY <2>2, <2>6 DEF Prepared, NodeFields
    <3> QED
      BY <1>3, <2>2, <2>5, <3>1, NilAssumption DEF Prepared, Validated
  <2>8. NodesInv'
    BY <2>1, <2>6, <2>7 DEF IInv, NodesInv
  <2>9. metrics' = metrics /\ cursor' = cursor
    BY DEF ResolveUnits
  <2>10. MetricsInv'
    BY <2>1, <2>6, <2>9 DEF IInv, MetricsInv, Served
  <2> QED
    BY <2>1, <2>4, <2>8, <2>10 DEF IInv, RoundTrip
<1> QED
  BY <1>1, <1>2, <1>3

LEMMA BuildCollectorKeeps == IInv /\ BuildCollector => IInv'
<1> SUFFICES ASSUME IInv, BuildCollector PROVE IInv'
  OBVIOUS
<1> DEFINE labels == ConstLabels(nodes[cursor])
<1>1. CASE nodes[cursor].labels = Nil \/ ~Registrable(labels)
  <2>1. Aside
    BY <1>1 DEF BuildCollector, Die, Aside
  <2> QED
    BY <2>1, AsideKeeps
<1>2. CASE nodes[cursor].labels # Nil /\ Registrable(labels)
  <2>1. /\ metrics' = Put(metrics, cursor, labels)
        /\ stage = "collector" /\ stage' = "units"
        /\ UNCHANGED <<file, nodes, registry>>
    BY <1>2 DEF BuildCollector
  <2>2. \A i \in Served : metrics[i] # labels
    BY <1>2 DEF Registrable, Served
  <2> HIDE DEF labels
  <2>3. /\ Served' = Served \union {cursor} /\ metrics'[cursor] = labels
        /\ \A i \in Served \ {cursor} : metrics'[i] = metrics[i]
    BY <2>1 DEF Put, Served
  <2>4. MetricsInv'
    BY <2>1, <2>2, <2>3 DEF IInv, MetricsInv
  <2>5. NodesInv'
    BY <2>1 DEF IInv, NodesInv
  <2> QED
    BY <2>1, <2>4, <2>5 DEF IInv, RoundTrip
<1> QED
  BY <1>1, <1>2

LEMMA NextInv == IInv /\ [Next]_vars => IInv'
<1> SUFFICES ASSUME IInv, [Next]_vars PROVE IInv'
  OBVIOUS
<1>1. ASSUME NEW cause, Die(cause) PROVE Aside
  BY <1>1 DEF Die, Aside
<1>2. CASE ReadConfig
  <2>1. \A i \in DOMAIN nodes' : Prepared(nodes'[i])
    BY <1>2, NormalizePrepares DEF ReadConfig, IInv
  <2>2. MetricsInv'
    BY <1>2 DEF ReadConfig, IInv, MetricsInv, Served
  <2> QED
    BY <1>2, <2>1, <2>2 DEF ReadConfig, IInv, NodesInv, RoundTrip
<1>3. CASE InitLogger
  <2>1. Aside
    BY <1>1, <1>3 DEF InitLogger, Aside
  <2> QED
    BY <2>1, AsideKeeps
<1>4. CASE Validate
  <2>1. CASE ValidateConfig
    <3>1. ASSUME NEW i \in DOMAIN nodes PROVE Validated(nodes[i])
      BY <2>1, ValidNode DEF IInv, NodesInv, ValidateConfig
    <3>2. MetricsInv'
      BY <1>4, <2>1 DEF Validate, IInv, MetricsInv, Served
    <3> QED
      BY <1>4, <2>1, <3>1, <3>2 DEF Validate, IInv, NodesInv, RoundTrip
  <2>2. CASE ~ValidateConfig
    BY <1>1, <1>4, <2>2, AsideKeeps DEF Validate
  <2> QED
    BY <2>1, <2>2
<1>5. CASE ResolveUnits
  BY <1>5, ResolveUnitsKeeps
<1>6. CASE BuildCollector
  BY <1>6, BuildCollectorKeeps
<1>7. CASE NewSchedulerManager \/ Serve \/ StartSchedulers
  <2>1. Aside
    BY <1>1, <1>7 DEF NewSchedulerManager, Serve, StartSchedulers, Aside
  <2> QED
    BY <2>1, AsideKeeps
<1>8. CASE MetadataFails \/ ListenFails
  BY <1>1, <1>8, AsideKeeps DEF MetadataFails, ListenFails
<1>9. CASE UNCHANGED vars
  BY <1>9, AsideKeeps DEF vars, Aside
<1> QED
  BY <1>2, <1>3, <1>4, <1>5, <1>6, <1>7, <1>8, <1>9 DEF Next, Step, Starter, Network

\* Whatever tokens the nodes have, and whatever the files call their units,
\* every conversion the registry ever offers can be undone.
THEOREM RegistryRoundTrip == Spec => []RoundTrip
<1>1. IInv => RoundTrip
  BY DEF IInv
<1> QED
  BY <1>1, InitInv, NextInv, PTL DEF Spec

\* However many nodes and accounts there are, no account writes to the series
\* of another.
THEOREM AccountsDoNotCollide == Spec => []EveryAccountHasItsSeries
<1>1. IInv => EveryAccountHasItsSeries
  <2> SUFFICES ASSUME IInv,
                      NEW i \in Served, NEW j \in Served,
                      nodes[i].module # "cosmos", nodes[j].module # "cosmos",
                      NEW k \in DOMAIN nodes[i].accounts, NEW l \in DOMAIN nodes[j].accounts,
                      metrics[i] = metrics[j],
                      nodes[i].accounts[k].name = nodes[j].accounts[l].name
               PROVE  i = j /\ k = l
    BY DEF EveryAccountHasItsSeries
  <2>1. i = j
    BY DEF IInv, MetricsInv
  <2>2. Validated(nodes[i])
    BY DEF IInv, MetricsInv, NodesInv
  <2> QED
    BY <2>1, <2>2 DEF Validated
<1> QED
  BY <1>1, InitInv, NextInv, PTL DEF Spec

(***************************************************************************)
(* The arithmetic of the timeouts.                                         *)
(***************************************************************************)
\* However long a cycle is, a wait in it polls before it gives up.
THEOREM WaitsPoll == Spec => []PollsBeforeTimeout
<1>1. PollsBeforeTimeout
  <2> SUFFICES ASSUME NEW i \in DOMAIN nodes,
                      NEW left \in 2 * second + 1 .. CycleTimeoutOf(i)
               PROVE  AdaptivePoll(ConfirmationTimeout(PER_ATTEMPT_TIMEOUT, left, second),
                                   second)
                        < ConfirmationTimeout(PER_ATTEMPT_TIMEOUT, left, second)
    BY DEF PollsBeforeTimeout
  <2>1. left \in Int /\ left > 4
    BY DEF second
  <2> DEFINE wait == ConfirmationTimeout(PER_ATTEMPT_TIMEOUT, left, second)
  <2>2. wait \in Int /\ wait > 4 /\ wait <= 30
    BY <2>1 DEF ConfirmationTimeout, PER_ATTEMPT_TIMEOUT, Smaller, second
  <2> HIDE DEF wait
  <2>3. AdaptivePoll(wait, second) < wait
    BY <2>2 DEF AdaptivePoll, Larger, Smaller, second
  <2> QED
    BY <2>3 DEF wait
<1> QED
  BY <1>1, PTL

\* The pauses sum up as the squares do.
LEMMA BackoffSums ==
    /\ TotalBackoff[0] = 0
    /\ \A n \in Nat : TotalBackoff[n + 1] = TotalBackoff[n] + (n + 1) * (n + 1)
<1> DEFINE Sixfold(n) == n * (n + 1) * (2 * n + 1)
           closed == [n \in Nat |-> Sixfold(n) \div 6]
           Recursion(f) == [n \in Nat |-> IF n = 0 THEN 0 ELSE f[n - 1] + n * n]
<1>1. closed = Recursion(closed)
  <2>1. \A x, y \in Int : (x + 6 * y) \div 6 = x \div 6 + y
    OBVIOUS
  <2>2. closed[0] = 0
    OBVIOUS
  <2>3. ASSUME NEW n \in Nat, n # 0 PROVE closed[n] = closed[n - 1] + n * n
    <3>1. n - 1 \in Nat /\ Sixfold(n - 1) \in Int /\ n * n \in Int
      BY <2>3
    <3>2. Sixfold(n) = Sixfold(n - 1) + 6 * (n * n)
      BY <2>3
    <3>3. Sixfold(n) \div 6 = Sixfold(n - 1) \div 6 + n * n
      BY <2>1, <3>1, <3>2
    <3> QED
      BY <3>1, <3>3
  <2> HIDE DEF Sixfold
  <2>4. \A n \in Nat : closed[n] = IF n = 0 THEN 0 ELSE closed[n - 1] + n * n
    BY <2>2, <2>3
  <2> QED
    BY <2>4
<1> HIDE DEF closed
<1>2. TotalBackoff = Recursion(TotalBackoff)
  BY <1>1 DEF TotalBackoff
<1> HIDE DEF Recursion
<1>3. \A n \in Nat : Recursion(TotalBackoff)[n] =
                        IF n = 0 THEN 0 ELSE TotalBackoff[n - 1] + n * n
  BY DEF Recursion
<1>4. \A n \in Nat : TotalBackoff[n] = IF n = 0 THEN 0 ELSE TotalBackoff[n - 1] + n * n
  BY <1>2, <1>3
<1>5. \A n \in Nat : n + 1 \in Nat /\ n + 1 # 0 /\ (n + 1) - 1 = n
  OBVIOUS
<1> QED
  BY <1>4, <1>5

\* Three retries of one account take 84 seconds at most.
LEMMA EnoughForRetries == minTimeout = 168
<1>1. TotalBackoff[1] = 1 /\ TotalBackoff[2] = 5 /\ TotalBackoff[3] = 14
  <2>1. TotalBackoff[0 + 1] = TotalBackoff[0] + (0 + 1) * (0 + 1)
    BY BackoffSums
  <2>2. TotalBackoff[1 + 1] = TotalBackoff[1] + (1 + 1) * (1 + 1)
    BY BackoffSums
  <2>3. TotalBackoff[2 + 1] = TotalBackoff[2] + (2 + 1) * (2 + 1)
    BY BackoffSums
  <2>4. TotalBackoff[1] = 1
    BY <2>1, BackoffSums
  <2>5. TotalBackoff[2] = 5
    BY <2>2, <2>4
  <2> QED
    BY <2>3, <2>4, <2>5
<1> QED
  BY <1>1 DEF minTimeout, MinTimeout, MAX_FAUCET_RETRIES, PER_ATTEMPT_TIMEOUT, second,
              PROCESSING_OVERHEAD_BUFFER

\* Whatever timeout a file asks for, the retries have the time they need,
\* unless the schedule itself has not.
THEOREM RetriesKeepTheirBudget == Spec => []BudgetKept
<1>1. IInv => BudgetKept
  <2> SUFFICES ASSUME IInv, NEW i \in DOMAIN nodes, Scheduled(i),
                      \/ Interval(i) = 0
                      \/ Interval(i) >= minTimeout + CYCLE_SAFETY_MARGIN
               PROVE  CycleTimeoutOf(i) >= minTimeout
    BY DEF BudgetKept
  <2>1. Interval(i) \in Nat /\ nodes[i].autoRefund.timeout \in Int
    BY DEF IInv, NodesInv, Prepared, Interval, Scheduled, Refunded, IsAutoRefundEnabled
  <2> QED
    BY <2>1, EnoughForRetries
    DEF CycleTimeoutOf, CycleTimeout, Larger, Smaller, CYCLE_SAFETY_MARGIN, second
<1> QED
  BY <1>1, InitInv, NextInv, PTL DEF Spec

(***************************************************************************)
(* The loop over the nodes, and what the manager is given after it.        *)
(***************************************************************************)
Preparing == {"reading", "logging", "validating"}
Started == {i \in Refunded : CronAccepts(nodes[i])}

\* The nodes are those of the file, in a list of the same length; the loop has
\* served all nodes before its cursor, and is over when the manager starts.
LoopInv ==
    /\ stage \in Stages /\ failure \in Causes
    /\ Len(nodes) \in Nat /\ DOMAIN nodes = 1 .. Len(nodes)
    /\ Len(nodes) \in {0, Len(file.nodes)}
    /\ cursor \in 1 .. Len(nodes) + 1 /\ Served = 1 .. cursor - 1
    /\ stage \in Preparing => cursor = 1
    /\ stage = "collector" => cursor \in DOMAIN nodes
    /\ stage \in {"starting", "serving"} => cursor = Len(nodes) + 1

\* The manager's maps are made of the nodes as they are now: no node is
\* changed once the manager exists.
ManagerInv ==
    /\ \/ collectors = Empty
       \/ stage \in {"starting", "serving"} /\ collectors = ByName(DOMAIN nodes)
    /\ \/ schedulers = Empty
       \/ collectors # Empty /\ schedulers = ByName(Started)

LEMMA LengthOfList ==
    ASSUME NEW n \in Nat, NEW f, f = [i \in 1 .. n |-> f[i]]
    PROVE  Len(f) = n /\ DOMAIN f = 1 .. n
OBVIOUS

LEMMA InitLoop == Init => LoopInv /\ ManagerInv
<1> SUFFICES ASSUME Init PROVE LoopInv /\ ManagerInv
  OBVIOUS
<1>1. Len(nodes) = 0 /\ DOMAIN nodes = {}
  <2>1. Len(<<>>) = 0 /\ DOMAIN <<>> = {}
    OBVIOUS
  <2> QED
    BY <2>1 DEF Init
<1>2. Served = {}
  BY DEF Init, Served, Empty
<1>3. 1 .. 0 = {} /\ 1 .. 1 - 1 = {} /\ 1 \in 1 .. 0 + 1
  OBVIOUS
<1>4. cursor = 1 /\ stage = "reading" /\ failure = "" /\ collectors = Empty
      /\ schedulers = Empty
  BY DEF Init
<1>5. stage \in Stages /\ failure \in Causes /\ stage \notin {"collector", "starting", "serving"}
  BY <1>4 DEF Stages, Causes
<1>6. LoopInv
  <2>1. /\ Len(nodes) \in Nat /\ DOMAIN nodes = 1 .. Len(nodes)
        /\ Len(nodes) \in {0, Len(file.nodes)}
    BY <1>1, <1>3
  <2>2. cursor \in 1 .. Len(nodes) + 1 /\ Served = 1 .. cursor - 1
    BY <1>1, <1>2, <1>3, <1>4
  <2> QED
    BY <2>1, <2>2, <1>4, <1>5 DEF LoopInv
<1>7. ManagerInv
  BY <1>4 DEF ManagerInv
<1> QED
  BY <1>6, <1>7

LEMMA ReadConfigLoops == IInv /\ LoopInv /\ ReadConfig => LoopInv'
<1> SUFFICES ASSUME IInv, LoopInv, ReadConfig PROVE LoopInv'
  OBVIOUS
<1>1. file.nodes \in Seq({file.nodes[i] : i \in DOMAIN file.nodes})
  BY ConfigsAssumption DEF IInv
<1>2. Len(file.nodes) \in Nat /\ DOMAIN file.nodes = 1 .. Len(file.nodes)
  BY <1>1
<1>3. nodes' = [i \in 1 .. Len(file.nodes) |-> Normalize(file.nodes[i])]
  BY <1>2 DEF ReadConfig
<1>4. nodes' = [i \in 1 .. Len(file.nodes) |-> nodes'[i]]
  BY <1>3
<1>5. Len(nodes') = Len(file.nodes) /\ DOMAIN nodes' = 1 .. Len(file.nodes)
  BY <1>2, <1>4, LengthOfList
<1>6. /\ stage = "reading" /\ stage' = "logging"
      /\ UNCHANGED <<file, cursor, metrics, failure>>
  BY DEF ReadConfig
<1>7. cursor = 1 /\ Served = {}
  BY <1>6 DEF LoopInv, Preparing
<1>8. cursor \in 1 .. Len(file.nodes) + 1
  BY <1>2, <1>7
<1>9. Served' = {}
  BY <1>6, <1>7 DEF Served
<1> QED
  BY <1>2, <1>5, <1>6, <1>7, <1>8, <1>9 DEF LoopInv, Stages, Preparing

LEMMA ResolveUnitsLoops == LoopInv /\ ResolveUnits => LoopInv'
<1> SUFFICES ASSUME LoopInv, ResolveUnits PROVE LoopInv'
  OBVIOUS
<1>1. /\ stage = "units" /\ cursor \in DOMAIN nodes
      /\ stage' \in {"units", "collector"}
      /\ UNCHANGED <<file, cursor, metrics>>
      /\ failure' \in {failure, "units"}
  BY DEF ResolveUnits
<1>2. Len(nodes') = Len(nodes) /\ DOMAIN nodes' = DOMAIN nodes
  <2>1. CASE nodes' = nodes
    BY <2>1
  <2>2. CASE nodes' # nodes
    <3>1. PICK u, v : nodes' = [nodes EXCEPT ![cursor].unit = u, ![cursor].metricsUnit = v]
      BY <2>2 DEF ResolveUnits
    <3>2. nodes' = [i \in 1 .. Len(nodes) |-> nodes'[i]]
      BY <3>1 DEF LoopInv
    <3> QED
      BY <3>2, LengthOfList DEF LoopInv
  <2> QED
    BY <2>1, <2>2
<1> QED
  BY <1>1, <1>2 DEF LoopInv, Stages, Causes, Preparing, Served

LEMMA BuildCollectorLoops == LoopInv /\ BuildCollector => LoopInv'
<1> SUFFICES ASSUME LoopInv, BuildCollector PROVE LoopInv'
  OBVIOUS
<1>1. stage = "collector" /\ cursor \in DOMAIN nodes /\ UNCHANGED <<file, nodes>>
  BY DEF LoopInv, BuildCollector, Die
<1>2. CASE UNCHANGED <<stage, cursor, metrics>> /\ failure' \in {"labels", "registration"}
  BY <1>1, <1>2 DEF LoopInv, Causes, Served, Preparing
<1>3. CASE /\ metrics' = Put(metrics, cursor, ConstLabels(nodes[cursor]))
           /\ cursor' = cursor + 1 /\ stage' = "units" /\ failure' = failure
  <2>1. Served' = Served \union {cursor}
    BY <1>3 DEF Put, Served
  <2>2. cursor \in 1 .. Len(nodes) /\ cursor' \in 1 .. Len(nodes) + 1
    BY <1>1, <1>3 DEF LoopInv
  <2>3. Served' = 1 .. cursor' - 1
    BY <1>3, <2>1, <2>2 DEF LoopInv
  <2> QED
    BY <1>1, <1>3, <2>2, <2>3 DEF LoopInv, Stages, Preparing
<1> QED
  BY <1>2, <1>3 DEF BuildCollector, Die

LEMMA NextLoop == IInv /\ LoopInv /\ [Next]_vars => LoopInv'
<1> SUFFICES ASSUME IInv, LoopInv, [Next]_vars PROVE LoopInv'
  OBVIOUS
<1> DEFINE Waits == UNCHANGED <<file, nodes, cursor, metrics>>
<1>1. ASSUME Waits, stage' \in Stages, failure' \in Causes,
             \/ stage' = stage
             \/ stage \in Preparing /\ stage' \in Preparing \union {"units"}
             \/ stage' \in {"starting", "serving"} /\ cursor = Len(nodes) + 1
      PROVE  LoopInv'
  BY <1>1 DEF LoopInv, Served, Preparing, Stages
<1>2. ASSUME NEW cause \in Causes, Die(cause) PROVE LoopInv'
  <2>1. Waits /\ stage' = stage /\ failure' = cause
    BY <1>2 DEF Die
  <2> QED
    BY <1>1, <1>2, <2>1 DEF LoopInv
<1> HIDE DEF Waits
<1>3. CASE ReadConfig
  BY <1>3, ReadConfigLoops
<1>4. CASE InitLogger
  <2>1. CASE Die("log level")
    BY <1>2, <2>1 DEF Causes
  <2>2. CASE ~Die("log level")
    <3>1. Waits /\ stage = "logging" /\ stage' = "validating" /\ failure' = failure
      BY <1>4, <2>2 DEF InitLogger, Waits
    <3> QED
      BY <1>1, <3>1 DEF LoopInv, Preparing, Stages
  <2> QED
    BY <2>1, <2>2
<1>5. CASE Validate
  <2>1. CASE Die("validation")
    BY <1>2, <2>1 DEF Causes
  <2>2. CASE ~Die("validation")
    <3>1. Waits /\ stage = "validating" /\ stage' = "units" /\ failure' = failure
      BY <1>5, <2>2 DEF Validate, Waits
    <3> QED
      BY <1>1, <3>1 DEF LoopInv, Preparing, Stages
  <2> QED
    BY <2>1, <2>2
<1>6. CASE ResolveUnits
  BY <1>6, ResolveUnitsLoops
<1>7. CASE BuildCollector
  BY <1>7, BuildCollectorLoops
<1>8. CASE NewSchedulerManager
  <2>1. /\ Waits /\ stage' \in {"starting", "serving"} /\ cursor = Len(nodes) + 1
        /\ failure' = failure
    BY <1>8 DEF NewSchedulerManager, Waits
  <2> QED
    BY <1>1, <2>1 DEF LoopInv, Stages
<1>9. CASE StartSchedulers
  <2>1. CASE Die("schedulers")
    BY <1>2, <2>1 DEF Causes
  <2>2. CASE ~Die("schedulers")
    <3>1. Waits /\ stage' = stage /\ failure' = failure
      BY <1>9, <2>2 DEF StartSchedulers, Waits
    <3> QED
      BY <1>1, <3>1 DEF LoopInv
  <2> QED
    BY <2>1, <2>2
<1>10. CASE Serve
  <2>1. /\ Waits /\ stage' = "serving" /\ cursor = Len(nodes) + 1 /\ failure' = failure
    BY <1>10 DEF Serve, Waits, LoopInv
  <2> QED
    BY <1>1, <2>1 DEF LoopInv, Stages
<1>11. CASE MetadataFails \/ ListenFails
  BY <1>2, <1>11 DEF MetadataFails, ListenFails, Causes
<1>12. CASE UNCHANGED vars
  BY <1>1, <1>12 DEF vars, Waits, LoopInv
<1> QED
  BY <1>3, <1>4, <1>5, <1>6, <1>7, <1>8, <1>9, <1>10, <1>11, <1>12
  DEF Next, Step, Starter, Network

LEMMA NextManager == ManagerInv /\ [Next]_vars => ManagerInv'
<1> SUFFICES ASSUME ManagerInv, [Next]_vars PROVE ManagerInv'
  OBVIOUS
<1>1. ASSUME UNCHANGED <<nodes, collectors, schedulers>>,
             stage \in {"starting", "serving"} => stage' \in {"starting", "serving"}
      PROVE  ManagerInv'
  BY <1>1 DEF ManagerInv, ByName, Started, Refunded
<1>2. ASSUME stage \notin {"starting", "serving"}, UNCHANGED <<collectors, schedulers>>
      PROVE  ManagerInv'
  BY <1>2 DEF ManagerInv
<1>3. CASE ReadConfig \/ ResolveUnits \/ BuildCollector \/ InitLogger \/ Validate \/ MetadataFails
  BY <1>2, <1>3 DEF ReadConfig, ResolveUnits, BuildCollector, InitLogger, Validate,
                    MetadataFails, Die
<1>4. CASE NewSchedulerManager
  <2>1. stage = "units" /\ UNCHANGED <<nodes, schedulers>>
    BY <1>4 DEF NewSchedulerManager
  <2>2. collectors = Empty /\ schedulers = Empty
    BY <2>1 DEF ManagerInv
  <2>3. \/ collectors' = Empty
        \/ stage' = "starting" /\ collectors' = ByName(DOMAIN nodes)
    BY <1>4, <2>2 DEF NewSchedulerManager
  <2> QED
    BY <2>1, <2>2, <2>3 DEF ManagerInv, ByName
<1>5. CASE StartSchedulers
  <2>1. CASE schedulers' = schedulers
    BY <1>1, <1>5, <2>1 DEF StartSchedulers, Die
  <2>2. CASE schedulers' # schedulers
    <3>1. /\ schedulers' = ByName(Started) /\ collectors # Empty
          /\ UNCHANGED <<nodes, stage, collectors>>
      BY <1>5, <2>2 DEF StartSchedulers, Die, Started
    <3> QED
      BY <3>1 DEF ManagerInv, ByName, Started, Refunded
  <2> QED
    BY <2>1, <2>2
<1>6. CASE Serve \/ ListenFails \/ UNCHANGED vars
  BY <1>1, <1>6 DEF Serve, ListenFails, Die, vars
<1> QED
  BY <1>3, <1>4, <1>5, <1>6 DEF Next, Step, Starter, Network

\* However many nodes there are, and whichever of them share a name: a node
\* whose name is its own is refunded from balances read at that node.
THEOREM SchedulersReadTheNodeTheyRefund == Spec => []SchedulersReadTheirNode
<1>1. LoopInv /\ ManagerInv => SchedulersReadTheirNode
  <2> SUFFICES ASSUME LoopInv, ManagerInv, NEW i \in DOMAIN nodes, Scheduled(i),
                      \A j \in DOMAIN nodes : nodes[j].name = nodes[i].name => j = i
               PROVE  /\ nodes[i].name \in DOMAIN schedulers
                      /\ schedulers[nodes[i].name] = i /\ collectors[nodes[i].name] = i
    BY DEF SchedulersReadTheirNode
  <2>1. i \in Started /\ Started \subseteq DOMAIN nodes
    BY DEF Scheduled, Started, Refunded
  <2>2. schedulers = ByName(Started) /\ collectors = ByName(DOMAIN nodes)
    BY DEF ManagerInv, Scheduled
  <2>3. ASSUME NEW S, S \subseteq DOMAIN nodes, i \in S
        PROVE  nodes[i].name \in DOMAIN ByName(S) /\ ByName(S)[nodes[i].name] = i
    <3>1. {j \in S : nodes[j].name = nodes[i].name} = {i}
      BY <2>3
    <3>2. Last({i}) = i
      BY DEF Last, LoopInv
    <3> QED
      BY <2>3, <3>1, <3>2 DEF ByName
  <2> QED
    BY <2>1, <2>2, <2>3
<1> QED
  BY <1>1, InitInv, NextInv, InitLoop, NextLoop, NextManager, PTL DEF Spec

(***************************************************************************)
(* What tokens add to the registry, and what they leave of it.             *)
(***************************************************************************)
\* A unit that is added has no rates yet; the others keep theirs.
LEMMA EnsureUnitAdds ==
    ASSUME NEW r, NEW name, Lower[name] = name
    PROVE  /\ DOMAIN EnsureUnit(r, name) = DOMAIN r \union {name}
           /\ \A u \in DOMAIN r : EnsureUnit(r, name)[u] = r[u]
           /\ name \notin DOMAIN r => DOMAIN EnsureUnit(r, name)[name] = {}
BY DEF EnsureUnit, Known, Register, Put

\* The rates that a token writes when its units have the names base and
\* display; they are the last ones written between these two.
Writes(r, s, base, display, decimals) ==
    /\ DOMAIN s = DOMAIN r \union {base} \union ({display} \ {""})
    /\ \A u \in DOMAIN r : DOMAIN r[u] \subseteq DOMAIN s[u]
    /\ display \notin {"", base} =>
          /\ display \in DOMAIN s[base] /\ s[base][display] = -decimals
          /\ base \in DOMAIN s[display] /\ s[display][base] = decimals
    /\ \A u \in DOMAIN s : \A v \in DOMAIN s[u] :
          \/ display \notin {"", base} /\ u = base /\ v = display
          \/ display \notin {"", base} /\ u = display /\ v = base
          \/ u \in DOMAIN r /\ v \in DOMAIN r[u] /\ s[u][v] = r[u][v]

LEMMA EnsureUnitPairWrites ==
    ASSUME NEW r, NEW b \in UnitNames, NEW d \in UnitNames, NEW decimals \in Int
    PROVE  Writes(r, EnsureUnitPair(r, b, d, decimals), Normalized(b), Normalized(d), decimals)
<1> DEFINE base == Normalized(b)
           display == Normalized(d)
           one == EnsureUnit(r, base)
           both == EnsureUnit(one, display)
           s == EnsureUnitPair(r, b, d, decimals)
<1>1. Lower[base] = base /\ Lower[display] = display
  BY UnitNamesAssumption DEF Normalized
<1>2. s = IF display \in {"", base} THEN one
          ELSE [both EXCEPT ![base] = Put(@, display, -decimals),
                            ![display] = Put(@, base, decimals)]
  BY DEF EnsureUnitPair
<1> HIDE DEF s, base, display
<1>3. /\ DOMAIN one = DOMAIN r \union {base}
      /\ \A u \in DOMAIN r : one[u] = r[u]
      /\ base \notin DOMAIN r => DOMAIN one[base] = {}
  BY <1>1, EnsureUnitAdds
<1> HIDE DEF one
<1>4. /\ DOMAIN both = DOMAIN one \union {display}
      /\ \A u \in DOMAIN one : both[u] = one[u]
      /\ display \notin DOMAIN one => DOMAIN both[display] = {}
  BY <1>1, EnsureUnitAdds
<1> HIDE DEF both
<1>5. CASE display \in {"", base}
  <2>1. s = one
    BY <1>2, <1>5
  <2>2. DOMAIN one = DOMAIN r \union {base} \union ({display} \ {""})
    BY <1>3, <1>5
  <2> QED
    BY <1>3, <1>5, <2>1, <2>2 DEF Writes, s, base, display
<1>6. CASE display \notin {"", base}
  <2> DEFINE atBase == Put(both[base], display, -decimals)
             atDisplay == Put(both[display], base, decimals)
  <2>1. /\ DOMAIN atBase = DOMAIN both[base] \union {display}
        /\ atBase[display] = -decimals
        /\ \A v \in DOMAIN both[base] \ {display} : atBase[v] = both[base][v]
    BY DEF Put
  <2>2. /\ DOMAIN atDisplay = DOMAIN both[display] \union {base}
        /\ atDisplay[base] = decimals
        /\ \A v \in DOMAIN both[display] \ {base} : atDisplay[v] = both[display][v]
    BY DEF Put
  <2>3. s = [both EXCEPT ![base] = atBase, ![display] = atDisplay]
    BY <1>2, <1>6
  <2> HIDE DEF atBase, atDisplay
  <2>4. /\ DOMAIN s = DOMAIN both
        /\ s[base] = atBase /\ s[display] = atDisplay
        /\ \A u \in DOMAIN both \ {base, display} : s[u] = both[u]
    BY <1>3, <1>4, <1>6, <2>3
  <2>5. /\ \A u \in DOMAIN r : both[u] = r[u]
        /\ \A u \in DOMAIN both \ DOMAIN r : DOMAIN both[u] = {}
    BY <1>3, <1>4
  <2>6. DOMAIN s = DOMAIN r \union {base} \union ({display} \ {""})
    BY <1>3, <1>4, <1>6, <2>4
  <2>7. \A u \in DOMAIN r : DOMAIN r[u] \subseteq DOMAIN s[u]
    BY <1>3, <1>4, <2>1, <2>2, <2>4, <2>5
  <2>8. ASSUME NEW u \in DOMAIN s, NEW v \in DOMAIN s[u]
        PROVE  \/ u = base /\ v = display
               \/ u = display /\ v = base
               \/ u \in DOMAIN r /\ v \in DOMAIN r[u] /\ s[u][v] = r[u][v]
    <3>1. CASE u = base /\ v # display
      <4>1. v \in DOMAIN both[base] /\ s[u][v] = both[base][v]
        BY <2>1, <2>4, <2>8, <3>1
      <4>2. base \in DOMAIN r /\ both[base] = r[base]
        BY <1>3, <1>4, <2>5, <4>1
      <4> QED
        BY <3>1, <4>1, <4>2
    <3>2. CASE u = display /\ v # base
      <4>1. v \in DOMAIN both[display] /\ s[u][v] = both[display][v]
        BY <2>2, <2>4, <2>8, <3>2
      <4>2. display \in DOMAIN r /\ both[display] = r[display]
        BY <1>3, <1>4, <2>5, <4>1
      <4> QED
        BY <3>2, <4>1, <4>2
    <3>3. CASE u \notin {base, display}
      BY <2>4, <2>5, <2>8, <3>3
    <3> QED
      BY <3>1, <3>2, <3>3
  <2>9. /\ display \in DOMAIN s[base] /\ s[base][display] = -decimals
        /\ base \in DOMAIN s[display] /\ s[display][base] = decimals
    BY <2>1, <2>2, <2>4
  <2>10. Writes(r, s, base, display, decimals)
    BY <1>6, <2>6, <2>7, <2>8, <2>9 DEF Writes
  <2> QED
    BY <2>10 DEF s, base, display
<1> QED
  BY <1>5, <1>6

\* The tokens whose units are in the registry.
Tokens == {i \in Served \union (IF stage = "collector" THEN {cursor} ELSE {}) :
              nodes[i].module = "erc20"}

\* Where a rate comes from: the defaults, or a token.
ByDefault(r, u, v) == /\ u \in Defaults /\ v \in DOMAIN NewDefaultRegistry[u]
                      /\ r[u][v] = NewDefaultRegistry[u][v]

ByToken(r, n, u, v) ==
    LET decimals == Token[n.contractAddr].decimals
    IN  /\ n.unit # n.metricsUnit
        /\ \/ u = n.unit /\ v = n.metricsUnit /\ r[u][v] = -decimals
           \/ u = n.metricsUnit /\ v = n.unit /\ r[u][v] = decimals

Convertible(r, u, v) ==
    u \in DOMAIN r /\ v \in DOMAIN r /\ (u = v \/ v \in DOMAIN r[u])

\* The registry has its units under names without blanks and in lower case,
\* loses none of the rates it has from the start, has the rates of every
\* token, and has no rate of any other origin.
RegistryInv ==
    /\ \A u \in DOMAIN registry : u \in UnitNames \ {""} /\ Lower[u] = u /\ Trim[u] = u
    /\ Defaults \subseteq DOMAIN registry
    /\ \A u \in Defaults : DOMAIN NewDefaultRegistry[u] \subseteq DOMAIN registry[u]
    /\ \A i \in Tokens : Convertible(registry, nodes[i].unit, nodes[i].metricsUnit)
    /\ \A u \in DOMAIN registry : \A v \in DOMAIN registry[u] :
          ByDefault(registry, u, v) \/ \E i \in Tokens : ByToken(registry, nodes[i], u, v)

LEMMA InitRegistry == Init => RegistryInv
<1> SUFFICES ASSUME Init PROVE RegistryInv
  OBVIOUS
<1>1. registry = NewDefaultRegistry /\ Tokens = {}
  BY DEF Init, Tokens, Served, Empty
<1>2. DOMAIN registry = {"eth", "wei", "gwei", "cosm", "ucosm"}
  BY <1>1 DEF NewDefaultRegistry
<1>3. \A u \in DOMAIN registry : u \in UnitNames \ {""} /\ Lower[u] = u /\ Trim[u] = u
  BY <1>2, UnitNamesAssumption
<1> QED
  BY <1>1, <1>3 DEF RegistryInv, ByDefault, Defaults

\* The steps that leave the registry alone and do not touch a token in it.
LEMMA RegistryStays ==
    ASSUME RegistryInv, registry' = registry, Tokens' = Tokens,
           \A i \in Tokens : nodes'[i] = nodes[i]
    PROVE  RegistryInv'
<1>1. /\ \A u \in DOMAIN registry' : u \in UnitNames \ {""} /\ Lower[u] = u /\ Trim[u] = u
      /\ Defaults \subseteq DOMAIN registry'
      /\ \A u \in Defaults : DOMAIN NewDefaultRegistry[u] \subseteq DOMAIN registry'[u]
  BY DEF RegistryInv
<1>2. \A i \in Tokens' : Convertible(registry', nodes'[i].unit, nodes'[i].metricsUnit)
  BY DEF RegistryInv, Convertible
<1>3. ASSUME NEW u \in DOMAIN registry', NEW v \in DOMAIN registry'[u]
      PROVE  \/ ByDefault(registry', u, v)
             \/ \E i \in Tokens' : ByToken(registry', nodes'[i], u, v)
  <2>1. CASE ByDefault(registry, u, v)
    BY <2>1
  <2>2. CASE \E i \in Tokens : ByToken(registry, nodes[i], u, v)
    <3>1. PICK i \in Tokens : ByToken(registry, nodes[i], u, v)
      BY <2>2
    <3>2. ByToken(registry', nodes'[i], u, v)
      BY <3>1
    <3> QED
      BY <3>2
  <2> QED
    BY <1>3, <2>1, <2>2 DEF RegistryInv
<1> QED
  BY <1>1, <1>2, <1>3 DEF RegistryInv

\* A name that is found as it stands, in lower case, has no blanks to trim.
LEMMA FoundMeansTrimmed ==
    ASSUME NEW name \in UnitNames, Trim[Lower[name]] = Lower[name]
    PROVE  Normalized(name) = Lower[name]
BY UnitNamesAssumption DEF Normalized

LEMMA NormalizedNames ==
    ASSUME NEW name \in UnitNames
    PROVE  LET u == Normalized(name) IN u \in UnitNames /\ Lower[u] = u /\ Trim[u] = u
<1>1. Trim[name] \in UnitNames /\ Trim[Trim[name]] = Trim[name]
  BY UnitNamesAssumption
<1>2. /\ Lower[Trim[name]] \in UnitNames
      /\ Lower[Lower[Trim[name]]] = Lower[Trim[name]]
      /\ Lower[Trim[Trim[name]]] = Trim[Lower[Trim[name]]]
  BY <1>1, UnitNamesAssumption
<1> QED
  BY <1>1, <1>2 DEF Normalized

LEMMA ResolveUnitsRegisters ==
    ASSUME IInv, LoopInv, RegistryInv, ResolveUnits
    PROVE  RegistryInv'
<1> DEFINE n == nodes[cursor]
           meta == Token[n.contractAddr]
           b == BaseUnitName(n, meta)
           d == MetricsUnitName(n, meta)
           base == Normalized(b)
           display == Normalized(d)
<1>1. stage = "units" /\ cursor \in DOMAIN nodes /\ UNCHANGED <<cursor, metrics>>
  BY DEF ResolveUnits
<1>2. cursor \notin Served
  BY <1>1 DEF LoopInv
<1>3. CASE nodes' = nodes /\ registry' = registry /\ (stage' = stage \/ n.module # "erc20")
  <2>1. Tokens' = Tokens
    BY <1>1, <1>3 DEF Tokens, Served, ResolveUnits
  <2> QED
    BY <1>3, <2>1, RegistryStays
<1>4. CASE n.module = "erc20" /\ meta # Nil /\ UnitsResolved(n, meta)
  <2>1. /\ stage' = "collector"
        /\ registry' = EnsureUnitPair(registry, b, d, meta.decimals)
        /\ nodes' = [nodes EXCEPT ![cursor].unit = Lower[b],
                                  ![cursor].metricsUnit = Lower[d]]
    BY <1>4 DEF ResolveUnits
  <2>2. Prepared(n) /\ n.contractAddr \in ChecksumAddresses
    BY <1>1, <1>4 DEF IInv, NodesInv, Validated
  <2>3. b \in UnitNames /\ d \in UnitNames /\ meta.decimals \in Int
    BY <1>4, <2>2, ResolvedNames
  <2>4. base # "" /\ Lower[b] \in DOMAIN registry' /\ Lower[d] \in DOMAIN registry'
    BY <1>4, <2>1 DEF UnitsResolved, PairRefused, Known
  <2>5. Writes(registry, registry', base, display, meta.decimals)
    BY <2>1, <2>3, EnsureUnitPairWrites
  <2>6. /\ base \in UnitNames /\ Lower[base] = base /\ Trim[base] = base
        /\ display \in UnitNames /\ Lower[display] = display /\ Trim[display] = display
    BY <2>3, NormalizedNames
  <2>7. \A i \in DOMAIN nodes \ {cursor} : nodes'[i] = nodes[i]
    BY <2>1
  <2>8. LET m == nodes'[cursor] IN
        /\ m.unit = Lower[b] /\ m.metricsUnit = Lower[d]
        /\ m.module = n.module /\ m.contractAddr = n.contractAddr
    BY <1>1, <2>1, <2>2 DEF Prepared, NodeFields
  <2> HIDE DEF n, b, d, base, display
  <2>9. \A u \in DOMAIN registry' : u \in UnitNames \ {""} /\ Lower[u] = u /\ Trim[u] = u
    BY <2>4, <2>5, <2>6 DEF RegistryInv, Writes
  <2>10. base = Lower[b] /\ display = Lower[d]
    BY <2>3, <2>4, <2>9, FoundMeansTrimmed DEF base, display
  <2>11. base \in DOMAIN registry' /\ display \in DOMAIN registry' /\ display # ""
    BY <2>4, <2>9, <2>10
  <2>12. /\ nodes'[cursor].unit = base /\ nodes'[cursor].metricsUnit = display
         /\ Token[nodes'[cursor].contractAddr] = meta
    BY <2>8, <2>10 DEF n
  <2>13. Tokens' = Tokens \union {cursor} /\ cursor \notin Tokens /\ Tokens \subseteq DOMAIN nodes
    <3>1. Served' = Served /\ Served \subseteq DOMAIN nodes
      BY <1>1 DEF Served, IInv, MetricsInv
    <3>2. Tokens = {i \in Served : nodes[i].module = "erc20"}
      BY <1>1 DEF Tokens
    <3>3. Tokens' = {i \in Served \union {cursor} : nodes'[i].module = "erc20"}
      BY <1>1, <2>1, <3>1 DEF Tokens
    <3>4. \A i \in Served : nodes'[i] = nodes[i]
      BY <1>2, <2>7, <3>1
    <3>5. nodes'[cursor].module = "erc20"
      BY <1>4, <2>8 DEF n
    <3> QED
      BY <1>2, <3>1, <3>2, <3>3, <3>4, <3>5
  <2>14. \A i \in Tokens : nodes'[i] = nodes[i]
    BY <2>7, <2>13
  <2> HIDE DEF meta
  <2>15. Defaults \subseteq DOMAIN registry'
    BY <2>5 DEF RegistryInv, Writes
  <2>16. \A u \in Defaults : DOMAIN NewDefaultRegistry[u] \subseteq DOMAIN registry'[u]
    BY <2>5 DEF RegistryInv, Writes
  <2>17. ASSUME NEW i \in Tokens'
         PROVE  Convertible(registry', nodes'[i].unit, nodes'[i].metricsUnit)
    <3>1. CASE i = cursor
      BY <2>5, <2>11, <2>12, <3>1 DEF Convertible, Writes
    <3>2. CASE i \in Tokens
      BY <2>5, <2>14, <3>2 DEF RegistryInv, Convertible, Writes
    <3> QED
      BY <2>13, <3>1, <3>2
  <2>18. ASSUME NEW u \in DOMAIN registry', NEW v \in DOMAIN registry'[u]
         PROVE  \/ ByDefault(registry', u, v)
                \/ \E i \in Tokens' : ByToken(registry', nodes'[i], u, v)
    <3>1. CASE display # base /\ u = base /\ v = display
      <4>1. registry'[u][v] = -meta.decimals
        BY <2>5, <2>11, <3>1 DEF Writes
      <4>2. ByToken(registry', nodes'[cursor], u, v)
        BY <2>12, <3>1, <4>1 DEF ByToken
      <4> QED
        BY <2>13, <4>2
    <3>2. CASE display # base /\ u = display /\ v = base
      <4>1. registry'[u][v] = meta.decimals
        BY <2>5, <2>11, <3>2 DEF Writes
      <4>2. ByToken(registry', nodes'[cursor], u, v)
        BY <2>12, <3>2, <4>1 DEF ByToken
      <4> QED
        BY <2>13, <4>2
    <3>3. CASE /\ u \in DOMAIN registry /\ v \in DOMAIN registry[u]
               /\ registry'[u][v] = registry[u][v]
      <4>1. CASE ByDefault(registry, u, v)
        BY <3>3, <4>1 DEF ByDefault
      <4>2. CASE \E i \in Tokens : ByToken(registry, nodes[i], u, v)
        <5>1. PICK i \in Tokens : ByToken(registry, nodes[i], u, v)
          BY <4>2
        <5>2. ByToken(registry', nodes'[i], u, v)
          BY <2>14, <3>3, <5>1 DEF ByToken
        <5> QED
          BY <2>13, <5>2
      <4> QED
        BY <3>3, <4>1, <4>2 DEF RegistryInv
    <3> QED
      BY <2>5, <2>18, <3>1, <3>2, <3>3 DEF Writes
  <2> QED
    BY <2>9, <2>15, <2>16, <2>17, <2>18 DEF RegistryInv
<1> QED
  BY <1>1, <1>3, <1>4 DEF ResolveUnits

LEMMA NextRegistry == IInv /\ LoopInv /\ RegistryInv /\ [Next]_vars => RegistryInv'
<1> SUFFICES ASSUME IInv, LoopInv, RegistryInv, [Next]_vars PROVE RegistryInv'
  OBVIOUS
<1>1. ASSUME UNCHANGED <<nodes, registry, metrics, cursor>>,
             stage' = "collector" <=> stage = "collector"
      PROVE  RegistryInv'
  <2>1. Tokens' = Tokens
    BY <1>1 DEF Tokens, Served
  <2> QED
    BY <1>1, <2>1, RegistryStays
<1>2. CASE ReadConfig
  <2>1. Served = {} /\ Served' = {} /\ registry' = registry
    BY <1>2 DEF ReadConfig, LoopInv, Preparing, Served
  <2>2. Tokens = {} /\ Tokens' = {}
    BY <1>2, <2>1 DEF ReadConfig, Tokens
  <2> QED
    BY <2>1, <2>2, RegistryStays
<1>3. CASE ResolveUnits
  BY <1>3, ResolveUnitsRegisters
<1>4. CASE BuildCollector
  <2>1. CASE UNCHANGED <<stage, cursor, metrics>>
    BY <1>1, <1>4, <2>1 DEF BuildCollector, Die
  <2>2. CASE /\ metrics' = Put(metrics, cursor, ConstLabels(nodes[cursor]))
             /\ stage = "collector" /\ stage' = "units"
    <3>1. UNCHANGED <<nodes, registry>>
      BY <1>4 DEF BuildCollector, Die
    <3>2. Served' = Served \union {cursor}
      BY <2>2 DEF Put, Served
    <3>3. Tokens' = Tokens
      BY <2>2, <3>1, <3>2 DEF Tokens
    <3> QED
      BY <3>1, <3>3, RegistryStays
  <2> QED
    BY <1>4, <2>1, <2>2 DEF BuildCollector, Die
<1>5. CASE InitLogger \/ Validate \/ MetadataFails \/ ListenFails
  BY <1>1, <1>5 DEF InitLogger, Validate, MetadataFails, ListenFails, Die
<1>6. CASE NewSchedulerManager \/ StartSchedulers \/ Serve \/ UNCHANGED vars
  BY <1>1, <1>6 DEF NewSchedulerManager, StartSchedulers, Serve, Die, vars
<1> QED
  BY <1>2, <1>3, <1>4, <1>5, <1>6 DEF Next, Step, Starter, Network

\* The types of the startup; the program is done with a node before it comes
\* to the next, and has collectors for all nodes that it refunds.
THEOREM StartupTypeCorrect == Spec => []TypeOK
<1>1. LoopInv /\ ManagerInv /\ RegistryInv => TypeOK
  <2> SUFFICES ASSUME LoopInv, ManagerInv, RegistryInv PROVE TypeOK
    OBVIOUS
  <2>1. DOMAIN schedulers \subseteq DOMAIN collectors
    <3>1. CASE schedulers = Empty
      BY <3>1 DEF Empty
    <3>2. CASE schedulers # Empty
      <4>1. schedulers = ByName(Started) /\ collectors = ByName(DOMAIN nodes)
        BY <3>2 DEF ManagerInv
      <4>2. Started \subseteq DOMAIN nodes
        BY DEF Started, Refunded
      <4> QED
        BY <4>1, <4>2 DEF ByName
    <3> QED
      BY <3>1, <3>2
  <2>2. DOMAIN registry \subseteq UnitNames
    BY DEF RegistryInv
  <2>3. stage \in {"starting", "serving"} => Served = DOMAIN nodes
    BY DEF LoopInv
  <2> QED
    BY <2>1, <2>2, <2>3 DEF LoopInv, TypeOK
<1> QED
  BY <1>1, InitInv, NextInv, InitLoop, NextLoop, NextManager, InitRegistry, NextRegistry,
     PTL DEF Spec

\* Whatever tokens come in whatever order, a node that has a collector
\* converts its amounts in both directions, and by the right factor when no
\* other token claims its two units.
THEOREM ServedNodesConvert == Spec => []BalancesConvert
<1>1. IInv /\ LoopInv /\ RegistryInv => BalancesConvert
  <2> SUFFICES ASSUME IInv, LoopInv, RegistryInv, NEW i \in Served
               PROVE  /\ Converts(registry, nodes[i].unit, nodes[i].metricsUnit)
                      /\ Converts(registry, nodes[i].metricsUnit, nodes[i].unit)
                      /\ TokensAgree => Exponent(registry, nodes[i].unit, nodes[i].metricsUnit)
                                           = Worth(nodes[i])
    BY DEF BalancesConvert
  <2> DEFINE u == nodes[i].unit
             v == nodes[i].metricsUnit
  <2>1. i \in DOMAIN nodes /\ Validated(nodes[i])
    BY DEF IInv, MetricsInv, NodesInv
  <2>2. nodes[i].module = "erc20" => i \in Tokens
    BY DEF Tokens
  <2>3. nodes[i].module # "erc20" =>
          {u, v} \subseteq Defaults /\ (u = v \/ v \in DOMAIN NewDefaultRegistry[u])
    BY <2>1 DEF Validated
  <2>4. Convertible(registry, u, v)
    BY <2>2, <2>3 DEF RegistryInv, Convertible
  <2>5. Lower[u] = u /\ Lower[v] = v /\ u \in DOMAIN registry /\ v \in DOMAIN registry
    BY <2>4 DEF RegistryInv, Convertible
  <2>6. u # v => v \in DOMAIN registry[u] /\ u \in DOMAIN registry[v]
    BY <2>4, <2>5 DEF IInv, RoundTrip, Reciprocal, Convertible
  <2>7. ASSUME TokensAgree, u # v PROVE registry[u][v] = Worth(nodes[i])
    <3>1. /\ \A k \in Tokens : ~{nodes[k].unit, nodes[k].metricsUnit} \subseteq Defaults
          /\ \A k, l \in Tokens :
                {nodes[k].unit, nodes[k].metricsUnit} = {nodes[l].unit, nodes[l].metricsUnit}
                  => /\ nodes[k].unit = nodes[l].unit
                     /\ Token[nodes[k].contractAddr].decimals
                            = Token[nodes[l].contractAddr].decimals
      BY <2>7 DEF TokensAgree, Tokens, Defaults
    <3>2. CASE ByDefault(registry, u, v)
      <4>1. u \in Defaults /\ v \in Defaults
        BY <3>2 DEF ByDefault, Defaults, NewDefaultRegistry
      <4>2. nodes[i].module # "erc20"
        BY <2>2, <3>1, <4>1
      <4>3. Lower[u] = u
        BY <2>5
      <4> QED
        BY <2>7, <3>2, <4>2, <4>3 DEF Worth, Exponent, ByDefault
    <3>3. CASE \E k \in Tokens : ByToken(registry, nodes[k], u, v)
      <4>1. PICK k \in Tokens : ByToken(registry, nodes[k], u, v)
        BY <3>3
      <4>2. {nodes[k].unit, nodes[k].metricsUnit} = {u, v}
        BY <4>1 DEF ByToken
      <4>3. nodes[i].module = "erc20"
        BY <2>3, <3>1, <4>2
      <4>4. /\ nodes[k].unit = u
            /\ Token[nodes[k].contractAddr].decimals = Token[nodes[i].contractAddr].decimals
        BY <2>2, <3>1, <4>2, <4>3
      <4>5. registry[u][v] = -Token[nodes[i].contractAddr].decimals
        BY <2>7, <4>1, <4>4 DEF ByToken
      <4> QED
        BY <2>7, <4>3, <4>5 DEF Worth
    <3> QED
      BY <2>5, <2>6, <2>7, <3>2, <3>3 DEF RegistryInv
  <2> HIDE DEF u, v
  <2>8. Converts(registry, u, v) /\ Converts(registry, v, u)
    BY <2>5, <2>6 DEF Converts, Known
  <2>9. TokensAgree => Exponent(registry, u, v) = Worth(nodes[i])
    <3>1. CASE u = v
      BY <3>1 DEF Exponent, Worth, u, v
    <3>2. CASE u # v
      BY <2>5, <2>7, <3>2 DEF Exponent
    <3> QED
      BY <3>1, <3>2
  <2> QED
    BY <2>8, <2>9 DEF u, v
<1> QED
  BY <1>1, InitInv, NextInv, InitLoop, NextLoop, InitRegistry, NextRegistry, PTL DEF Spec
=============================================================================
