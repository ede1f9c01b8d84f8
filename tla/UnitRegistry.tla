---------------------------- MODULE UnitRegistry ----------------------------
(***************************************************************************)
(* The currency registry (pkg/currency): which units are known, and by     *)
(* which power of ten an amount of one becomes an amount of another.  A    *)
(* registry maps the name of a unit to the exponents of its ConversionTo.  *)
(* Rates are powers of ten in the code too; what float64 loses is left     *)
(* out.                                                                    *)
(***************************************************************************)
EXTENDS Integers

CONSTANTS
    UnitNames,      \* strings that may name a unit, in a file or on a chain
    Lower,          \* strings.ToLower on them
    Trim            \* strings.TrimSpace on them

\* Lower case stays as it is, and blanks have no case.
ASSUME UnitNamesAssumption ==
    /\ Lower \in [UnitNames -> UnitNames] /\ Trim \in [UnitNames -> UnitNames]
    /\ \A name \in UnitNames : /\ Lower[Lower[name]] = Lower[name]
                               /\ Trim[Trim[name]] = Trim[name]
                               /\ Lower[Trim[name]] = Trim[Lower[name]]
    /\ \A name \in {"", "eth", "gwei", "wei", "cosm", "ucosm"} :
          name \in UnitNames /\ Lower[name] = name /\ Trim[name] = name

\* A map with one entry written, new or not.
Put(map, key, value) ==
    [k \in DOMAIN map \union {key} |-> IF k = key THEN value ELSE map[k]]

NewDefaultRegistry ==
    [eth   |-> [wei |-> 18, gwei |-> 9],
     wei   |-> [eth |-> -18, gwei |-> -9],
     gwei  |-> [eth |-> -9, wei |-> 9],
     cosm  |-> [ucosm |-> 6],
     ucosm |-> [cosm |-> -6]]

\* Get finds a unit by its name in any case.
Known(registry, name) == Lower[name] \in DOMAIN registry

\* Convert: the unit converted to is taken literally.
Converts(registry, from, to) ==
    /\ Known(registry, from)
    /\ from = to \/ to \in DOMAIN registry[Lower[from]]

Exponent(registry, from, to) ==
    IF from = to THEN 0 ELSE registry[Lower[from]][to]

\* A name in the configuration is the unit with that name in lower case, one
\* of the defaults or a custom one.
UnmarshalUnit(name) == Lower[name]

Register(registry, name) == Put(registry, Lower[name], [other \in {} |-> 0])

EnsureUnit(registry, name) ==
    IF Known(registry, name) THEN registry ELSE Register(registry, name)

Normalized(name) == Lower[Trim[name]]

\* Mutant: the rate is written to the display unit alone.
EnsureUnitPairOneWay(registry, baseUnitName, displayUnitName, decimals) ==
    LET base == Normalized(baseUnitName)
        display == Normalized(displayUnitName)
        both == EnsureUnit(EnsureUnit(registry, base), display)
    IN  IF display \in {"", base} THEN EnsureUnit(registry, base)
        ELSE Put(both, display, Put(both[display], base, decimals))

\* Mutant: the two rates are exchanged.
EnsureUnitPairInverted(registry, baseUnitName, displayUnitName, decimals) ==
    LET base == Normalized(baseUnitName)
        display == Normalized(displayUnitName)
        both == EnsureUnit(EnsureUnit(registry, base), display)
    IN  IF display \in {"", base} THEN EnsureUnit(registry, base)
        ELSE [both EXCEPT ![base] = Put(@, display, decimals),
                          ![display] = Put(@, base, -decimals)]

\* An error for a base unit without a name; nothing to convert when the two
\* are one.  Rates that are there already are overwritten.
PairRefused(baseUnitName) == Normalized(baseUnitName) = ""

EnsureUnitPair(registry, baseUnitName, displayUnitName, decimals) ==
    LET base == Normalized(baseUnitName)
        display == Normalized(displayUnitName)
        both == EnsureUnit(EnsureUnit(registry, base), display)
    IN  IF display \in {"", base} THEN EnsureUnit(registry, base)
        ELSE [both EXCEPT ![base] = Put(@, display, -decimals),
                          ![display] = Put(@, base, decimals)]

\* Every conversion between registered units has one that undoes it.
Reciprocal(registry) ==
    \A u \in DOMAIN registry : \A v \in DOMAIN registry[u] :
        /\ v \in DOMAIN registry /\ u \in DOMAIN registry[v]
        /\ registry[v][u] = -registry[u][v]
=============================================================================
