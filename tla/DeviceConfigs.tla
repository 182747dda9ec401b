---------------------------- MODULE DeviceConfigs ----------------------------
(***************************************************************************)
(* computeDeviceConfig: which of a claim's configs is applied to which     *)
(* device, and what the devices come out as.  DeviceState only knows       *)
(* whether it fails.                                                       *)
(*                                                                         *)
(* The code is that of any driver d made of this program.  What its        *)
(* profile can decode and apply is a parameter: the network profile        *)
(* decodes nothing and applies the default to everything.                  *)
(* Configs decode to a new object each, so that a config is known by its   *)
(* position; the maps are ranged over in any order.                        *)
(***************************************************************************)
EXTENDS Naturals, Sequences, FiniteSetsExt

CONSTANTS
    Allocatable,    \* [Drivers -> sets of devices]: what it has enumerated
    Decodable,      \* [Drivers -> sets of parameters]: what its scheme decodes
    Rejected        \* [Drivers -> sets of parameters]: what ApplyConfig refuses

-----------------------------------------------------------------------------
(* GetOpaqueDeviceConfigs, for the configs cs of an allocation: records of *)
(* a source, whether the parameters are opaque, a driver, the parameters   *)
(* and the requests they are for.                                          *)

Sources == {"FromClass", "FromClaim"}

Own(d, x) == x.driver = d

(* An unknown source, no opaque parameters, or parameters of this driver   *)
(* that cannot be decoded; the configs of other drivers are skipped.       *)
Refused(d, cs) ==
    \E k \in 1 .. Len(cs) :
        \/ cs[k].source \notin Sources
        \/ ~cs[k].opaque
        \/ Own(d, cs[k]) /\ cs[k].parameters \notin Decodable[d]

(* The elements of cs at the positions S, in their order. *)
Listed(cs, S) ==
    LET at == CHOOSE at \in [1 .. Cardinality(S) -> S] :
                  \A j, k \in DOMAIN at : j < k => at[j] < at[k]
    IN  [k \in 1 .. Cardinality(S) |-> cs[at[k]]]

From(cs, source) == Listed(cs, {k \in 1 .. Len(cs) : cs[k].source = source})

(* Lowest precedence first.  Mutant: the order of the sources is swapped.  *)
ClaimConfigsFirst(cs) == From(cs, "FromClaim") \o From(cs, "FromClass")
Candidates(cs) == From(cs, "FromClass") \o From(cs, "FromClaim")

GetOpaqueDeviceConfigs(d, cs) ==
    LET candidates == Candidates(cs)
    IN  Listed(candidates, {k \in 1 .. Len(candidates) : Own(d, candidates[k])})

-----------------------------------------------------------------------------
(* computeDeviceConfig, for the results rs of the allocation: records of a *)
(* driver, a request, a device and whether it is for admin access.         *)

Default == [parameters |-> "none", requests |-> {}]

WithDefault(d, cs) == <<Default>> \o GetOpaqueDeviceConfigs(d, cs)

Applicable(d, cs, request) ==
    {k \in 1 .. Len(WithDefault(d, cs)) :
        LET c == WithDefault(d, cs)[k] IN c.requests = {} \/ request \in c.requests}

(* The configs a result is put under: the first one found backwards.       *)
(* Mutant: no break after it.                                              *)
AllApplicable(d, cs, request) == Applicable(d, cs, request)
Chosen(d, cs, request) == {Max(Applicable(d, cs, request))}

OwnResults(d, rs) == {n \in 1 .. Len(rs) : Own(d, rs[n])}

Missing(d, rs) == \E n \in OwnResults(d, rs) : rs[n].device \notin Allocatable[d]

(* configResultsMap. *)
Group(d, cs, rs, k) == {n \in OwnResults(d, rs) : k \in Chosen(d, cs, rs[n].request)}
Used(d, cs, rs) == UNION {Chosen(d, cs, rs[n].request) : n \in OwnResults(d, rs)}

(* Edits are kept per device.  Within a group a later result overwrites an *)
(* earlier one, and so does a later group in the order of the map.         *)
ApplyConfig(d, cs, rs, k, device) ==
    LET last == Max({n \in Group(d, cs, rs, k) : rs[n].device = device})
    IN  [config |-> WithDefault(d, cs)[k].parameters, request |-> rs[last].request]

Edits(d, cs, rs, order, device) ==
    LET having == {k \in Used(d, cs, rs) : \E n \in Group(d, cs, rs, k) : rs[n].device = device}
        last   == CHOOSE k \in having : \A j \in having : order[j] <= order[k]
    IN  ApplyConfig(d, cs, rs, last, device)

Orders(groups) ==
    {order \in [groups -> 1 .. Cardinality(groups)] : IsInjective(order)}

(* One result with admin access, of whatever driver, is enough. *)
checkAdminAccess(rs) == \E n \in 1 .. Len(rs) : rs[n].admin

Prepared(d, cs, rs, order) ==
    {[request |-> rs[n].request, device |-> rs[n].device, admin |-> checkAdminAccess(rs),
      edits |-> Edits(d, cs, rs, order, rs[n].device)] : n \in OwnResults(d, rs)}

(* ApplyConfig fails for one of the configs that are used. *)
Inapplicable(d, cs, rs) ==
    \E k \in Used(d, cs, rs) : WithDefault(d, cs)[k].parameters \in Rejected[d]

ConfigFails(d, cs, rs) == Refused(d, cs) \/ Missing(d, rs) \/ Inapplicable(d, cs, rs)

(* What it may return if it does not fail. *)
computeDeviceConfig(d, cs, rs) ==
    {Prepared(d, cs, rs, order) : order \in Orders(Used(d, cs, rs))}
=============================================================================
