------------------------ MODULE PrepareDevices_proofs ------------------------
(***************************************************************************)
(* prepareDevices: an update of the device status changes nothing else of  *)
(* the claim and gives up only if others have changed the claim at each    *)
(* try; and the devices of a claim come out the same each time.            *)
(*                                                                         *)
(* The object's version is what the first two rest on: it only grows, and  *)
(* a copy with the object's version is the object.  The third rests on the *)
(* choice of a single config per result: the order of the maps only        *)
(* matters for a device that comes twice.  The fourth, that this config is *)
(* the one that takes precedence, rests on what a list made by appending   *)
(* the elements that pass a test contains, and in which order.             *)
(***************************************************************************)
EXTENDS PrepareDevices, FiniteSetTheorems, SequenceTheorems, WellFoundedInduction, TLAPS

-----------------------------------------------------------------------------
(* DeviceStatus. *)

CopyInv ==
    \A d \in Drivers : pc[d] = "update" =>
        /\ copy[d].version <= claim.version
        /\ copy[d].version = claim.version => copy[d].rest = claim.rest

TriesInv ==
    \A d \in Drivers :
        /\ pc[d] = "get" => claim.version >= since[d] + tries[d]
        /\ pc[d] = "update" => copy[d].version >= since[d] + tries[d]
        /\ pc[d] # "idle" => tries[d] < Steps

IInv == TypeOK /\ CopyInv /\ TriesInv /\ OnlyDevices /\ OutpacedOnly

LEMMA InitInvariant == Init => IInv
BY StepsAssumption DEF Init, IInv, TypeOK, CopyInv, TriesInv, OnlyDevices, OutpacedOnly, New, Claim

(* The two ways an object is changed keep its type. *)
LEMMA UpdatedType ==
    ASSUME NEW c \in Claim, NEW v \in Nat, NEW d \in Drivers
    PROVE  [c EXCEPT !.version = v, !.devices = d] \in Claim
BY DEF Claim

LEMMA OtherType ==
    ASSUME NEW c \in Claim, NEW v \in Nat, NEW r \in Nat
    PROVE  [c EXCEPT !.version = v, !.rest = r] \in Claim
BY DEF Claim

(* A step that leaves the object alone, and the copies of other calls. *)
LEMMA CallInvariant ==
    ASSUME IInv, NEW d \in Drivers, Publish(d) \/ Get(d) \/ Conflict(d) \/ Fails(d)
    PROVE  IInv'
<1> USE StepsAssumption DEF IInv, OnlyDevices
<1>1. CASE Publish(d)
  <2>1. TypeOK'       BY <1>1 DEF TypeOK, Publish, Claim
  <2>2. CopyInv'      BY <1>1 DEF TypeOK, CopyInv, Publish
  <2>3. TriesInv'     BY <1>1 DEF TypeOK, TriesInv, Publish, Claim
  <2>4. OutpacedOnly' BY <1>1 DEF TypeOK, OutpacedOnly, Publish
  <2> QED BY <1>1, <2>1, <2>2, <2>3, <2>4 DEF Publish
<1>2. CASE Get(d)
  <2>1. TypeOK'       BY <1>2 DEF TypeOK, Get
  <2>2. CopyInv'      BY <1>2 DEF TypeOK, CopyInv, Get, Claim
  <2>3. TriesInv'     BY <1>2 DEF TypeOK, TriesInv, Get
  <2>4. OutpacedOnly' BY <1>2 DEF TypeOK, OutpacedOnly, Get
  <2> QED BY <1>2, <2>1, <2>2, <2>3, <2>4 DEF Get
<1>3. CASE Conflict(d)
  <2>1. TypeOK'       BY <1>3 DEF TypeOK, Conflict, Returns
  <2>2. CopyInv'      BY <1>3 DEF TypeOK, CopyInv, Conflict, Returns
  <2>3. claim.version >= since[d] + tries[d] + 1
    <3>1. copy[d] \in Claim /\ claim \in Claim /\ since[d] \in Nat /\ tries[d] \in Nat
      BY DEF TypeOK
    <3>2. copy[d].version \in Nat /\ claim.version \in Nat
      BY <3>1 DEF Claim
    <3>3. copy[d].version # claim.version /\ copy[d].version <= claim.version
      BY <1>3 DEF CopyInv, Conflict
    <3>4. copy[d].version >= since[d] + tries[d]
      BY <1>3 DEF TriesInv, Conflict
    <3> QED BY <3>1, <3>2, <3>3, <3>4
  <2>4. TriesInv'     BY <1>3, <2>3 DEF TypeOK, TriesInv, Conflict, Returns, Claim
  <2>5. OutpacedOnly' BY <1>3, <2>3 DEF TypeOK, OutpacedOnly, TriesInv, Conflict, Returns, Claim
  <2> QED BY <1>3, <2>1, <2>2, <2>4, <2>5 DEF Conflict
<1>4. CASE Fails(d)
  <2>1. TypeOK'       BY <1>4 DEF TypeOK, Fails, Returns
  <2>2. CopyInv'      BY <1>4 DEF TypeOK, CopyInv, Fails, Returns
  <2>3. TriesInv'     BY <1>4 DEF TypeOK, TriesInv, Fails, Returns
  <2>4. OutpacedOnly' BY <1>4 DEF TypeOK, OutpacedOnly, Fails, Returns
  <2> QED BY <1>4, <2>1, <2>2, <2>3, <2>4 DEF Fails
<1> QED BY <1>1, <1>2, <1>3, <1>4

LEMMA UpdateInvariant ==
    ASSUME IInv, NEW d \in Drivers, UpdateStatus(d)
    PROVE  IInv'
<1> USE DEF IInv
<1>1. /\ claim'.version = claim.version + 1
      /\ claim'.rest = claim.rest
      /\ claim' \in Claim
  <2>1. copy[d] \in Claim /\ claim \in Claim
    BY DEF TypeOK
  <2>2. copy[d].rest = claim.rest
    BY DEF CopyInv, UpdateStatus
  <2>3. claim' = [copy[d] EXCEPT !.version = claim.version + 1, !.devices = d]
    BY DEF UpdateStatus
  <2>4. claim'.version = claim.version + 1
    BY <2>1, <2>3 DEF Claim
  <2>5. claim'.rest = claim.rest
    BY <2>1, <2>2, <2>3 DEF Claim
  <2>6. claim.version + 1 \in Nat
    BY <2>1 DEF Claim
  <2>7. claim' \in Claim
    BY <2>1, <2>3, <2>6, UpdatedType
  <2> QED BY <2>4, <2>5, <2>7
<1>2. /\ claim.version \in Nat
      /\ copy \in [Drivers -> Claim]
  BY DEF TypeOK, Claim
<1>3. TypeOK'       BY <1>1 DEF TypeOK, UpdateStatus, Returns
<1>4. CopyInv'      BY <1>1, <1>2 DEF TypeOK, CopyInv, UpdateStatus, Returns, Claim
<1>5. TriesInv'     BY <1>1, <1>2 DEF TypeOK, TriesInv, UpdateStatus, Returns
<1>6. OnlyDevices'  BY <1>1 DEF OnlyDevices, UpdateStatus
<1>7. OutpacedOnly' BY <1>1, <1>2, StepsAssumption DEF TypeOK, OutpacedOnly, UpdateStatus, Returns
<1> QED BY <1>3, <1>4, <1>5, <1>6, <1>7

LEMMA OtherInvariant ==
    ASSUME IInv, OtherWrite
    PROVE  IInv'
<1> USE DEF IInv, caller
<1>1. /\ claim'.version = claim.version + 1
      /\ claim'.rest = claim.rest + 1
      /\ claim' \in Claim
  <2>1. claim \in Claim
    BY DEF TypeOK
  <2>2. claim' = [claim EXCEPT !.version = claim.version + 1, !.rest = claim.rest + 1]
    BY DEF OtherWrite
  <2>3. claim'.version = claim.version + 1
    BY <2>1, <2>2 DEF Claim
  <2>4. claim'.rest = claim.rest + 1
    BY <2>1, <2>2 DEF Claim
  <2>5. claim.version + 1 \in Nat /\ claim.rest + 1 \in Nat
    BY <2>1 DEF Claim
  <2>6. claim' \in Claim
    BY <2>1, <2>2, <2>5, OtherType
  <2> QED BY <2>3, <2>4, <2>6
<1>2. /\ claim.version \in Nat
      /\ copy \in [Drivers -> Claim]
  BY DEF TypeOK, Claim
<1>3. TypeOK'       BY <1>1 DEF TypeOK, OtherWrite
<1>4. CopyInv'      BY <1>1, <1>2 DEF TypeOK, CopyInv, OtherWrite, Claim
<1>5. TriesInv'     BY <1>1, <1>2 DEF TypeOK, TriesInv, OtherWrite
<1>6. OnlyDevices'  BY <1>1 DEF OnlyDevices, OtherWrite
<1>7. OutpacedOnly' BY <1>1, <1>2, StepsAssumption DEF TypeOK, OutpacedOnly, OtherWrite
<1> QED BY <1>3, <1>4, <1>5, <1>6, <1>7

LEMMA Invariant == Spec => []IInv
<1>1. Init => IInv
  BY InitInvariant
<1>2. IInv /\ [Next]_vars => IInv'
  <2> SUFFICES ASSUME IInv, [Next]_vars
               PROVE  IInv'
    OBVIOUS
  <2>1. CASE UNCHANGED vars
    BY <2>1 DEF IInv, TypeOK, CopyInv, TriesInv, OnlyDevices, OutpacedOnly, vars, caller
  <2> QED BY <2>1, CallInvariant, UpdateInvariant, OtherInvariant DEF Next, updateDeviceStatus
<1> QED BY <1>1, <1>2, PTL DEF Spec

-----------------------------------------------------------------------------
(* prepareDevices is a user of DeviceStatus. *)

LEMMA PrepareUsesStatus == PrepareSpec => Spec
<1>1. PrepareInit => Init
  BY DEF PrepareInit
<1>2. [PrepareNext]_<<preparing, vars>> => [Next]_vars
  <2> SUFFICES ASSUME [PrepareNext]_<<preparing, vars>>
               PROVE  [Next]_vars
    OBVIOUS
  <2>1. CASE UNCHANGED <<preparing, vars>>
    BY <2>1
  <2>2. ASSUME NEW d \in Drivers, prepareDevices(d)
        PROVE  [Next]_vars
    BY <2>2 DEF prepareDevices, ConfigRefused, ConfigComputed, Next, vars
  <2>3. CASE OtherWrite
    BY <2>3 DEF Next
  <2> QED BY <2>1, <2>2, <2>3 DEF PrepareNext
<1> QED BY <1>1, <1>2, PTL DEF PrepareSpec, Spec

(* However many drivers and other components write the claim, and however  *)
(* often the update is tried: no change to the rest of the claim is lost.  *)
THEOREM StatusChangesOnlyDevices == PrepareSpec => []OnlyDevices
<1>1. IInv => OnlyDevices
  BY DEF IInv
<1> QED BY <1>1, Invariant, PrepareUsesStatus, PTL

(* For any number of tries: who gives up was outpaced at each of them. *)
THEOREM StatusOutpacedOnly == PrepareSpec => []OutpacedOnly
<1>1. IInv => OutpacedOnly
  BY DEF IInv
<1> QED BY <1>1, Invariant, PrepareUsesStatus, PTL

-----------------------------------------------------------------------------
(* The devices. *)

Once(d, rs) ==
    \A m, n \in OwnResults(d, rs) : rs[m].device = rs[n].device => m = n

(* The order in which the map is ranged over does not matter to a device   *)
(* that comes once: one config is in question for it.                      *)
LEMMA OrderIrrelevant ==
    ASSUME NEW d, NEW cs, NEW rs, Once(d, rs), NEW n \in OwnResults(d, rs),
           NEW order \in Orders(Used(d, cs, rs))
    PROVE  Edits(d, cs, rs, order, rs[n].device)
               = ApplyConfig(d, cs, rs, Max(Applicable(d, cs, rs[n].request)), rs[n].device)
<1> DEFINE x      == Max(Applicable(d, cs, rs[n].request))
           having == {k \in Used(d, cs, rs) :
                         \E m \in Group(d, cs, rs, k) : rs[m].device = rs[n].device}
           last   == CHOOSE k \in having : \A j \in having : order[j] <= order[k]
<1>1. Chosen(d, cs, rs[n].request) = {x}
  BY DEF Chosen
<1>2. x \in Used(d, cs, rs)
  BY <1>1 DEF Used
<1>3. n \in Group(d, cs, rs, x)
  BY <1>1 DEF Group
<1>4. ASSUME NEW k \in having
      PROVE  k = x
  <2>1. PICK m \in Group(d, cs, rs, k) : rs[m].device = rs[n].device
    OBVIOUS
  <2>2. m \in OwnResults(d, rs) /\ k \in Chosen(d, cs, rs[m].request)
    BY <2>1 DEF Group
  <2>3. m = n
    BY <2>1, <2>2 DEF Once
  <2> QED BY <1>1, <2>2, <2>3
<1>5. having = {x}
  BY <1>2, <1>3, <1>4
<1>6. order[x] <= order[x]
  <2>1. order \in [Used(d, cs, rs) -> 1 .. Cardinality(Used(d, cs, rs))]
    BY DEF Orders
  <2>2. order[x] \in Nat
    BY <1>2, <2>1
  <2> QED BY <2>2
<1>7. last = x
  <2> HIDE DEF having, x
  <2> QED BY <1>5, <1>6
<1>8. Edits(d, cs, rs, order, rs[n].device) = ApplyConfig(d, cs, rs, last, rs[n].device)
  BY DEF Edits
<1> QED BY <1>7, <1>8

LEMMA OneOutcome ==
    ASSUME NEW d, NEW cs, NEW rs, Once(d, rs),
           NEW some \in computeDeviceConfig(d, cs, rs), NEW other \in computeDeviceConfig(d, cs, rs)
    PROVE  some = other
<1>1. PICK order1 \in Orders(Used(d, cs, rs)) : some = Prepared(d, cs, rs, order1)
  BY DEF computeDeviceConfig
<1>2. PICK order2 \in Orders(Used(d, cs, rs)) : other = Prepared(d, cs, rs, order2)
  BY DEF computeDeviceConfig
<1>3. \A n \in OwnResults(d, rs) :
          Edits(d, cs, rs, order1, rs[n].device) = Edits(d, cs, rs, order2, rs[n].device)
  BY OrderIrrelevant
<1> QED BY <1>1, <1>2, <1>3 DEF Prepared

(* What a driver has computed is what it would compute again. *)
Computed ==
    \A d \in Drivers :
        /\ result[d] = "ok" =>
               /\ ~ConfigFails(d, allocation.configs, allocation.results)
               /\ prepared[d] \in computeDeviceConfig(d, allocation.configs, allocation.results)
        /\ result[d] = "error" =>
               /\ ConfigFails(d, allocation.configs, allocation.results)
               /\ prepared[d] = {}
        /\ result[d] = "none" => prepared[d] = {}

PrepareInv ==
    /\ allocation \in Allocations
    /\ DOMAIN result = Drivers /\ DOMAIN prepared = Drivers
    /\ \A d \in Drivers : result[d] \in {"none", "ok", "error"}
    /\ Computed

LEMMA PrepareInvariant == PrepareSpec => []PrepareInv
<1>1. PrepareInit => PrepareInv
  BY DEF PrepareInit, PrepareInv, Computed
<1>2. PrepareInv /\ [PrepareNext]_<<preparing, vars>> => PrepareInv'
  <2> SUFFICES ASSUME PrepareInv, [PrepareNext]_<<preparing, vars>>
               PROVE  PrepareInv'
    OBVIOUS
  <2>1. CASE UNCHANGED preparing
    BY <2>1 DEF PrepareInv, Computed, preparing, outcomes
  <2>2. ASSUME NEW d \in Drivers, ConfigRefused(d)
        PROVE  PrepareInv'
    BY <2>2 DEF PrepareInv, Computed, ConfigRefused, Computes
  <2>3. ASSUME NEW d \in Drivers, ConfigComputed(d)
        PROVE  PrepareInv'
    BY <2>3 DEF PrepareInv, Computed, ConfigComputed, Computes
  <2> QED BY <2>1, <2>2, <2>3 DEF PrepareNext, prepareDevices
<1> QED BY <1>1, <1>2, PTL DEF PrepareSpec

(* For every allocation, profile and order of the maps: a driver computes  *)
(* the same devices each time.                                             *)
THEOREM DevicesDeterministic == PrepareSpec => Deterministic
<1> DEFINE Same == \A d \in Drivers : ValidSpec(d) /\ result[d] # "none"
                       => result'[d] = result[d] /\ prepared'[d] = prepared[d]
<1>1. PrepareInv /\ PrepareInv' /\ [PrepareNext]_<<preparing, vars>> => Same
  <2> SUFFICES ASSUME PrepareInv, PrepareInv', [PrepareNext]_<<preparing, vars>>,
                      NEW d \in Drivers, ValidSpec(d), result[d] # "none"
               PROVE  result'[d] = result[d] /\ prepared'[d] = prepared[d]
    OBVIOUS
  <2>1. CASE UNCHANGED preparing
    BY <2>1 DEF preparing, outcomes
  <2>2. ASSUME NEW e \in Drivers, ConfigRefused(e)
        PROVE  result'[d] = result[d] /\ prepared'[d] = prepared[d]
    BY <2>2 DEF PrepareInv, Computed, ConfigRefused, Computes
  <2>3. ASSUME NEW e \in Drivers, ConfigComputed(e)
        PROVE  result'[d] = result[d] /\ prepared'[d] = prepared[d]
    <3>1. CASE e # d
      BY <2>3, <3>1 DEF PrepareInv, ConfigComputed, Computes
    <3>2. CASE e = d
      <4>1. PICK devices \in computeDeviceConfig(d, allocation.configs, allocation.results) :
                Computes(d, devices, "ok")
        BY <2>3, <3>2 DEF ConfigComputed
      <4>2. result'[d] = "ok" /\ prepared'[d] = devices
        BY <4>1 DEF Computes, PrepareInv
      <4>3. result[d] = "ok"
        BY <2>3, <3>2 DEF PrepareInv, Computed, ConfigComputed
      <4>4. prepared[d] \in computeDeviceConfig(d, allocation.configs, allocation.results)
        BY <4>3 DEF PrepareInv, Computed
      <4>5. Once(d, allocation.results)
        BY DEF ValidSpec, Once
      <4>6. prepared[d] = devices
        BY <4>1, <4>4, <4>5, OneOutcome
      <4> QED BY <4>2, <4>3, <4>6
    <3> QED BY <3>1, <3>2
  <2> QED BY <2>1, <2>2, <2>3 DEF PrepareNext, prepareDevices
<1>2. [PrepareNext]_<<preparing, vars>> /\ PrepareInv /\ PrepareInv' => [Same]_<<preparing, vars>>
  BY <1>1
<1> QED BY <1>2, PrepareInvariant, PTL DEF PrepareSpec, Deterministic

-----------------------------------------------------------------------------
(* Sets of numbers, listed in increasing order. *)

(* Every non-empty set of natural numbers has a least element. *)
LEMMA HasLeast ==
  ASSUME NEW T, T \subseteq Nat, T # {}
  PROVE  \E x \in T : \A y \in T : x <= y
<1> DEFINE R == OpToRel(<, Nat)
<1>1. IsWellFoundedOn(R, Nat)
  BY NatLessThanWellFounded
<1>2. \A x, y \in Nat : y < x => <<y, x>> \in R
  BY DEF OpToRel
<1> HIDE DEF R
<1>3. PICK x \in T : \A y \in T : ~(<<y, x>> \in R)
  BY <1>1, WFMin
<1>4. \A y \in T : ~(y < x)
  BY <1>2, <1>3
<1> QED BY <1>4

(* Every non-empty set of numbers up to n has a greatest one. *)
LEMMA GreatestOf ==
  ASSUME NEW n \in Nat, NEW T, T \subseteq 1 .. n, T # {}
  PROVE  Max(T) \in T /\ \A y \in T : Max(T) >= y
<1> DEFINE U == {n - x : x \in T}
<1>1. U \subseteq Nat /\ U # {}
  <2>1. \A x \in T : n - x \in Nat
    OBVIOUS
  <2> QED BY <2>1
<1>2. PICK u \in U : \A v \in U : u <= v
  BY <1>1, HasLeast
<1>3. PICK x \in T : u = n - x
  OBVIOUS
<1>4. \A y \in T : n - x <= n - y
  BY <1>2, <1>3
<1>5. \A y \in T : x >= y
  <2> HIDE DEF U
  <2> QED BY <1>4
<1> HIDE DEF U
<1> QED BY <1>3, <1>5 DEF Max

Increasing(at, m) == \A j, k \in 1 .. m : j < k => at[j] < at[k]

LEMMA IncreasingInjective ==
  ASSUME NEW m \in Nat, NEW at, \A k \in 1 .. m : at[k] \in Nat, Increasing(at, m)
  PROVE  \A j, k \in 1 .. m : at[j] = at[k] => j = k
<1> SUFFICES ASSUME NEW j \in 1 .. m, NEW k \in 1 .. m, at[j] = at[k], j # k
             PROVE  FALSE
  OBVIOUS
<1>1. j < k \/ k < j
  OBVIOUS
<1>2. at[j] < at[k] \/ at[k] < at[j]
  BY <1>1 DEF Increasing
<1> QED BY <1>2

(* Every set of numbers up to n can be listed in increasing order. *)
LEMMA Enumerable ==
  ASSUME NEW n \in Nat, NEW S \in SUBSET (1 .. n)
  PROVE  \E m \in Nat : \E at \in [1 .. m -> S] :
             Increasing(at, m) /\ \A x \in S : \E k \in 1 .. m : at[k] = x
<1> DEFINE Listing(m, at, T) ==
               Increasing(at, m) /\ \A x \in T : \E k \in 1 .. m : at[k] = x
           Fits(T) == \E m \in Nat : \E at \in [1 .. m -> T] : Listing(m, at, T)
           Bad == {i \in Nat : ~ \A T \in SUBSET (1 .. i) : Fits(T)}
<1>1. ASSUME Bad # {} PROVE FALSE
  <2>0. Bad \subseteq Nat
    OBVIOUS
  <2>1. PICK i \in Bad : \A j \in Bad : i <= j
    <3> HIDE DEF Bad
    <3> QED BY <1>1, <2>0, HasLeast
  <2>2. PICK T \in SUBSET (1 .. i) : ~Fits(T)
    BY <2>1
  <2>3. i # 0
    <3> SUFFICES ASSUME i = 0 PROVE Fits(T)
      BY <2>2
    <3>1. T = {}
      OBVIOUS
    <3>2. [k \in 1 .. 0 |-> k] \in [1 .. 0 -> T]
      OBVIOUS
    <3>3. Listing(0, [k \in 1 .. 0 |-> k], T)
      BY <3>1 DEF Increasing
    <3> HIDE DEF Listing
    <3> QED BY <3>2, <3>3
  <2>4. i - 1 \in Nat /\ i - 1 \notin Bad
    <3> HIDE DEF Bad
    <3> QED BY <2>0, <2>1, <2>3
  <2> DEFINE U == T \ {i}
  <2>5. \A x \in U : x \in 1 .. (i - 1) /\ x < i
    BY <2>1
  <2>6. Fits(U)
    <3>1. U \in SUBSET (1 .. (i - 1))
      BY <2>5
    <3> HIDE DEF Fits, U
    <3> QED BY <2>4, <3>1
  <2>7. PICK m \in Nat : \E at \in [1 .. m -> U] : Listing(m, at, U)
    BY <2>6
  <2>8. PICK at \in [1 .. m -> U] : Listing(m, at, U)
    BY <2>7
  <2>9. CASE i \notin T
    <3>1. U = T
      BY <2>9
    <3> HIDE DEF Listing, U
    <3> QED BY <2>2, <2>8, <3>1
  <2>10. CASE i \in T
    <3> DEFINE at2 == [k \in 1 .. (m + 1) |-> IF k <= m THEN at[k] ELSE i]
    <3>1. at2 \in [1 .. (m + 1) -> T]
      BY <2>10
    <3>2. Increasing(at2, m + 1)
      <4> SUFFICES ASSUME NEW j \in 1 .. (m + 1), NEW k \in 1 .. (m + 1), j < k
                   PROVE  at2[j] < at2[k]
        BY DEF Increasing
      <4>1. j \in 1 .. m /\ at2[j] = at[j] /\ at[j] \in U
        BY <2>8
      <4>2. CASE k \in 1 .. m
        BY <2>8, <4>1, <4>2 DEF Increasing
      <4>3. CASE k = m + 1
        <5>1. at2[k] = i
          BY <4>3
        <5> HIDE DEF U, at2
        <5> QED BY <2>5, <4>1, <5>1
      <4> QED BY <4>2, <4>3
    <3>3. ASSUME NEW x \in T PROVE \E k \in 1 .. (m + 1) : at2[k] = x
      <4>1. CASE x = i
        <5>1. at2[m + 1] = i /\ m + 1 \in 1 .. (m + 1)
          OBVIOUS
        <5> QED BY <4>1, <5>1
      <4>2. CASE x # i
        <5>1. PICK k \in 1 .. m : at[k] = x
          BY <2>8, <4>2
        <5>2. at2[k] = x /\ k \in 1 .. (m + 1)
          BY <5>1
        <5> QED BY <5>2
      <4> QED BY <4>1, <4>2
    <3>4. Listing(m + 1, at2, T)
      BY <3>2, <3>3
    <3>5. m + 1 \in Nat
      OBVIOUS
    <3> HIDE DEF Listing, at2
    <3> QED BY <2>2, <3>1, <3>4, <3>5
  <2> QED BY <2>9, <2>10
<1>2. Fits(S)
  <2> HIDE DEF Fits
  <2> QED BY <1>1
<1> QED BY <1>2

(* at is what Listed chooses: the m positions of S in increasing order. *)
IsListing(at, m, cs, S) ==
    /\ m \in Nat
    /\ at \in [1 .. m -> S]
    /\ Increasing(at, m)
    /\ \A x \in S : \E k \in 1 .. m : at[k] = x
    /\ Listed(cs, S) = [k \in 1 .. m |-> cs[at[k]]]

LEMMA ListedInOrder ==
  ASSUME NEW n \in Nat, NEW S \in SUBSET (1 .. n), NEW cs
  PROVE  \E at : IsListing(at, Cardinality(S), cs, S)
<1> DEFINE N == Cardinality(S)
           P(at) == \A j, k \in DOMAIN at : j < k => at[j] < at[k]
           at == CHOOSE a \in [1 .. N -> S] : P(a)
<1>0. \A x \in S : x \in Nat
  OBVIOUS
<1>1. PICK m \in Nat : \E a \in [1 .. m -> S] :
          Increasing(a, m) /\ \A x \in S : \E k \in 1 .. m : a[k] = x
  BY Enumerable
<1>2. PICK a \in [1 .. m -> S] :
          Increasing(a, m) /\ \A x \in S : \E k \in 1 .. m : a[k] = x
  BY <1>1
<1>3. a \in Bijection(1 .. m, S)
  <2>1. \A j, k \in 1 .. m : a[j] = a[k] => j = k
    <3>1. \A k \in 1 .. m : a[k] \in Nat
      BY <1>0, <1>2
    <3> QED BY <1>2, <3>1, IncreasingInjective
  <2> QED BY <1>2, <2>1 DEF Bijection, Injection, Surjection, IsInjective
<1>4. N = m
  BY <1>3, FS_CountingElements DEF ExistsBijection
<1>5. P(a) /\ a \in [1 .. N -> S]
  BY <1>2, <1>4 DEF Increasing
<1>6. at \in [1 .. N -> S] /\ P(at)
  <2> HIDE DEF P, N
  <2> QED BY <1>5
<1>7. Increasing(at, N)
  <2> HIDE DEF at
  <2> QED BY <1>6 DEF Increasing
<1>8. \A x \in S : \E k \in 1 .. N : at[k] = x
  <2> HIDE DEF at, P
  <2>1. \A j, k \in 1 .. N : at[j] = at[k] => j = k
    <3>1. N \in Nat /\ \A k \in 1 .. N : at[k] \in Nat
      BY <1>0, <1>4, <1>6
    <3> HIDE DEF N
    <3> QED BY <1>7, <3>1, IncreasingInjective
  <2>2. at \in Injection(1 .. N, S)
    BY <1>6, <2>1 DEF Injection, IsInjective
  <2>3. IsFiniteSet(S)
    BY <1>3, FS_NatBijection DEF ExistsBijection
  <2>4. Cardinality(1 .. N) = N
    BY <1>4, FS_Interval
  <2>5. at \in Surjection(1 .. N, S)
    BY <2>2, <2>3, <2>4, FS_Injection
  <2> QED BY <2>5 DEF Surjection
<1>9. Listed(cs, S) = [k \in 1 .. N |-> cs[at[k]]]
  BY DEF Listed
<1> HIDE DEF at, P
<1> QED BY <1>4, <1>6, <1>7, <1>8, <1>9 DEF IsListing

-----------------------------------------------------------------------------
(* The lists of configs. *)

(* Config b of the claim takes precedence over config a. *)
Precedes(cs, a, b) ==
    \/ cs[a].source = "FromClass" /\ cs[b].source = "FromClaim"
    \/ cs[a].source = cs[b].source /\ a < b

(* The list q has the configs of cs at the positions S, lowest precedence  *)
(* first.                                                                  *)
Lists(at, q, cs, S) ==
    /\ \A k \in 1 .. Len(q) : at[k] \in S /\ q[k] = cs[at[k]]
    /\ \A j, k \in 1 .. Len(q) : j < k => Precedes(cs, at[j], at[k])
    /\ \A x \in S : \E k \in 1 .. Len(q) : at[k] = x

ByPrecedence(q, cs, S) == \E at : Lists(at, q, cs, S)

(* at leads from the elements of q to positions of cs, S in increasing order. *)
Leads(at, q, cs, S) ==
    /\ \A k \in 1 .. Len(q) : at[k] \in S /\ q[k] = cs[at[k]]
    /\ Increasing(at, Len(q))
    /\ \A x \in S : \E k \in 1 .. Len(q) : at[k] = x

LEMMA ListedSeq ==
  ASSUME NEW T, NEW cs \in Seq(T), NEW S \in SUBSET (1 .. Len(cs))
  PROVE  Listed(cs, S) \in Seq(T) /\ \E at : Leads(at, Listed(cs, S), cs, S)
<1> DEFINE q == Listed(cs, S)
<1>1. Len(cs) \in Nat /\ \A x \in S : cs[x] \in T
  OBVIOUS
<1>2. PICK at : IsListing(at, Cardinality(S), cs, S)
  BY <1>1, ListedInOrder
<1>3. PICK m \in Nat : IsListing(at, m, cs, S)
  BY <1>2 DEF IsListing
<1>4. \A k \in 1 .. m : at[k] \in S /\ cs[at[k]] \in T
  BY <1>1, <1>3 DEF IsListing
<1>5. q = [k \in 1 .. m |-> cs[at[k]]]
  BY <1>3 DEF IsListing
<1> HIDE DEF q
<1>6. q \in [1 .. m -> T]
  BY <1>4, <1>5
<1>7. q \in Seq(T) /\ Len(q) = m
  BY <1>6, SeqDef
<1>8. Leads(at, q, cs, S)
  BY <1>3, <1>4, <1>5, <1>7 DEF Leads, IsListing
<1> QED BY <1>7, <1>8 DEF q

(* Configs of one source: later ones take precedence. *)
LEMMA FromByPrecedence ==
  ASSUME NEW T, NEW cs \in Seq(T), NEW source
  PROVE  /\ From(cs, source) \in Seq(T)
         /\ ByPrecedence(From(cs, source), cs, {k \in 1 .. Len(cs) : cs[k].source = source})
<1> DEFINE S == {k \in 1 .. Len(cs) : cs[k].source = source}
           q == Listed(cs, S)
<1>1. S \in SUBSET (1 .. Len(cs)) /\ \A x \in S : cs[x].source = source
  OBVIOUS
<1> HIDE DEF S
<1>2. q \in Seq(T) /\ \E at : Leads(at, q, cs, S)
  BY <1>1, ListedSeq
<1> HIDE DEF q
<1>3. PICK at : Leads(at, q, cs, S)
  BY <1>2
<1>4. From(cs, source) = q
  BY DEF From, S, q
<1>5. Lists(at, q, cs, S)
  BY <1>1, <1>3 DEF Leads, Lists, Increasing, Precedes
<1> QED BY <1>2, <1>4, <1>5 DEF ByPrecedence, S

(* A list of lower ones before a list of higher ones. *)
LEMMA JoinedByPrecedence ==
  ASSUME NEW T, NEW cs \in Seq(T), NEW p \in Seq(T), NEW q \in Seq(T), NEW R, NEW S,
         ByPrecedence(p, cs, R), ByPrecedence(q, cs, S),
         \A x \in R, y \in S : Precedes(cs, x, y)
  PROVE  ByPrecedence(p \o q, cs, R \cup S)
<1>1. PICK f : Lists(f, p, cs, R)
  BY DEF ByPrecedence
<1>2. PICK g : Lists(g, q, cs, S)
  BY DEF ByPrecedence
<1> DEFINE m  == Len(p)
           n  == Len(q)
           at == [k \in 1 .. (m + n) |-> IF k <= m THEN f[k] ELSE g[k - m]]
<1>3. m \in Nat /\ n \in Nat /\ Len(p \o q) = m + n
  OBVIOUS
<1>4. /\ \A k \in 1 .. m : k \in 1 .. (m + n) /\ at[k] = f[k] /\ (p \o q)[k] = p[k]
      /\ \A k \in 1 .. n : m + k \in 1 .. (m + n) /\ at[m + k] = g[k] /\ (p \o q)[m + k] = q[k]
      /\ \A k \in 1 .. (m + n) : k \in 1 .. m \/ \E j \in 1 .. n : k = m + j
  <2>1. \A k \in 1 .. m : k \in 1 .. (m + n) /\ at[k] = f[k] /\ (p \o q)[k] = p[k]
    BY <1>3
  <2>2. \A k \in 1 .. n : m + k \in 1 .. (m + n) /\ at[m + k] = g[k] /\ (p \o q)[m + k] = q[k]
    BY <1>3
  <2>3. ASSUME NEW k \in 1 .. (m + n), k \notin 1 .. m
        PROVE  \E j \in 1 .. n : k = m + j
    <3>1. k - m \in 1 .. n /\ k = m + (k - m)
      BY <1>3, <2>3
    <3> QED BY <3>1
  <2> QED BY <2>1, <2>2, <2>3
<1> HIDE DEF at
<1>5. \A k \in 1 .. (m + n) : at[k] \in R \cup S /\ (p \o q)[k] = cs[at[k]]
  <2> TAKE k \in 1 .. (m + n)
  <2>1. CASE k \in 1 .. m
    BY <1>1, <1>4, <2>1 DEF Lists
  <2>2. CASE \E j \in 1 .. n : k = m + j
    BY <1>2, <1>4, <2>2 DEF Lists
  <2> QED BY <1>4, <2>1, <2>2
<1>6. ASSUME NEW j \in 1 .. (m + n), NEW k \in 1 .. (m + n), j < k
      PROVE  Precedes(cs, at[j], at[k])
  <2>1. CASE k \in 1 .. m
    <3>1. j \in 1 .. m
      BY <1>3, <1>6, <2>1
    <3> QED BY <1>1, <1>4, <1>6, <2>1, <3>1 DEF Lists
  <2>2. CASE k \notin 1 .. m
    <3>1. PICK y \in 1 .. n : k = m + y
      BY <1>4, <2>2
    <3>2. at[k] = g[y] /\ g[y] \in S
      BY <1>2, <1>4, <3>1 DEF Lists
    <3>3. CASE j \in 1 .. m
      BY <1>1, <1>4, <3>2, <3>3 DEF Lists
    <3>4. CASE j \notin 1 .. m
      <4>1. PICK x \in 1 .. n : j = m + x
        BY <1>4, <3>4
      <4>2. x < y
        BY <1>3, <1>6, <3>1, <4>1
      <4>3. at[j] = g[x]
        BY <1>4, <4>1
      <4> QED BY <1>2, <3>2, <4>2, <4>3 DEF Lists
    <3> QED BY <3>3, <3>4
  <2> QED BY <2>1, <2>2
<1>7. ASSUME NEW x \in R \cup S PROVE \E k \in 1 .. (m + n) : at[k] = x
  <2>1. CASE x \in R
    BY <1>1, <1>4, <2>1 DEF Lists
  <2>2. CASE x \in S
    <3>1. PICK k \in 1 .. n : g[k] = x
      BY <1>2, <2>2 DEF Lists
    <3> QED BY <1>4, <3>1
  <2> QED BY <1>7, <2>1, <2>2
<1>8. Lists(at, p \o q, cs, R \cup S)
  <2> HIDE DEF m, n
  <2> QED BY <1>3, <1>5, <1>6, <1>7 DEF Lists
<1> QED BY <1>8 DEF ByPrecedence

(* Leaving out other drivers' configs does not disturb the order. *)
OwnAt(d, cs, S) == {x \in S : Own(d, cs[x])}

LEMMA PartByPrecedence ==
  ASSUME NEW T, NEW cs \in Seq(T), NEW q \in Seq(T), NEW S, ByPrecedence(q, cs, S), NEW d,
         NEW part, part = Listed(q, OwnAt(d, q, 1 .. Len(q)))
  PROVE  part \in Seq(T) /\ ByPrecedence(part, cs, OwnAt(d, cs, S))
<1> DEFINE U == {k \in 1 .. Len(q) : Own(d, q[k])}
<1>0. part = Listed(q, U)
  BY DEF OwnAt
<1>1. PICK f : Lists(f, q, cs, S)
  BY DEF ByPrecedence
<1>2. /\ U \in SUBSET (1 .. Len(q))
      /\ \A k \in U : k \in 1 .. Len(q) /\ Own(d, q[k])
      /\ \A k \in 1 .. Len(q) : Own(d, q[k]) => k \in U
  OBVIOUS
<1> HIDE DEF U
<1>3. part \in Seq(T) /\ \E g : Leads(g, part, q, U)
  BY <1>0, <1>2, ListedSeq
<1>4. PICK g : Leads(g, part, q, U)
  BY <1>3
<1> DEFINE at == [k \in 1 .. Len(part) |-> f[g[k]]]
<1>5. \A k \in 1 .. Len(part) : at[k] = f[g[k]] /\ g[k] \in 1 .. Len(q)
  BY <1>2, <1>4 DEF Leads
<1> HIDE DEF at
<1>6. \A k \in 1 .. Len(part) :
          at[k] \in {x \in S : Own(d, cs[x])} /\ part[k] = cs[at[k]]
  <2> TAKE k \in 1 .. Len(part)
  <2>1. at[k] \in S /\ q[g[k]] = cs[at[k]]
    BY <1>1, <1>5 DEF Lists
  <2>2. part[k] = q[g[k]] /\ Own(d, q[g[k]])
    BY <1>2, <1>4 DEF Leads
  <2> QED BY <2>1, <2>2
<1>7. ASSUME NEW j \in 1 .. Len(part), NEW k \in 1 .. Len(part), j < k
      PROVE  Precedes(cs, at[j], at[k])
  <2>1. g[j] < g[k] /\ g[j] \in 1 .. Len(q) /\ g[k] \in 1 .. Len(q)
    BY <1>4, <1>5, <1>7 DEF Leads, Increasing
  <2>2. Precedes(cs, f[g[j]], f[g[k]])
    BY <1>1, <2>1 DEF Lists
  <2> QED BY <1>5, <2>2
<1>8. ASSUME NEW x \in S, Own(d, cs[x]) PROVE \E k \in 1 .. Len(part) : at[k] = x
  <2>1. PICK j \in 1 .. Len(q) : f[j] = x
    BY <1>1 DEF Lists
  <2>2. j \in U
    <3>1. q[j] = cs[x]
      BY <1>1, <2>1 DEF Lists
    <3> QED BY <1>2, <1>8, <3>1
  <2>3. PICK k \in 1 .. Len(part) : g[k] = j
    BY <1>4, <2>2 DEF Leads
  <2> QED BY <1>5, <2>1, <2>3
<1>9. Lists(at, part, cs, OwnAt(d, cs, S))
  BY <1>6, <1>7, <1>8 DEF Lists, OwnAt
<1> QED BY <1>3, <1>9 DEF ByPrecedence

(* GetOpaqueDeviceConfigs returns all configs of the driver, in the order  *)
(* of precedence.                                                          *)
LEMMA ConfigsByPrecedence ==
  ASSUME NEW T, NEW cs \in Seq(T), NEW d
  PROVE  /\ GetOpaqueDeviceConfigs(d, cs) \in Seq(T)
         /\ ByPrecedence(GetOpaqueDeviceConfigs(d, cs), cs,
                         {x \in 1 .. Len(cs) : cs[x].source \in Sources /\ Own(d, cs[x])})
<1> DEFINE R == {k \in 1 .. Len(cs) : cs[k].source = "FromClass"}
           S == {k \in 1 .. Len(cs) : cs[k].source = "FromClaim"}
           C == Candidates(cs)
<1>1. /\ From(cs, "FromClass") \in Seq(T) /\ ByPrecedence(From(cs, "FromClass"), cs, R)
      /\ From(cs, "FromClaim") \in Seq(T) /\ ByPrecedence(From(cs, "FromClaim"), cs, S)
  BY FromByPrecedence
<1>2. \A x \in R, y \in S : Precedes(cs, x, y)
  BY DEF Precedes
<1>3. C \in Seq(T) /\ ByPrecedence(C, cs, R \cup S)
  <2> HIDE DEF R, S
  <2>1. ByPrecedence(From(cs, "FromClass") \o From(cs, "FromClaim"), cs, R \cup S)
    BY <1>1, <1>2, JoinedByPrecedence
  <2> QED BY <1>1, <2>1 DEF Candidates
<1>4. PICK part : part = GetOpaqueDeviceConfigs(d, cs)
  OBVIOUS
<1>5. part = Listed(C, OwnAt(d, C, 1 .. Len(C)))
  BY <1>4 DEF GetOpaqueDeviceConfigs, OwnAt
<1>6. part \in Seq(T) /\ ByPrecedence(part, cs, OwnAt(d, cs, R \cup S))
  <2> HIDE DEF C, R, S
  <2> QED BY <1>3, <1>5, PartByPrecedence
<1>7. OwnAt(d, cs, R \cup S)
          = {x \in 1 .. Len(cs) : cs[x].source \in Sources /\ Own(d, cs[x])}
  BY DEF Sources, OwnAt
<1> HIDE DEF C, R, S
<1> QED BY <1>4, <1>6, <1>7

-----------------------------------------------------------------------------
(* Precedence. *)

(* The configs of driver d for a request, by their position in cs. *)
For(d, cs, request) ==
    {k \in 1 .. Len(cs) : Own(d, cs[k]) /\ (cs[k].requests = {} \/ request \in cs[k].requests)}

(* Searching the list backwards finds the config that takes precedence     *)
(* over all others for the request, or the default one if there is none.   *)
LEMMA ChosenConfig ==
    ASSUME NEW T, NEW cs \in Seq(T), NEW d, NEW request,
           \A k \in 1 .. Len(cs) : cs[k].source \in Sources
    PROVE  LET chosen == WithDefault(d, cs)[Max(Applicable(d, cs, request))]
           IN  \/ For(d, cs, request) = {} /\ chosen.parameters = "none"
               \/ \E a \in For(d, cs, request) :
                      /\ \A b \in For(d, cs, request) \ {a} : Precedes(cs, b, a)
                      /\ chosen.parameters = cs[a].parameters
<1> DEFINE r == GetOpaqueDeviceConfigs(d, cs)
           w == WithDefault(d, cs)
           n == Len(r)
           fits == Applicable(d, cs, request)
           x == Max(fits)
           among == For(d, cs, request)
<1>1. PICK at : r \in Seq(T) /\ Lists(at, r, cs, {k \in 1 .. Len(cs) : Own(d, cs[k])})
  <2>1. {k \in 1 .. Len(cs) : cs[k].source \in Sources /\ Own(d, cs[k])}
            = {k \in 1 .. Len(cs) : Own(d, cs[k])}
    OBVIOUS
  <2> QED BY <2>1, ConfigsByPrecedence DEF ByPrecedence
<1>2. n \in Nat /\ Len(w) = n + 1 /\ w[1] = Default /\ \A k \in 1 .. n : w[k + 1] = r[k]
  <2>1. r \in Seq(T \cup {Default}) /\ <<Default>> \in Seq(T \cup {Default})
    BY <1>1, SeqMonotonic
  <2>2. w = <<Default>> \o r
    BY DEF WithDefault
  <2> HIDE DEF r, w
  <2>3. /\ Len(r) \in Nat
        /\ Len(w) = Len(<<Default>>) + Len(r)
        /\ \A i \in 1 .. Len(<<Default>>) + Len(r) :
               w[i] = IF i <= Len(<<Default>>) THEN <<Default>>[i] ELSE r[i - Len(<<Default>>)]
    BY <2>1, <2>2, ConcatProperties, LenProperties
  <2> QED BY <2>3
<1>3. \A k \in 1 .. (n + 1) : k \in fits <=> w[k].requests = {} \/ request \in w[k].requests
  BY <1>2 DEF Applicable
<1>4. fits \subseteq 1 .. (n + 1) /\ 1 \in fits
  BY <1>2, <1>3 DEF Applicable, Default
<1>5. x \in fits /\ \A y \in fits : x >= y
  <2> HIDE DEF fits, n
  <2> QED BY <1>2, <1>4, GreatestOf
<1> HIDE DEF r, w, n, fits, x
<1>6. \A b \in among : \E k \in 1 .. n : at[k] = b /\ k + 1 \in fits
  <2> TAKE b \in among
  <2>1. PICK k \in 1 .. n : at[k] = b
    BY <1>1 DEF Lists, For, n
  <2>2. r[k] = cs[b]
    BY <1>1, <2>1 DEF Lists, n
  <2>3. w[k + 1] = cs[b] /\ k + 1 \in 1 .. (n + 1)
    BY <1>2, <2>1, <2>2
  <2> QED BY <1>3, <2>1, <2>3 DEF For
<1>7. CASE x = 1
  <2>1. among = {}
    <3> SUFFICES ASSUME NEW b \in among PROVE FALSE
      OBVIOUS
    <3> HIDE DEF among
    <3>1. PICK k \in 1 .. n : k + 1 \in fits
      BY <1>6
    <3> QED BY <1>2, <1>5, <1>7, <3>1
  <2>2. w[x].parameters = "none"
    BY <1>2, <1>7 DEF Default
  <2> QED BY <2>1, <2>2 DEF w, x, fits
<1>8. CASE x # 1
  <2>1. x - 1 \in 1 .. n /\ x = (x - 1) + 1
    BY <1>2, <1>4, <1>5, <1>8
  <2>2. PICK a : a = at[x - 1]
    OBVIOUS
  <2>3. w[x] = cs[a] /\ Own(d, cs[a]) /\ a \in 1 .. Len(cs)
    BY <1>1, <1>2, <2>1, <2>2 DEF Lists, n
  <2>4. a \in among
    BY <1>3, <1>4, <1>5, <2>3 DEF For
  <2>5. ASSUME NEW b \in among \ {a} PROVE Precedes(cs, b, a)
    <3> HIDE DEF among
    <3>1. PICK k \in 1 .. n : at[k] = b /\ k + 1 \in fits
      BY <1>6
    <3>2. k < x - 1
      <4>1. k + 1 <= x
        BY <1>4, <1>5, <3>1
      <4>2. k # x - 1
        BY <2>2, <2>5, <3>1
      <4> QED BY <1>2, <2>1, <4>1, <4>2
    <3> QED BY <1>1, <2>1, <2>2, <3>1, <3>2 DEF Lists, n
  <2> QED BY <2>3, <2>4, <2>5 DEF w, x, fits
<1> QED BY <1>7, <1>8

(* The edits of a device that comes once are those of its own request. *)
LEMMA EditsOfResult ==
    ASSUME NEW d, NEW cs, NEW rs, Len(rs) \in Nat, Once(d, rs), NEW n \in OwnResults(d, rs),
           NEW order \in Orders(Used(d, cs, rs))
    PROVE  Edits(d, cs, rs, order, rs[n].device)
               = [config |-> WithDefault(d, cs)[Max(Applicable(d, cs, rs[n].request))].parameters,
                  request |-> rs[n].request]
<1> DEFINE x == Max(Applicable(d, cs, rs[n].request))
           having == {m \in Group(d, cs, rs, x) : rs[m].device = rs[n].device}
<1>1. Edits(d, cs, rs, order, rs[n].device) = ApplyConfig(d, cs, rs, x, rs[n].device)
  BY OrderIrrelevant
<1>2. n \in Group(d, cs, rs, x)
  BY DEF Group, Chosen
<1>3. having = {n}
  <2>1. ASSUME NEW m \in having PROVE m = n
    <3>1. m \in OwnResults(d, rs) /\ rs[m].device = rs[n].device
      BY <2>1 DEF Group
    <3> QED BY <3>1 DEF Once
  <2> QED BY <1>2, <2>1
<1>4. Max(having) = n
  <2>1. having \subseteq 1 .. Len(rs)
    BY <1>3 DEF OwnResults
  <2> HIDE DEF having
  <2> QED BY <1>3, <2>1, GreatestOf
<1>5. ApplyConfig(d, cs, rs, x, rs[n].device)
          = [config |-> WithDefault(d, cs)[x].parameters, request |-> rs[Max(having)].request]
  BY DEF ApplyConfig
<1> HIDE DEF having
<1> QED BY <1>1, <1>4, <1>5

(* For every allocation, profile and order of the maps: each device comes  *)
(* out under the config that takes precedence over all others for its      *)
(* request, and with the edits of this request.                            *)
THEOREM PrecedenceKept == PrepareSpec => []HighestPrecedence
<1>1. PrepareInv => HighestPrecedence
  <2> SUFFICES ASSUME PrepareInv, NEW d \in Drivers, ValidSpec(d), NEW device \in prepared[d]
               PROVE  /\ device.edits.request = device.request
                      /\ \/ Relevant(d, device.request) = {} /\ device.edits.config = "none"
                         \/ \E a \in Relevant(d, device.request) :
                                /\ \A b \in Relevant(d, device.request) \ {a} : TakesPrecedence(a, b)
                                /\ device.edits.config = allocation.configs[a].parameters
    BY DEF HighestPrecedence
  <2> DEFINE cs == allocation.configs
             rs == allocation.results
  <2>1. PICK T : cs \in Seq(T)
    BY AllocationsAssumption DEF PrepareInv
  <2>2. Len(rs) \in Nat
    BY AllocationsAssumption, LenProperties DEF PrepareInv
  <2>3. ~ConfigFails(d, cs, rs) /\ prepared[d] \in computeDeviceConfig(d, cs, rs)
    BY DEF PrepareInv, Computed
  <2>4. PICK order \in Orders(Used(d, cs, rs)) : prepared[d] = Prepared(d, cs, rs, order)
    BY <2>3 DEF computeDeviceConfig
  <2>5. PICK n \in OwnResults(d, rs) :
            device = [request |-> rs[n].request, device |-> rs[n].device,
                      admin |-> checkAdminAccess(rs),
                      edits |-> Edits(d, cs, rs, order, rs[n].device)]
    BY <2>4 DEF Prepared
  <2>6. \A k \in 1 .. Len(cs) : cs[k].source \in Sources
    BY <2>3 DEF ConfigFails, Refused
  <2>7. Once(d, rs)
    BY DEF ValidSpec, Once
  <2> DEFINE chosen == WithDefault(d, cs)[Max(Applicable(d, cs, rs[n].request))]
  <2>8. Edits(d, cs, rs, order, rs[n].device)
            = [config |-> chosen.parameters, request |-> rs[n].request]
    BY <2>2, <2>5, <2>7, EditsOfResult
  <2>9. device.request = rs[n].request /\ device.edits.request = rs[n].request
        /\ device.edits.config = chosen.parameters
    BY <2>5, <2>8
  <2>10. \/ For(d, cs, rs[n].request) = {} /\ chosen.parameters = "none"
         \/ \E a \in For(d, cs, rs[n].request) :
                /\ \A b \in For(d, cs, rs[n].request) \ {a} : Precedes(cs, b, a)
                /\ chosen.parameters = cs[a].parameters
    BY <2>1, <2>6, ChosenConfig
  <2>11. Relevant(d, device.request) = For(d, cs, rs[n].request)
    BY <2>9 DEF Relevant, For
  <2>12. \A a, b : Precedes(cs, b, a) => TakesPrecedence(a, b)
    BY DEF Precedes, TakesPrecedence
  <2> HIDE DEF chosen
  <2> QED BY <2>9, <2>10, <2>11, <2>12
<1> QED BY <1>1, PrepareInvariant, PTL
=============================================================================
