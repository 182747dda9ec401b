------------------------- MODULE StableName_proofs -------------------------
(* What extractStableClaimName returns for the claims of launcher pods. *)
EXTENDS StableName, SequenceTheorems, WellFoundedInduction, TLAPS

(* Every non-empty set of natural numbers has a least element. *)
LEMMA HasMin ==
  ASSUME NEW T, T \subseteq Nat, T # {}
  PROVE  \E x \in T : \A y \in T : x <= y
<1> DEFINE R == OpToRel(<, Nat)
<1>1. IsWellFoundedOn(R, Nat)
  BY NatLessThanWellFounded
<1>2. \A x, y \in Nat : y < x => <<y, x>> \in R
  BY DEF OpToRel
<1> HIDE DEF R
<1>3. PICK x \in T : \A y \in T : ~(<<y, x>> \in R)
  BY <1>1, WFMin
<1>4. \A y \in T : ~(y < x)
  BY <1>2, <1>3
<1>5. \A y \in T : x <= y
  BY <1>4
<1> QED BY <1>5

LEMMA MinOfSet ==
  ASSUME NEW T, T \subseteq Nat, T # {}
  PROVE  Min(T) \in T /\ \A y \in T : Min(T) <= y
BY HasMin DEF Min

(* Every non-empty set of numbers up to n has a greatest element. *)
LEMMA MaxOfSet ==
  ASSUME NEW n \in Nat, NEW T, T \subseteq 1 .. n, T # {}
  PROVE  Max(T) \in T /\ \A y \in T : Max(T) >= y
<1> DEFINE U == {n - x : x \in T}
<1>1. U \subseteq Nat /\ U # {}
  <2>1. \A x \in T : n - x \in Nat
    OBVIOUS
  <2>2. PICK x \in T : TRUE
    OBVIOUS
  <2>3. n - x \in U
    BY <2>2
  <2> QED BY <2>1, <2>3
<1>2. PICK u \in U : \A v \in U : u <= v
  BY <1>1, HasMin
<1>3. PICK x \in T : u = n - x
  OBVIOUS
<1>4. \A y \in T : x >= y
  <2> TAKE y \in T
  <2>1. n - y \in U
    OBVIOUS
  <2>2. n - x <= n - y
    BY <1>2, <1>3, <2>1
  <2>3. x \in Nat /\ y \in Nat
    OBVIOUS
  <2> HIDE DEF U
  <2> QED BY <2>2, <2>3
<1> HIDE DEF U
<1> QED BY <1>3, <1>4 DEF Max

LEMMA AppendPart ==
  ASSUME NEW S, NEW s \in Seq(S), NEW p \in S
  PROVE  /\ s \o <<p>> \in Seq(S)
         /\ Len(s \o <<p>>) = Len(s) + 1
         /\ \A i \in 1 .. Len(s) : (s \o <<p>>)[i] = s[i]
         /\ (s \o <<p>>)[Len(s) + 1] = p
<1>1. s \o <<p>> = Append(s, p)
  BY AppendIsConcat
<1> QED BY <1>1, AppendProperties

LEMMA VirtLauncherParts ==
  ASSUME NEW S, "virt" \in S, "launcher" \in S
  PROVE  VirtLauncher \in Seq(S) /\ Len(VirtLauncher) = 2
BY DEF VirtLauncher

(* vmi, pod hash and template, part by part. *)
LEMMA PodParts ==
  ASSUME NEW S, NEW v \in Seq(S), NEW t \in Seq(S), NEW p \in S
  PROVE  LET parts == v \o <<p>> \o t
         IN  /\ parts \in Seq(S)
             /\ Len(parts) = Len(v) + 1 + Len(t)
             /\ \A i \in 1 .. Len(v) : parts[i] = v[i]
             /\ parts[Len(v) + 1] = p
             /\ \A i \in 1 .. Len(t) : parts[Len(v) + 1 + i] = t[i]
<1> DEFINE e == v \o <<p>>
<1>1. /\ e \in Seq(S)
      /\ Len(e) = Len(v) + 1
      /\ \A i \in 1 .. Len(v) : e[i] = v[i]
      /\ e[Len(v) + 1] = p
  BY AppendPart
<1> HIDE DEF e
<1> DEFINE q == e \o t
<1>2. /\ q \in Seq(S)
      /\ Len(q) = Len(e) + Len(t)
      /\ \A i \in 1 .. Len(e) + Len(t) : q[i] = IF i <= Len(e) THEN e[i] ELSE t[i - Len(e)]
  BY <1>1, ConcatProperties
<1> HIDE DEF q
<1>3. Len(v) \in Nat /\ Len(t) \in Nat
  BY LenProperties
<1>4. \A i \in 1 .. Len(v) + 1 : q[i] = e[i]
  BY <1>1, <1>2, <1>3
<1>5. ASSUME NEW i \in 1 .. Len(t) PROVE q[Len(v) + 1 + i] = t[i]
  <2>1. /\ Len(v) + 1 + i \in 1 .. Len(e) + Len(t)
        /\ ~(Len(v) + 1 + i <= Len(e))
        /\ (Len(v) + 1 + i) - Len(e) = i
    BY <1>1, <1>3
  <2> QED BY <1>2, <2>1
<1>6. /\ \A i \in 1 .. Len(v) : q[i] = v[i]
      /\ q[Len(v) + 1] = p
  BY <1>1, <1>3, <1>4
<1> QED BY <1>1, <1>2, <1>5, <1>6 DEF e, q

LEMMA LauncherNameShape ==
  ASSUME NEW S, NEW v \in Seq(S), NEW t \in Seq(S), NEW p \in S, "virt" \in S, "launcher" \in S
  PROVE  VirtLauncher \o v \o <<p>> \o t = VirtLauncher \o (v \o <<p>> \o t)
<1>1. VirtLauncher \in Seq(S)
  BY VirtLauncherParts
<1>2. <<p>> \in Seq(S)
  OBVIOUS
<1>3. v \o <<p>> \in Seq(S)
  BY AppendPart
<1>4. (VirtLauncher \o v) \o <<p>> = VirtLauncher \o (v \o <<p>>)
  BY <1>1, <1>2, ConcatAssociative
<1>5. (VirtLauncher \o (v \o <<p>>)) \o t = VirtLauncher \o ((v \o <<p>>) \o t)
  BY <1>1, <1>3, ConcatAssociative
<1> QED BY <1>4, <1>5

(* Cutting "virt-launcher-" and the claim hash off leaves the rest. *)
LEMMA CutLauncherName ==
  ASSUME NEW S, NEW parts \in Seq(S), NEW c \in S, "virt" \in S, "launcher" \in S, Len(parts) >= 3
  PROVE  LET name == VirtLauncher \o parts \o <<c>>
         IN  /\ Len(name) = Len(parts) + 3
             /\ HasLauncherPrefix(name)
             /\ WithoutClaimHash(name) = parts
<1> DEFINE d == VirtLauncher \o parts
<1>1. Len(parts) \in Nat
  BY LenProperties
<1>2. VirtLauncher \in Seq(S) /\ Len(VirtLauncher) = 2
  BY VirtLauncherParts
<1>3. /\ d \in Seq(S)
      /\ Len(d) = Len(VirtLauncher) + Len(parts)
      /\ \A i \in 1 .. Len(VirtLauncher) + Len(parts) :
             d[i] = IF i <= Len(VirtLauncher) THEN VirtLauncher[i] ELSE parts[i - Len(VirtLauncher)]
  BY <1>2, ConcatProperties
<1>4. SubSeq(d, 3, Len(d)) = parts
  <2>1. SubSeq(d, 3, Len(d)) = SubSeq(parts, 3 - Len(VirtLauncher), Len(d) - Len(VirtLauncher))
    <3>1. /\ 3 \in Len(VirtLauncher) + 1 .. Len(VirtLauncher) + Len(parts)
          /\ Len(d) \in Len(VirtLauncher) + 1 .. Len(VirtLauncher) + Len(parts)
      BY <1>1, <1>2, <1>3
    <3> QED BY <1>2, <3>1, SubSeqOfConcat2
  <2>2. 3 - Len(VirtLauncher) = 1 /\ Len(d) - Len(VirtLauncher) = Len(parts)
    BY <1>1, <1>2, <1>3
  <2> QED BY <2>1, <2>2, SubSeqFull
<1> HIDE DEF d
<1> DEFINE name == d \o <<c>>
<1>5. /\ name \in Seq(S)
      /\ Len(name) = Len(d) + 1
      /\ \A i \in 1 .. Len(d) : name[i] = d[i]
  <2>1. d \in Seq(S)
    BY <1>3
  <2> QED BY <2>1, AppendPart
<1>6. SubSeq(name, 3, Len(name) - 1) = SubSeq(d, 3, Len(d))
  <2>1. <<c>> \in Seq(S)
    OBVIOUS
  <2>2. 3 \in 1 .. Len(d) /\ Len(d) \in 1 .. Len(d) /\ Len(name) - 1 = Len(d)
    BY <1>1, <1>2, <1>3, <1>5
  <2> QED BY <1>3, <2>1, <2>2, SubSeqOfConcat1
<1>7. name[1] = VirtLauncher[1] /\ name[2] = VirtLauncher[2] /\ Len(name) = Len(parts) + 3
  <2>1. 1 \in 1 .. Len(d) /\ 2 \in 1 .. Len(d) /\ Len(d) = Len(parts) + 2
    BY <1>1, <1>2, <1>3
  <2>2. d[1] = VirtLauncher[1] /\ d[2] = VirtLauncher[2]
    BY <1>1, <1>2, <1>3
  <2>3. Len(name) = Len(parts) + 3
    BY <1>1, <1>5, <2>1
  <2> HIDE DEF name
  <2> QED BY <1>5, <2>1, <2>2, <2>3
<1>8. HasLauncherPrefix(name)
  BY <1>1, <1>7 DEF HasLauncherPrefix
<1> QED BY <1>4, <1>6, <1>7, <1>8 DEF d, WithoutClaimHash

(* The scan stops at the pod hash when no part before it looks like one.   *)
LEMMA FirstPodHash ==
  ASSUME NEW parts, Len(parts) \in Nat, NEW k \in 1 .. Len(parts) - 1,
         parts[k] \in HashShaped,
         \A i \in 1 .. k - 1 : parts[i] \notin HashShaped
  PROVE  PodHashIndices(parts) # {} /\ PodHashIndex(parts) = k
<1> DEFINE I == PodHashIndices(parts)
<1>1. I \subseteq Nat /\ k \in I
  BY DEF PodHashIndices
<1>2. \A i \in I : i >= k
  BY DEF PodHashIndices
<1>3. Min(I) \in I /\ \A i \in I : Min(I) <= i
  BY <1>1, MinOfSet
<1>4. Min(I) <= k /\ Min(I) >= k /\ Min(I) \in Nat
  BY <1>1, <1>2, <1>3
<1> HIDE DEF I
<1>5. Min(I) = k
  BY <1>4
<1> QED BY <1>1, <1>5 DEF PodHashIndex, I

(* For the claim of a launcher pod extractStableClaimName returns the      *)
(* VMI's name and the template's name, whatever the two hashes are, if no  *)
(* part of the VMI's name looks like a pod hash.                           *)
THEOREM ExtractLauncherName ==
  ASSUME NEW v \in Seq(STRING) \ {<<>>}, NEW t \in Seq(STRING) \ {<<>>},
         NEW p \in HashShaped, NEW c \in HashShaped,
         \A i \in 1 .. Len(v) : v[i] \notin HashShaped
  PROVE  extractStableClaimName(VirtLauncher \o v \o <<p>> \o t \o <<c>>) = v \o t
<1> DEFINE parts == v \o <<p>> \o t
           name == VirtLauncher \o parts \o <<c>>
<1> DEFINE S == STRING \cup {"virt", "launcher"}
<1>1. v \in Seq(STRING) /\ t \in Seq(STRING)
  OBVIOUS
<1>2. /\ v \in Seq(S) /\ t \in Seq(S) /\ p \in S /\ c \in S
      /\ "virt" \in S /\ "launcher" \in S
  <2>1. \A s \in Seq(STRING) : s \in Seq(S)
    OBVIOUS
  <2>2. HashShaped \subseteq S /\ "virt" \in S /\ "launcher" \in S
    BY HashShapedAssumption
  <2> HIDE DEF S
  <2> QED BY <1>1, <2>1, <2>2
<1> HIDE DEF S
<1>3. /\ Len(v) \in Nat \ {0}
      /\ Len(t) \in Nat \ {0}
  BY <1>2, EmptySeq
<1>4. /\ parts \in Seq(S)
      /\ Len(parts) = Len(v) + 1 + Len(t)
      /\ \A i \in 1 .. Len(v) : parts[i] = v[i]
      /\ parts[Len(v) + 1] = p
      /\ \A i \in 1 .. Len(t) : parts[Len(v) + 1 + i] = t[i]
  BY <1>2, PodParts
<1>5. VirtLauncher \o v \o <<p>> \o t \o <<c>> = name
  BY <1>2, LauncherNameShape
<1> HIDE DEF parts
<1>6. /\ Len(name) = Len(parts) + 3
      /\ HasLauncherPrefix(name)
      /\ WithoutClaimHash(name) = parts
  <2>1. Len(parts) >= 3
    BY <1>3, <1>4
  <2> QED BY <1>2, <1>4, <2>1, CutLauncherName
<1> HIDE DEF name
<1>7. PodHashIndices(parts) # {} /\ PodHashIndex(parts) = Len(v) + 1
  <2>1. /\ Len(parts) \in Nat
        /\ Len(v) + 1 \in 1 .. Len(parts) - 1
        /\ (Len(v) + 1) - 1 = Len(v)
    BY <1>3, <1>4
  <2>2. \A i \in 1 .. (Len(v) + 1) - 1 : parts[i] \notin HashShaped
    BY <1>4, <2>1
  <2> QED BY <1>4, <2>1, <2>2, FirstPodHash
<1>8. SubSeq(parts, 1, Len(v)) = v
  <2>1. \A i \in 1 .. Len(v) : parts[i] \in S
    BY <1>2, <1>4, ElementOfSeq
  <2>2. /\ SubSeq(parts, 1, Len(v)) \in Seq(S)
        /\ Len(SubSeq(parts, 1, Len(v))) = IF 1 <= Len(v) THEN Len(v) - 1 + 1 ELSE 0
        /\ \A i \in 1 .. Len(v) - 1 + 1 : SubSeq(parts, 1, Len(v))[i] = parts[1 + i - 1]
    BY <1>3, <2>1, SubSeqProperties
  <2>3. /\ Len(SubSeq(parts, 1, Len(v))) = Len(v)
        /\ \A i \in 1 .. Len(v) : SubSeq(parts, 1, Len(v))[i] = v[i]
    BY <1>3, <1>4, <2>2
  <2> QED BY <1>2, <2>2, <2>3, SeqEqual
<1>9. SubSeq(parts, Len(v) + 2, Len(parts)) = t
  <2> DEFINE q == SubSeq(parts, Len(v) + 2, Len(parts))
  <2>1. \A i \in Len(v) + 2 .. Len(parts) : parts[i] \in S
    BY <1>3, <1>4, ElementOfSeq
  <2>2. Len(v) + 2 \in Int /\ Len(parts) \in Int
    BY <1>3, <1>4
  <2>3. /\ q \in Seq(S)
        /\ Len(q) = IF Len(v) + 2 <= Len(parts) THEN Len(parts) - (Len(v) + 2) + 1 ELSE 0
        /\ \A i \in 1 .. Len(parts) - (Len(v) + 2) + 1 : q[i] = parts[(Len(v) + 2) + i - 1]
    BY <2>1, <2>2, SubSeqProperties
  <2> HIDE DEF q
  <2>4. Len(q) = Len(t) /\ Len(parts) - (Len(v) + 2) + 1 = Len(t)
    BY <1>3, <1>4, <2>3
  <2>5. ASSUME NEW i \in 1 .. Len(q) PROVE q[i] = t[i]
    <3>1. (Len(v) + 2) + i - 1 = Len(v) + 1 + i
      BY <1>3, <2>4
    <3> QED BY <1>4, <2>3, <2>4, <3>1
  <2>6. q = t
    BY <1>2, <2>3, <2>4, <2>5, SeqEqual
  <2> QED BY <2>6 DEF q
<1>10. ~(Len(name) < 6) /\ (Len(v) + 1) - 1 = Len(v) /\ (Len(v) + 1) + 1 = Len(v) + 2
  BY <1>3, <1>4, <1>6
<1>11. extractStableClaimName(name) = JoinNames(v, t)
  BY <1>6, <1>7, <1>8, <1>9, <1>10 DEF extractStableClaimName
<1> QED BY <1>5, <1>11 DEF JoinNames
=============================================================================
