------------------------- MODULE ClaimLedger_proofs -------------------------
(***************************************************************************)
(* DeviceState implements ClaimLedger, in the environment and by the       *)
(* invariants of PreparedClaims_proofs.                                    *)
(***************************************************************************)
EXTENDS PreparedClaims_proofs

StatusOf == [c \in Claims |-> Status(c)]

LEMMA StatusKnown ==
  ASSUME NEW c \in Claims
  PROVE  Status(c) \in Ledger!Statuses
BY DEF Status, Ledger!Statuses

LEMMA StatusGone ==
  ASSUME NEW c \in Claims
  PROVE  Gone(c) <=> Status(c) = "nothing"
BY DEF Status

(* A usable claim has its spec, so it is not gone. *)
LEMMA StatusUsable ==
  ASSUME NEW c \in Claims
  PROVE  Usable(c) <=> Status(c) = "usable"
BY DEF Status, Gone, Usable, GetClaimDevices

LEMMA StatusUnchanged ==
  ASSUME UNCHANGED disk
  PROVE  UNCHANGED StatusOf
<1>1. ASSUME NEW c \in Claims PROVE Status(c)' = Status(c)
  BY DEF disk, Status, Gone, Usable
<1> QED BY <1>1 DEF StatusOf

(* A step that leaves alone what the kubelet counts on is work. *)
LEMMA StepIsWork ==
  ASSUME UNCHANGED view, \A c \in Claims : OnDisk(c),
         \A c \in Claims : \/ view[c] \in {"preparing", "unpreparing"}
                           \/ (Usable(c) => Usable(c)') /\ (Gone(c) => Gone(c)'),
         view \in [Claims -> {"idle", "preparing", "prepared", "unpreparing"}]
  PROVE  Ledger!Work
<1>1. ASSUME NEW c \in Claims, Status(c)' # Status(c)
      PROVE  view[c] \in {"preparing", "unpreparing"}
  <2>1. CASE view[c] = "idle"
    <3>1. Gone(c) /\ Gone(c)'
      BY <2>1 DEF OnDisk
    <3> QED BY <1>1, <3>1 DEF Status
  <2>2. CASE view[c] = "prepared"
    <3>1. Usable(c) /\ Usable(c)'
      BY <2>2 DEF OnDisk
    <3>2. Status(c)' = "usable"
      BY <3>1 DEF Status, Gone, Usable, GetClaimDevices
    <3> QED BY <1>1, <3>1, <3>2, StatusUsable
  <2> QED BY <2>1, <2>2
<1>2. \A c \in Claims : Status(c)' \in Ledger!Statuses
  BY DEF Status, Ledger!Statuses
<1> QED BY <1>1, <1>2 DEF Ledger!Work

-----------------------------------------------------------------------------
(* The steps. *)

LEMMA LedgerInit ==
  ASSUME Init
  PROVE  Ledger!Init
BY DEF Init, Ledger!Init, Status, Gone, EmptyCheckpoint

LEMMA LedgerKubelet ==
  ASSUME SystemInv, Environment, Kubelet
  PROVE  [Ledger!Next]_<<view, StatusOf>>
<1>1. UNCHANGED disk
  BY DEF Kubelet, PodAdded, PodRemoved, KubeletRestarts, PrepareRequest, UnprepareRequest,
         Request, GiveUp
<1>2. UNCHANGED StatusOf
  BY <1>1, StatusUnchanged
<1>3. ASSUME NEW c \in Claims, PodAdded(c) PROVE Ledger!Demand(c)
  BY <1>2, <1>3 DEF PodAdded, Ledger!Demand, StatusOf
<1>4. ASSUME NEW c \in Claims, PodRemoved(c) PROVE Ledger!Release(c)
  BY <1>2, <1>4 DEF PodRemoved, Ledger!Release, StatusOf
<1>5. CASE KubeletRestarts
  <2>1. Ledger!Forget
    BY <1>2, <1>5 DEF KubeletRestarts, Forgotten, Ledger!Forget, StatusOf
  <2> QED BY <2>1 DEF Ledger!Next
<1>6. ASSUME NEW h \in Handlers,
             \/ GiveUp(h)
             \/ \E batch \in SUBSET Claims : PrepareRequest(h, batch) \/ UnprepareRequest(h, batch)
      PROVE  UNCHANGED view
  BY <1>6 DEF GiveUp, PrepareRequest, UnprepareRequest, Request
<1> QED BY <1>2, <1>3, <1>4, <1>5, <1>6 DEF Kubelet, Ledger!Next

LEMMA LedgerProcesses ==
  ASSUME SystemInv, Environment, Processes
  PROVE  [Ledger!Next]_<<view, StatusOf>>
<1>1. ASSUME NEW i \in Instances, Start(i) PROVE Ledger!Work
  <2>1. /\ UNCHANGED <<checkpoint, hostDir, view>>
        /\ specs' = specs \cup {CommonSpec}
    BY <1>1 DEF Start, CreateCommonSpecFile
  <2>2. \A c \in Claims : (Usable(c) => Usable(c)') /\ (Gone(c) => Gone(c)')
    BY <2>1, ValuesAssumption DEF Usable, Gone
  <2>3. \A c \in Claims : OnDisk(c)
    BY DEF SystemInv, Kept
  <2> QED BY <2>1, <2>2, <2>3, StepIsWork DEF SystemInv, TypeOK
<1>2. ASSUME NEW i \in Instances, Shutdown(i) \/ Crash(i) PROVE UNCHANGED <<view, StatusOf>>
  BY <1>2, StatusUnchanged DEF Shutdown, Crash
<1>3. ~Reboot
  BY DEF Reboot, Environment
<1> QED BY <1>1, <1>2, <1>3 DEF Processes, Ledger!Next

(* The reply is an answer for the claims that succeeded. *)
LEMMA LedgerReply ==
  ASSUME SystemInv, NEW h \in Handlers, Reply(h)
  PROVE  Ledger!Answer(IF call[h].live THEN done[h] ELSE {})
<1> DEFINE batch == IF call[h].live THEN done[h] ELSE {}
<1>1. CallOf(h) /\ Answers(h)
  BY DEF SystemInv, Calling, Kept
<1>2. pc[h] = "serving" /\ UNCHANGED disk
  BY DEF Reply, Goto
<1>3. call[h].op \in {"prepare", "unprepare"}
  BY <1>1, <1>2 DEF CallOf
<1>4. ASSUME NEW c \in batch
      PROVE  c \in Claims /\ view[c] = Pending(call[h].op) /\ Ledger!Achieved(c)
  <2>1. c \in done[h] /\ c \in Claims /\ c \in call[h].claims
    BY <1>1, <1>4 DEF CallOf, SystemInv, TypeOK
  <2>2. view[c] = Pending(call[h].op)
    BY <1>1, <2>1 DEF CallOf
  <2>3. /\ call[h].op = "prepare" => Status(c) = "usable"
        /\ call[h].op = "unprepare" => Status(c) = "nothing"
    BY <1>1, <2>1, StatusUsable, StatusGone DEF Answers
  <2> QED BY <1>3, <2>1, <2>2, <2>3 DEF Pending, Ledger!Achieved
<1>5. view' = [c \in Claims |-> IF c \notin batch THEN view[c]
                                ELSE IF view[c] = "preparing" THEN "prepared" ELSE "idle"]
  <2>1. view' = [c \in Claims |-> IF c \in batch THEN Outcome(call[h].op) ELSE view[c]]
    BY DEF Reply
  <2>2. ASSUME NEW c \in batch
        PROVE  Outcome(call[h].op) = IF view[c] = "preparing" THEN "prepared" ELSE "idle"
    BY <1>3, <1>4, <2>2 DEF Outcome, Pending
  <2> HIDE DEF batch
  <2> QED BY <2>1, <2>2
<1>6. UNCHANGED StatusOf
  BY <1>2, StatusUnchanged
<1> HIDE DEF batch
<1>7. Ledger!Answer(batch)
  BY <1>4, <1>5, <1>6 DEF Ledger!Answer, StatusOf
<1> QED BY <1>7 DEF batch

LEMMA LedgerHandle ==
  ASSUME SystemInv, Environment, NEW h \in Handlers, Handle(h)
  PROVE  [Ledger!Next]_<<view, StatusOf>>
<1>1. CASE Reply(h)
  <2>1. (IF call[h].live THEN done[h] ELSE {}) \in SUBSET Claims
    BY DEF SystemInv, TypeOK
  <2> QED BY <1>1, <2>1, LedgerReply DEF Ledger!Next
<1>2. CASE ~Reply(h)
  <2>1. view' = view
    BY <1>2, HandlerMoves DEF BeginCall, Lock, Continue, Return
  <2>2. ASSUME NEW c \in Claims
        PROVE  \/ view[c] \in {"preparing", "unpreparing"}
               \/ (Usable(c) => Usable(c)') /\ (Gone(c) => Gone(c)')
    <3>1. CASE pc[h] \in Inside /\ c = cur[h]
      BY <3>1, AtHand DEF Pending
    <3>2. CASE pc[h] \in Inside => c # cur[h]
      <4>1. Untouched(c)
        BY <3>2, Footprint DEF SystemInv, Environment
      <4> QED BY <4>1, UntouchedKept
    <3> QED BY <3>1, <3>2
  <2>3. \A c \in Claims : OnDisk(c)
    BY DEF SystemInv, Kept
  <2>4. Ledger!Work
    BY <2>1, <2>2, <2>3, StepIsWork DEF SystemInv, TypeOK
  <2> QED BY <2>4 DEF Ledger!Next
<1> QED BY <1>1, <1>2

LEMMA LedgerStep ==
  ASSUME SystemInv, Environment, [Next]_vars
  PROVE  [Ledger!Next]_<<view, StatusOf>>
<1>1. CASE UNCHANGED vars
  BY <1>1, StatusUnchanged DEF vars
<1> QED BY <1>1, LedgerKubelet, LedgerProcesses, LedgerHandle DEF Next

(* The plugin implements the ledger of promises: whatever calls, failures, *)
(* crashes and instances there are, a claim changes on the node only while *)
(* the kubelet wants it prepared or unprepared, and Prepare and Unprepare  *)
(* report only what they have achieved.                                    *)
THEOREM PluginImplementsLedger ==
  ASSUME Environment
  PROVE  Spec => ImplementsLedger
<1>1. SystemInv /\ [Next]_vars => [Ledger!Next]_<<view, StatusOf>>
  BY LedgerStep
<1>2. Init => Ledger!Init
  BY LedgerInit
<1>3. Spec => []SystemInv
  BY SystemInvariant
<1>4. ImplementsLedger <=> Ledger!Init /\ [][Ledger!Next]_<<view, StatusOf>>
  BY DEF ImplementsLedger, Ledger!Spec, StatusOf
<1> QED BY <1>1, <1>2, <1>3, <1>4, PTL DEF Spec
=============================================================================
