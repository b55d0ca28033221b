---------------------- MODULE EBPFFilterHarnessProofs ----------------------
(***************************************************************************)
(* Proofs about EBPFFilterHarness for every set of callers and addresses    *)
(* and every size of the kernel's map.                                      *)
(***************************************************************************)
EXTENDS EBPFFilterHarness, TLAPS

LEMMA TypeInit == Init => TypeOK
BY MaxDropsAssumption DEF Init, TypeOK, InMap

LEMMA TypeStep == TypeOK /\ [Next]_vars => TypeOK'
<1> SUFFICES ASSUME TypeOK, [Next]_vars
             PROVE  TypeOK'
  OBVIOUS
<1> USE AddressAssumption, NobodyAssumption, MaxDropsAssumption
    DEF TypeOK, InMap, Strings
<1>1. ASSUME NEW t \in Callers, Block(t)
      PROVE  TypeOK'
  <2>1. ASSUME NEW s \in Strings, BlockEnter(t, s)
        PROVE  TypeOK'
    BY <2>1 DEF BlockEnter, Enter, ownerVars
  <2>2. CASE BlockKnown(t)
    BY <2>2 DEF BlockKnown, Return, ownerVars
  <2>3. CASE BlockRefused(t)
    BY <2>3 DEF BlockRefused, Return, ownerVars
  <2>4. CASE BlockUpdateFails(t)
    BY <2>4 DEF BlockUpdateFails, Return, KernelTakes, ownerVars
  <2>5. CASE BlockUpdate(t)
    BY <2>5 DEF BlockUpdate, KernelTakes, ownerVars
  <2>6. CASE BlockInsert(t)
    BY <2>6 DEF BlockInsert, Return, ownerVars
  <2> QED BY <1>1, <2>1, <2>2, <2>3, <2>4, <2>5, <2>6 DEF Block
<1>2. ASSUME NEW t \in Callers, Unblock(t)
      PROVE  TypeOK'
  <2>1. ASSUME NEW s \in Strings, UnblockEnter(t, s)
        PROVE  TypeOK'
    BY <2>1 DEF UnblockEnter, Enter, ownerVars
  <2>2. CASE UnblockRefused(t)
    BY <2>2 DEF UnblockRefused, Return, ownerVars
  <2>3. CASE UnblockDelete(t)
    BY <2>3 DEF UnblockDelete, ownerVars
  <2>4. CASE UnblockErase(t)
    BY <2>4 DEF UnblockErase, Return, ownerVars
  <2> QED BY <1>2, <2>1, <2>2, <2>3, <2>4 DEF Unblock
<1>3. CASE Own
  <2>1. CASE LoadFails
    BY <2>1 DEF LoadFails, callVars
  <2>2. CASE LoadObject
    BY <2>2 DEF LoadObject, callVars
  <2>3. CASE Attach
    BY <2>3 DEF Attach, callVars
  <2>4. CASE AttachFails
    BY <2>4 DEF AttachFails, callVars
  <2>5. CASE DetachProgram
    BY <2>5 DEF DetachProgram, Detach, callVars
  <2>6. CASE CloseObject
    BY <2>6 DEF CloseObject, KeptByProgram, callVars
  <2>7. CASE Killed
    BY <2>7 DEF Killed, KeptByProgram
  <2> QED BY <1>3, <2>1, <2>2, <2>3, <2>4, <2>5, <2>6, <2>7 DEF Own
<1>4. ASSUME NEW s \in Ips, XdpFirewall(s)
      PROVE  TypeOK'
  BY <1>4 DEF XdpFirewall, XdpDrops, ownerVars, callVars
<1>5. CASE UNCHANGED vars
  BY <1>5 DEF vars, ownerVars, callVars
<1> QED BY <1>1, <1>2, <1>3, <1>4, <1>5 DEF Next

(* Whatever the callers do, every variable keeps its type. *)
THEOREM TypeCorrect == Spec => []TypeOK
BY TypeInit, TypeStep, PTL DEF Spec
-----------------------------------------------------------------------------
(* The descriptors tell whether the kernel has a map and a program, and no call *)
(* is under way before the harness is ready nor after.                          *)
Descriptors ==
    /\ owner # "ready" => mutex = Nobody
    /\ owner \in {"new", "attach"} => blockedIps = {} /\ InMap = {} /\ ~ attached
    /\ owner = "attach" => ifindex /\ progFd = Fd
    /\ attached /\ ~ refused /\ owner # "killed" =>
          ifindex /\ progFd = Fd /\ owner = "ready"
    /\ owner \notin {"gone", "killed"} => (mapFd >= 0 <=> loaded)
    /\ mapFd < 0 => InMap = {}
    /\ owner = "gone" /\ ~ attached => InMap = {}
    /\ refused => owner \in {"close", "gone", "killed"}

(* The inductive invariant. *)
HarnessInv == TypeOK /\ MutexHeld /\ Descriptors /\ MirrorAgrees

LEMMA MutexHeldStep == TypeOK /\ MutexHeld /\ [Next]_vars => MutexHeld'
<1> SUFFICES ASSUME TypeOK, MutexHeld, [Next]_vars
             PROVE  MutexHeld'
  OBVIOUS
<1> USE NobodyAssumption DEF TypeOK, MutexHeld
<1>1. ASSUME NEW t \in Callers, Block(t)
      PROVE  MutexHeld'
  <2>1. ASSUME NEW s \in Strings, BlockEnter(t, s)
        PROVE  MutexHeld'
    BY <2>1 DEF BlockEnter, Enter, ownerVars
  <2>2. CASE BlockKnown(t)
    BY <2>2 DEF BlockKnown, Return, ownerVars
  <2>3. CASE BlockRefused(t)
    BY <2>3 DEF BlockRefused, Return, ownerVars
  <2>4. CASE BlockUpdateFails(t)
    BY <2>4 DEF BlockUpdateFails, Return, KernelTakes, ownerVars
  <2>5. CASE BlockUpdate(t)
    BY <2>5 DEF BlockUpdate, KernelTakes, ownerVars
  <2>6. CASE BlockInsert(t)
    BY <2>6 DEF BlockInsert, Return, ownerVars
  <2> QED BY <1>1, <2>1, <2>2, <2>3, <2>4, <2>5, <2>6 DEF Block
<1>2. ASSUME NEW t \in Callers, Unblock(t)
      PROVE  MutexHeld'
  <2>1. ASSUME NEW s \in Strings, UnblockEnter(t, s)
        PROVE  MutexHeld'
    BY <2>1 DEF UnblockEnter, Enter, ownerVars
  <2>2. CASE UnblockRefused(t)
    BY <2>2 DEF UnblockRefused, Return, ownerVars
  <2>3. CASE UnblockDelete(t)
    BY <2>3 DEF UnblockDelete, ownerVars
  <2>4. CASE UnblockErase(t)
    BY <2>4 DEF UnblockErase, Return, ownerVars
  <2> QED BY <1>2, <2>1, <2>2, <2>3, <2>4 DEF Unblock
<1>3. CASE Own
  <2>1. CASE LoadFails
    BY <2>1 DEF LoadFails, callVars
  <2>2. CASE LoadObject
    BY <2>2 DEF LoadObject, callVars
  <2>3. CASE Attach
    BY <2>3 DEF Attach, callVars
  <2>4. CASE AttachFails
    BY <2>4 DEF AttachFails, callVars
  <2>5. CASE DetachProgram
    BY <2>5 DEF DetachProgram, Detach, callVars
  <2>6. CASE CloseObject
    BY <2>6 DEF CloseObject, KeptByProgram, callVars
  <2>7. CASE Killed
    BY <2>7 DEF Killed, KeptByProgram
  <2> QED BY <1>3, <2>1, <2>2, <2>3, <2>4, <2>5, <2>6, <2>7 DEF Own
<1>4. ASSUME NEW s \in Ips, XdpFirewall(s)
      PROVE  MutexHeld'
  BY <1>4 DEF XdpFirewall, XdpDrops, ownerVars, callVars
<1>5. CASE UNCHANGED vars
  BY <1>5 DEF vars, ownerVars, callVars
<1> QED BY <1>1, <1>2, <1>3, <1>4, <1>5 DEF Next

LEMMA DescriptorsStep ==
    HarnessInv /\ TypeOK' /\ [Next]_vars => Descriptors'
<1> SUFFICES ASSUME HarnessInv, TypeOK', [Next]_vars
             PROVE  Descriptors'
  OBVIOUS
<1> USE NobodyAssumption DEF HarnessInv, TypeOK, InMap, MutexHeld, Descriptors, Fd
<1>1. ASSUME NEW t \in Callers, Block(t)
      PROVE  Descriptors'
  <2>1. ASSUME NEW s \in Strings, BlockEnter(t, s)
        PROVE  Descriptors'
    BY <2>1 DEF BlockEnter, Enter, ownerVars
  <2>2. CASE BlockKnown(t)
    BY <2>2 DEF BlockKnown, Return, ownerVars
  <2>3. CASE BlockRefused(t)
    BY <2>3 DEF BlockRefused, Return, ownerVars
  <2>4. CASE BlockUpdateFails(t)
    BY <2>4 DEF BlockUpdateFails, Return, KernelTakes, ownerVars
  <2>5. CASE BlockUpdate(t)
    BY <2>5 DEF BlockUpdate, KernelTakes, ownerVars
  <2>6. CASE BlockInsert(t)
    BY <2>6 DEF BlockInsert, Return, ownerVars
  <2> QED BY <1>1, <2>1, <2>2, <2>3, <2>4, <2>5, <2>6 DEF Block
<1>2. ASSUME NEW t \in Callers, Unblock(t)
      PROVE  Descriptors'
  <2>1. ASSUME NEW s \in Strings, UnblockEnter(t, s)
        PROVE  Descriptors'
    BY <2>1 DEF UnblockEnter, Enter, ownerVars
  <2>2. CASE UnblockRefused(t)
    BY <2>2 DEF UnblockRefused, Return, ownerVars
  <2>3. CASE UnblockDelete(t)
    BY <2>3 DEF UnblockDelete, ownerVars
  <2>4. CASE UnblockErase(t)
    BY <2>4 DEF UnblockErase, Return, ownerVars
  <2> QED BY <1>2, <2>1, <2>2, <2>3, <2>4 DEF Unblock
<1>3. CASE Own
  <2>1. CASE LoadFails
    BY <2>1 DEF LoadFails, callVars
  <2>2. CASE LoadObject
    BY <2>2 DEF LoadObject, callVars
  <2>3. CASE Attach
    BY <2>3 DEF Attach, callVars
  <2>4. CASE AttachFails
    BY <2>4 DEF AttachFails, callVars
  <2>5. CASE DetachProgram
    BY <2>5 DEF DetachProgram, Detach, callVars
  <2>6. CASE CloseObject
    BY <2>6 DEF CloseObject, KeptByProgram, callVars
  <2>7. CASE Killed
    BY <2>7 DEF Killed, KeptByProgram
  <2> QED BY <1>3, <2>1, <2>2, <2>3, <2>4, <2>5, <2>6, <2>7 DEF Own
<1>4. ASSUME NEW s \in Ips, XdpFirewall(s)
      PROVE  Descriptors'
  BY <1>4 DEF XdpFirewall, XdpDrops, ownerVars, callVars
<1>5. CASE UNCHANGED vars
  BY <1>5 DEF vars, ownerVars, callVars
<1> QED BY <1>1, <1>2, <1>3, <1>4, <1>5 DEF Next

LEMMA MirrorAgreesStep ==
    HarnessInv /\ TypeOK' /\ MutexHeld' /\ [Next]_vars => MirrorAgrees'
<1> SUFFICES ASSUME HarnessInv, TypeOK', MutexHeld', [Next]_vars
             PROVE  MirrorAgrees'
  OBVIOUS
<1> USE AddressAssumption, NobodyAssumption
    DEF HarnessInv, TypeOK, InMap, MutexHeld, Descriptors, MirrorAgrees
<1>1. ASSUME NEW t \in Callers, Block(t)
      PROVE  MirrorAgrees'
  <2>1. ASSUME NEW s \in Strings, BlockEnter(t, s)
        PROVE  MirrorAgrees'
    BY <2>1 DEF BlockEnter, Enter, ownerVars
  <2>2. CASE BlockKnown(t)
    BY <2>2 DEF BlockKnown, Return, ownerVars
  <2>3. CASE BlockRefused(t)
    BY <2>3 DEF BlockRefused, Return, ownerVars
  <2>4. CASE BlockUpdateFails(t)
    BY <2>4 DEF BlockUpdateFails, Return, KernelTakes, ownerVars
  <2>5. CASE BlockUpdate(t)
    BY <2>5 DEF BlockUpdate, KernelTakes, ownerVars
  <2>6. CASE BlockInsert(t)
    BY <2>6 DEF BlockInsert, Return, ownerVars
  <2> QED BY <1>1, <2>1, <2>2, <2>3, <2>4, <2>5, <2>6 DEF Block
<1>2. ASSUME NEW t \in Callers, Unblock(t)
      PROVE  MirrorAgrees'
  <2>1. ASSUME NEW s \in Strings, UnblockEnter(t, s)
        PROVE  MirrorAgrees'
    BY <2>1 DEF UnblockEnter, Enter, ownerVars
  <2>2. CASE UnblockRefused(t)
    BY <2>2 DEF UnblockRefused, Return, ownerVars
  <2>3. CASE UnblockDelete(t)
    <3>1. /\ blockedIps = InMap
          /\ owner = "ready"
          /\ \A u \in Callers : u # t => pc[u] = "idle"
          /\ mutex = t
      BY <2>3 DEF UnblockDelete
    <3>2. InMap' = InMap \ {ip[t]}
      <4>1. CASE mapFd >= 0 /\ loaded
        BY <2>3, <4>1 DEF UnblockDelete
      <4>2. CASE ~ (mapFd >= 0 /\ loaded)
        <5>1. InMap = {}
          <6>1. mapFd < 0
            BY <3>1, <4>2 DEF Fd
          <6> QED BY <3>1, <6>1
        <5>2. dropCount' = dropCount
          BY <2>3, <4>2 DEF UnblockDelete
        <5> QED BY <5>1, <5>2
      <4> QED BY <4>1, <4>2
    <3>3. /\ UNCHANGED <<owner, blockedIps, mutex, ip>>
          /\ pc' = [pc EXCEPT ![t] = "erase"]
      BY <2>3 DEF UnblockDelete, ownerVars
    <3> HIDE DEF InMap
    <3> QED BY <3>1, <3>2, <3>3
  <2>4. CASE UnblockErase(t)
    BY <2>4 DEF UnblockErase, Return, ownerVars
  <2> QED BY <1>2, <2>1, <2>2, <2>3, <2>4 DEF Unblock
<1>3. CASE Own
  <2>1. CASE LoadFails
    BY <2>1 DEF LoadFails, callVars
  <2>2. CASE LoadObject
    BY <2>2 DEF LoadObject, callVars
  <2>3. CASE Attach
    BY <2>3 DEF Attach, callVars
  <2>4. CASE AttachFails
    BY <2>4 DEF AttachFails, callVars
  <2>5. CASE DetachProgram
    BY <2>5 DEF DetachProgram, Detach, callVars
  <2>6. CASE CloseObject
    BY <2>6 DEF CloseObject, KeptByProgram, callVars
  <2>7. CASE Killed
    BY <2>7 DEF Killed, KeptByProgram
  <2> QED BY <1>3, <2>1, <2>2, <2>3, <2>4, <2>5, <2>6, <2>7 DEF Own
<1>4. ASSUME NEW s \in Ips, XdpFirewall(s)
      PROVE  MirrorAgrees'
  BY <1>4 DEF XdpFirewall, XdpDrops, ownerVars, callVars
<1>5. CASE UNCHANGED vars
  BY <1>5 DEF vars, ownerVars, callVars
<1> QED BY <1>1, <1>2, <1>3, <1>4, <1>5 DEF Next

LEMMA HarnessInit == Init => HarnessInv
<1> SUFFICES ASSUME Init
             PROVE  HarnessInv
  OBVIOUS
<1>1. InMap = {}
  BY DEF Init, InMap
<1>2. MutexHeld /\ MirrorAgrees
  BY <1>1, NobodyAssumption DEF Init, MutexHeld, MirrorAgrees
<1>3. Descriptors
  BY <1>1 DEF Init, Descriptors, Fd
<1> QED BY <1>2, <1>3, TypeInit DEF HarnessInv

LEMMA HarnessStep == HarnessInv /\ [Next]_vars => HarnessInv'
BY TypeStep, MutexHeldStep, DescriptorsStep, MirrorAgreesStep DEF HarnessInv

LEMMA HarnessInvariant == Spec => []HarnessInv
BY HarnessInit, HarnessStep, PTL DEF Spec

(* The mirror and the kernel's map agree whenever no call is under way, for any *)
(* number of callers and any size of the map.                                   *)
THEOREM MirrorInSync == Spec => []MirrorAgrees
<1>1. HarnessInv => MirrorAgrees
  BY DEF HarnessInv
<1> QED BY <1>1, HarnessInvariant, PTL

(* A harness that has been destroyed has left neither a filter on the interface *)
(* nor a blocked address in the kernel, unless the kernel refused to detach.    *)
THEOREM DetachComplete == Spec => []NothingLeftAttached
<1>1. HarnessInv => NothingLeftAttached
  BY DEF HarnessInv, Descriptors, NothingLeftAttached
<1> QED BY <1>1, HarnessInvariant, PTL

(* The kernel's drop counter of a blocked address is never set back: block_ip   *)
(* asks the kernel only about addresses that are not in the mirror, hence not   *)
(* in the map.                                                                  *)
THEOREM CountersGrow == Spec => CountersOnlyGrow
<1> DEFINE Grow == \A s \in InMap \cap InMap' : dropCount'[s] >= dropCount[s]
<1>1. HarnessInv /\ [Next]_vars => [Grow]_vars
  <2> SUFFICES ASSUME HarnessInv, Next, NEW s \in InMap, s \in InMap'
               PROVE  dropCount'[s] >= dropCount[s]
    OBVIOUS
  <2> USE DEF HarnessInv, TypeOK, InMap
  <2>0. dropCount[s] \in Nat
    BY MaxDropsAssumption
  <2>1. ASSUME NEW t \in Callers, BlockUpdate(t)
        PROVE  dropCount'[s] >= dropCount[s]
    <3>1. blockedIps = InMap
      BY <2>1, NobodyAssumption DEF BlockUpdate, MirrorAgrees, MutexHeld, Descriptors
    <3>2. ip[t] # s
      BY <2>1, <3>1 DEF BlockUpdate
    <3> QED BY <2>0, <2>1, <3>2 DEF BlockUpdate
  <2>2. ASSUME NEW t \in Callers, UnblockDelete(t)
        PROVE  dropCount'[s] >= dropCount[s]
    BY <2>0, <2>2 DEF UnblockDelete
  <2>3. CASE CloseObject \/ Killed
    BY <2>0, <2>3 DEF CloseObject, Killed, KeptByProgram
  <2>4. ASSUME NEW i \in Ips, XdpFirewall(i)
        PROVE  dropCount'[s] >= dropCount[s]
    BY <2>0, <2>4 DEF XdpFirewall, XdpDrops
  <2>5. CASE UNCHANGED dropCount
    BY <2>0, <2>5
  <2>6. \/ \E t \in Callers : BlockUpdate(t) \/ UnblockDelete(t)
        \/ CloseObject \/ Killed
        \/ \E i \in Ips : XdpFirewall(i)
        \/ UNCHANGED dropCount
    BY DEF Next, Own, LoadFails, LoadObject, Attach, AttachFails, DetachProgram, Detach,
           Block, BlockEnter, Enter, BlockKnown, BlockRefused, BlockUpdateFails, BlockInsert,
           Unblock, UnblockEnter, UnblockRefused, UnblockErase
  <2> QED BY <2>1, <2>2, <2>3, <2>4, <2>5, <2>6
<1> QED BY <1>1, HarnessInvariant, PTL DEF Spec, CountersOnlyGrow

(* block_ip answers true only for an address the kernel's map holds.            *)
THEOREM TrueIsInKernel == Spec => TrueMeansInKernel
<1> DEFINE Held == \A t \in Callers :
                      /\ pc[t] \in {"block", "insert"}
                      /\ pc'[t] = "idle"
                      /\ answer'[t]
                      => ip[t] \in InMap'
<1>1. HarnessInv /\ HarnessInv' /\ [Next]_vars => [Held]_vars
  <2> SUFFICES ASSUME HarnessInv, HarnessInv', Next, NEW t \in Callers,
                      pc[t] \in {"block", "insert"}, pc'[t] = "idle", answer'[t]
               PROVE  ip[t] \in InMap'
    OBVIOUS
  <2>1. /\ owner = "ready" /\ mutex = t
        /\ \A u \in Callers : u # t => pc[u] = "idle"
    BY NobodyAssumption DEF HarnessInv, MutexHeld, Descriptors
  <2>2. BlockKnown(t) \/ BlockInsert(t)
    <3>1. ~ Own
      <4>1. pc' # pc
        BY DEF HarnessInv, TypeOK
      <4>2. ~ Killed
        BY DEF Killed
      <4> QED BY <4>1, <4>2 DEF Own, LoadFails, LoadObject, Attach, AttachFails,
                                DetachProgram, Detach, CloseObject, callVars
    <3>2. ASSUME NEW s \in Ips
          PROVE  ~ XdpFirewall(s)
      <4>1. pc' # pc
        BY DEF HarnessInv, TypeOK
      <4> QED BY <4>1 DEF XdpFirewall, callVars
    <3>3. ASSUME NEW u \in Callers, u # t
          PROVE  ~ Block(u) /\ ~ Unblock(u)
      <4>1. pc[u] = "idle" /\ mutex # Nobody
        BY <2>1, <3>3, NobodyAssumption
      <4> QED BY <4>1 DEF Block, Unblock, BlockEnter, UnblockEnter, Enter, BlockKnown,
                          BlockRefused, BlockUpdateFails, BlockUpdate, BlockInsert,
                          UnblockRefused, UnblockDelete, UnblockErase
    <3>4. ~ Unblock(t)
      BY <2>1, NobodyAssumption
         DEF Unblock, UnblockEnter, Enter, UnblockRefused, UnblockDelete, UnblockErase
    <3>5. Block(t)
      BY <3>1, <3>2, <3>3, <3>4 DEF Next
    <3> QED BY <3>5 DEF Block, BlockEnter, Enter, BlockRefused, BlockUpdateFails,
               BlockUpdate, Return, HarnessInv, TypeOK
  <2>3. CASE BlockKnown(t)
    BY <2>1, <2>3 DEF BlockKnown, HarnessInv, MirrorAgrees, InMap
  <2>4. CASE BlockInsert(t)
    BY <2>1, <2>4 DEF BlockInsert, HarnessInv, MirrorAgrees, InMap
  <2> QED BY <2>2, <2>3, <2>4
<1> QED BY <1>1, HarnessInvariant, PTL DEF Spec, TrueMeansInKernel
=============================================================================
