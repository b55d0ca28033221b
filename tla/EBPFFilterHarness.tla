------------------------- MODULE EBPFFilterHarness -------------------------
(***************************************************************************)
(* The mitigation back end (src/ebpf_filter.cpp) and the kernel it talks to: *)
(* the XDP program of bpf/xdp_filter.c with its hash map of blocked source   *)
(* addresses.  blocked_ips_ mirrors the keys of that map so that an address  *)
(* is sent to the kernel only once.                                         *)
(*                                                                         *)
(* One thread owns the harness: it constructs it, loads the object at most   *)
(* once, and destroys it when no call is under way, as main.cpp does, unless *)
(* a signal ends the process first.  Any caller may block and unblock in     *)
(* between.  filter_mutex_ is held from the  *)
(* first to the last step of such a call, but the kernel and the readers of  *)
(* get_blocked_count run between the steps.                                 *)
(***************************************************************************)
EXTENDS Integers, FiniteSets

CONSTANTS Callers,     \* threads that call block_ip and unblock_ip
          Ips,         \* dotted-quad strings
          Malformed,   \* strings inet_pton does not accept
          MapEntries,  \* max_entries of blocked_ip_map
          MaxDrops,    \* bound: packets the kernel counts for one address
          Nobody       \* filter_mutex_ is free, or no argument yet

ASSUME MapEntriesAssumption == MapEntries \in Nat
ASSUME MaxDropsAssumption == MaxDrops \in Nat
ASSUME AddressAssumption == Ips \cap Malformed = {}
ASSUME NobodyAssumption == Nobody \notin Callers

VARIABLES owner,         \* the step the owning thread is about to take
          ifindex,       \* whether an interface was found
          loaded,        \* bpf_obj_ is open, and with it prog_fd_ and map_fd_
          mapFd,         \* map_fd_: a descriptor, or -1
          progFd,        \* prog_fd_: a descriptor, or -1
          attached,      \* the kernel runs xdp_firewall on the interface
          refused,       \* what bpf_xdp_detach answered; nobody looks
          dropCount,     \* blocked_ip_map: address -> packets dropped
          blockedIps,    \* blocked_ips_
          mutex,         \* who holds filter_mutex_
          pc, ip, answer \* of each caller: step, argument, last result

ownerVars == <<owner, ifindex, loaded, mapFd, progFd, attached, refused>>
callVars == <<mutex, pc, ip, answer>>
vars == <<ownerVars, dropCount, blockedIps, callVars>>

Strings == Ips \cup Malformed
Fd == 3           \* some descriptor; 0 to 2 are the standard streams
InMap == DOMAIN dropCount

Init == /\ owner = "new"
        /\ ifindex \in BOOLEAN
        /\ loaded = FALSE
        /\ mapFd = -1
        /\ progFd = -1
        /\ attached = FALSE
        /\ refused = FALSE
        /\ dropCount = [i \in {} |-> 0]
        /\ blockedIps = {}
        /\ mutex = Nobody
        /\ pc = [t \in Callers |-> "idle"]
        /\ ip = [t \in Callers |-> Nobody]
        /\ answer = [t \in Callers |-> FALSE]
-----------------------------------------------------------------------------
(* load_and_attach: no interface, no object file, or refused by the verifier. *)
LoadFails ==
    /\ owner = "new"
    /\ owner' = "ready"
    /\ UNCHANGED <<ifindex, loaded, mapFd, progFd, attached, refused, dropCount, blockedIps, callVars>>

(* Wrong on purpose, as are the definitions named ...Wrong below: prog_fd_ is   *)
(* not kept.                                                                    *)
LoadObjectWrong ==
    /\ owner = "new"
    /\ ifindex
    /\ loaded' = TRUE
    /\ mapFd' = Fd
    /\ owner' = "attach"
    /\ UNCHANGED <<ifindex, progFd, attached, refused, dropCount, blockedIps, callVars>>

LoadObject ==
    /\ owner = "new"
    /\ ifindex
    /\ loaded' = TRUE
    /\ progFd' = Fd
    /\ mapFd' = Fd
    /\ owner' = "attach"
    /\ UNCHANGED <<ifindex, attached, refused, dropCount, blockedIps, callVars>>

Attach ==
    /\ owner = "attach"
    /\ attached' = TRUE
    /\ owner' = "ready"
    /\ UNCHANGED <<ifindex, loaded, mapFd, progFd, refused, dropCount, blockedIps, callVars>>

(* The descriptors and the object stay as LoadObject left them. *)
AttachFails ==
    /\ owner = "attach"
    /\ owner' = "ready"
    /\ UNCHANGED <<ifindex, loaded, mapFd, progFd, attached, refused, dropCount, blockedIps, callVars>>

(* detach, called by the destructor.  The answer of bpf_xdp_detach is thrown     *)
(* away: prog_fd_ becomes -1 and the detachment is announced either way.        *)
Detach(ok) ==
    /\ owner = "ready"
    /\ \A t \in Callers : pc[t] = "idle"
    /\ IF ifindex /\ progFd > 0
       THEN attached' = (attached /\ ~ ok) /\ progFd' = -1 /\ refused' = ~ ok
       ELSE UNCHANGED <<attached, progFd, refused>>
    /\ owner' = "close"
    /\ UNCHANGED <<ifindex, loaded, mapFd, dropCount, blockedIps, callVars>>

DetachProgram == \E ok \in BOOLEAN : Detach(ok)

(* Closing the object frees the map, unless a program that is still attached    *)
(* holds on to it; map_fd_ keeps its value.                                     *)
KeptByProgram == IF attached THEN dropCount ELSE [i \in {} |-> 0]

CloseObject ==
    /\ owner = "close"
    /\ loaded' = FALSE
    /\ dropCount' = KeptByProgram
    /\ owner' = "gone"
    /\ UNCHANGED <<ifindex, mapFd, progFd, attached, refused, blockedIps, callVars>>

(* A signal ends the process: no destructor runs, no call under way returns,    *)
(* and the kernel closes the object.  The rest of the memory is left   *)
(* as it was: nobody reads it again.                                            *)
Killed ==
    /\ owner \notin {"gone", "killed"}
    /\ owner' = "killed"
    /\ loaded' = FALSE
    /\ dropCount' = KeptByProgram
    /\ mutex' = Nobody
    /\ pc' = [t \in Callers |-> "idle"]
    /\ ip' = [t \in Callers |-> Nobody]
    /\ answer' = [t \in Callers |-> FALSE]
    /\ UNCHANGED <<ifindex, mapFd, progFd, attached, refused, blockedIps>>
-----------------------------------------------------------------------------
Enter(t, s, step) ==
    /\ owner = "ready"
    /\ pc[t] = "idle"
    /\ mutex = Nobody
    /\ mutex' = t
    /\ ip' = [ip EXCEPT ![t] = s]
    /\ pc' = [pc EXCEPT ![t] = step]
    /\ UNCHANGED <<ownerVars, dropCount, blockedIps, answer>>

Return(t, result) ==
    /\ mutex' = Nobody
    /\ answer' = [answer EXCEPT ![t] = result]
    /\ pc' = [pc EXCEPT ![t] = "idle"]
    /\ UNCHANGED <<ownerVars, ip>>

(* block_ip *)
BlockEnter(t, s) == Enter(t, s, "block")

BlockKnown(t) ==
    /\ pc[t] = "block"
    /\ ip[t] \in blockedIps
    /\ Return(t, TRUE)
    /\ UNCHANGED <<dropCount, blockedIps>>

BlockRefused(t) ==
    /\ pc[t] = "block"
    /\ ip[t] \notin blockedIps
    /\ ip[t] \in Malformed \/ mapFd < 0
    /\ Return(t, FALSE)
    /\ UNCHANGED <<dropCount, blockedIps>>

(* bpf_map_update_elem succeeds if the key is there or there is room for it; with *)
(* BPF_ANY it overwrites the counter of a key already there.                     *)
KernelTakes(s) == loaded /\ (s \in InMap \/ Cardinality(InMap) < MapEntries)

(* a failed update is remembered as done *)
BlockUpdateFailsWrong(t) ==
    /\ pc[t] = "block"
    /\ ip[t] \in Ips \ blockedIps
    /\ mapFd >= 0
    /\ ~ KernelTakes(ip[t])
    /\ blockedIps' = blockedIps \cup {ip[t]}
    /\ Return(t, FALSE)
    /\ UNCHANGED dropCount

BlockUpdateFails(t) ==
    /\ pc[t] = "block"
    /\ ip[t] \in Ips \ blockedIps
    /\ mapFd >= 0
    /\ ~ KernelTakes(ip[t])
    /\ Return(t, FALSE)
    /\ UNCHANGED <<dropCount, blockedIps>>

(* the result of inet_pton is not looked at *)
BlockUpdateWrong(t) ==
    /\ pc[t] = "block"
    /\ ip[t] \notin blockedIps
    /\ mapFd >= 0
    /\ KernelTakes(ip[t])
    /\ dropCount' = [i \in InMap \cup {ip[t]} |-> IF i = ip[t] THEN 0 ELSE dropCount[i]]
    /\ pc' = [pc EXCEPT ![t] = "insert"]
    /\ UNCHANGED <<ownerVars, blockedIps, mutex, ip, answer>>

(* the mirror is not looked at *)
BlockUpdateWrongAgain(t) ==
    /\ pc[t] = "block"
    /\ ip[t] \in Ips
    /\ mapFd >= 0
    /\ KernelTakes(ip[t])
    /\ dropCount' = [i \in InMap \cup {ip[t]} |-> IF i = ip[t] THEN 0 ELSE dropCount[i]]
    /\ pc' = [pc EXCEPT ![t] = "insert"]
    /\ UNCHANGED <<ownerVars, blockedIps, mutex, ip, answer>>

BlockUpdate(t) ==
    /\ pc[t] = "block"
    /\ ip[t] \in Ips \ blockedIps
    /\ mapFd >= 0
    /\ KernelTakes(ip[t])
    /\ dropCount' = [i \in InMap \cup {ip[t]} |-> IF i = ip[t] THEN 0 ELSE dropCount[i]]
    /\ pc' = [pc EXCEPT ![t] = "insert"]
    /\ UNCHANGED <<ownerVars, blockedIps, mutex, ip, answer>>

BlockInsert(t) ==
    /\ pc[t] = "insert"
    /\ blockedIps' = blockedIps \cup {ip[t]}
    /\ Return(t, TRUE)
    /\ UNCHANGED dropCount

(* unblock_ip *)
UnblockEnter(t, s) == Enter(t, s, "unblock")

UnblockRefused(t) ==
    /\ pc[t] = "unblock"
    /\ ip[t] \in Malformed
    /\ Return(t, FALSE)
    /\ UNCHANGED <<dropCount, blockedIps>>

(* The result of bpf_map_delete_elem is not looked at. *)
UnblockDelete(t) ==
    /\ pc[t] = "unblock"
    /\ ip[t] \in Ips
    /\ dropCount' = IF mapFd >= 0 /\ loaded
                    THEN [i \in InMap \ {ip[t]} |-> dropCount[i]]
                    ELSE dropCount
    /\ pc' = [pc EXCEPT ![t] = "erase"]
    /\ UNCHANGED <<ownerVars, blockedIps, mutex, ip, answer>>

(* the address stays in the mirror *)
UnblockEraseWrong(t) ==
    /\ pc[t] = "erase"
    /\ Return(t, TRUE)
    /\ UNCHANGED <<dropCount, blockedIps>>

UnblockErase(t) ==
    /\ pc[t] = "erase"
    /\ blockedIps' = blockedIps \ {ip[t]}
    /\ Return(t, TRUE)
    /\ UNCHANGED dropCount
-----------------------------------------------------------------------------
(* xdp_firewall sees an IPv4 packet from s. *)
XdpDrops(s) == attached /\ s \in InMap

XdpFirewall(s) ==
    /\ XdpDrops(s)
    /\ dropCount[s] < MaxDrops
    /\ dropCount' = [dropCount EXCEPT ![s] = @ + 1]
    /\ UNCHANGED <<ownerVars, blockedIps, callVars>>
-----------------------------------------------------------------------------
Block(t) == \/ \E s \in Strings : BlockEnter(t, s)
            \/ BlockKnown(t)
            \/ BlockRefused(t)
            \/ BlockUpdateFails(t)
            \/ BlockUpdate(t)
            \/ BlockInsert(t)

Unblock(t) == \/ \E s \in Strings : UnblockEnter(t, s)
              \/ UnblockRefused(t)
              \/ UnblockDelete(t)
              \/ UnblockErase(t)

Own == \/ LoadFails \/ LoadObject \/ Attach \/ AttachFails
       \/ DetachProgram \/ CloseObject \/ Killed

Next == \/ Own
        \/ \E t \in Callers : Block(t) \/ Unblock(t)
        \/ \E s \in Ips : XdpFirewall(s)

Spec == Init /\ [][Next]_vars
-----------------------------------------------------------------------------
TypeOK == /\ owner \in {"new", "attach", "ready", "close", "gone", "killed"}
          /\ ifindex \in BOOLEAN
          /\ loaded \in BOOLEAN
          /\ mapFd \in {-1, Fd}
          /\ progFd \in {-1, Fd}
          /\ attached \in BOOLEAN
          /\ refused \in BOOLEAN
          /\ InMap \subseteq Ips
          /\ dropCount \in [InMap -> 0 .. MaxDrops]
          /\ blockedIps \subseteq Ips
          /\ mutex \in Callers \cup {Nobody}
          /\ pc \in [Callers -> {"idle", "block", "insert", "unblock", "erase"}]
          /\ ip \in [Callers -> Strings \cup {Nobody}]
          /\ \A t \in Callers : pc[t] \in {"insert", "erase"} => ip[t] \in Ips
          /\ answer \in [Callers -> BOOLEAN]

(* One call is under way exactly when the mutex is held. *)
MutexHeld == \A t \in Callers : mutex = t <=> pc[t] # "idle"

(* The mirror and the kernel's map hold the same addresses whenever the mutex   *)
(* is free, and during a call they differ in no address but the one in hand: a  *)
(* failed update is not remembered, a deleted key is not left in the mirror.    *)
(* This is what lets block_ip answer from the mirror alone.                     *)
MirrorAgrees ==
    owner \notin {"gone", "killed"} =>
        /\ mutex = Nobody => blockedIps = InMap
        /\ \A t \in Callers :
              /\ pc[t] \in {"block", "unblock"} => blockedIps = InMap
              /\ pc[t] = "insert" => InMap = blockedIps \cup {ip[t]}
              /\ pc[t] = "erase" => InMap = blockedIps \ {ip[t]}

(* block_ip answers true only for an address that is in the kernel's map, also  *)
(* when it answers without asking the kernel.                                   *)
TrueMeansInKernel ==
    [][\A t \in Callers :
          /\ pc[t] \in {"block", "insert"}
          /\ pc'[t] = "idle"
          /\ answer'[t]
          => ip[t] \in InMap']_vars

(* The kernel's drop counter of an address is never reset while the address     *)
(* stays in the map, although the update in block_ip would overwrite it.        *)
CountersOnlyGrow ==
    [][\A s \in InMap \cap InMap' : dropCount'[s] >= dropCount[s]]_vars

(* Destroying the harness leaves nothing behind, however far load_and_attach    *)
(* came: no filter on the interface and, once the object is closed, no blocked  *)
(* address.  The one exception is a kernel that refused to detach the program.  *)
NothingLeftAttached ==
    owner \in {"close", "gone"} /\ ~ refused =>
        ~ attached /\ (owner = "gone" => InMap = {})
=============================================================================
