----------------------------- MODULE PoolTests -----------------------------
(***************************************************************************)
(* The pool test (StorageHandler.pool_tests): it enables multipathing on   *)
(* the hosts that do not have it, creates an SR, shows the path counts in  *)
(* the PBDs of the hosts, destroys the SR and disables multipathing again. *)
(* Every call to XAPI may fail.  enable_multipathing and                   *)
(* disable_multipathing swallow that and leave a host between two modes.   *)
(***************************************************************************)
EXTENDS Integers

CONSTANTS
  Host, Me,     \* the pool, and the host XenCert runs on
  NoHost,
  Key           \* keys of PBD.other_config that name a LUN

ASSUME PoolAssumption == Me \in Host /\ NoHost \notin Host

VARIABLES
  mp, handle,    \* other_config of the hosts: multipathing; multipathhandle is dmp
  sr, plugged,   \* the SR exists; hosts with a plugged PBD
  config,        \* what other_config of the PBD of a host has
  pc, todo, at, step,          \* hosts still to visit, the one visited, and how far
  list, ref, retval, checkpoint,   \* host_disable_mp_list, sr_ref is not None
  found, broken  \* history: modes at the start; hosts with a failed call

hosts == <<mp, handle>>
store == <<sr, plugged, config>>
loop  == <<todo, at, step>>
marks == <<ref, retval, checkpoint>>
notes == <<found, broken>>
vars  == <<hosts, store, pc, loop, list, marks, notes>>

Total  == 4

Enabled(h) == mp[h] = "true" /\ handle[h]
Breaks(h)  == broken' = broken \cup {h}

Raise == pc' = "destroy" /\ retval' = FALSE

Init ==
  /\ mp \in [Host -> {"none", "true", "false"}] /\ handle \in [Host -> BOOLEAN]
  /\ sr = FALSE /\ plugged = {} /\ config = [h \in Host |-> {}]
  /\ pc = "hosts" /\ todo = {} /\ at = NoHost /\ step = 0
  /\ list = {} /\ ref = FALSE /\ retval = TRUE /\ checkpoint = 0
  /\ found = [h \in Host |-> Enabled(h)] /\ broken = {}

----------------------------------------------------------------------------
\* host.get_all.
GetHosts ==
  /\ pc = "hosts"
  /\ \/ todo' = Host /\ pc' = "enable" /\ UNCHANGED retval
     \/ Raise /\ UNCHANGED todo
  /\ UNCHANGED <<hosts, store, at, step, list, ref, checkpoint, notes>>

\* is_mp_enabled, which answers no when its query fails.
QueryHost ==
  /\ pc = "enable" /\ at = NoHost
  /\ \E h \in todo :
       /\ todo' = todo \ {h}
       /\ \/ Enabled(h) /\ UNCHANGED <<at, step, broken>>
          \/ ~Enabled(h) /\ at' = h /\ step' = 1 /\ UNCHANGED broken
          \/ at' = h /\ step' = 1 /\ Breaks(h)
  /\ UNCHANGED <<hosts, store, pc, list, marks, found>>

\* Both begin by removing the two keys ...
Remove(h) == \/ step = 1 /\ mp' = [mp EXCEPT ![h] = "none"] /\ UNCHANGED handle
             \/ step = 2 /\ handle' = [handle EXCEPT ![h] = FALSE] /\ UNCHANGED mp

\* ... and enable_multipathing adds both again.
EnableCall(h) ==
  \/ Remove(h)
  \/ step = 3 /\ mp' = [mp EXCEPT ![h] = "true"] /\ UNCHANGED handle
  \/ step = 4 /\ handle' = [handle EXCEPT ![h] = TRUE] /\ UNCHANGED mp

\* Mutant: nothing is appended.
NotListed == UNCHANGED list

\* host_disable_mp_list.append.
Listed == list' = list \cup {at}

EnableStep ==
  /\ pc = "enable" /\ at # NoHost
  /\ \/ /\ EnableCall(at) /\ step < 4
        /\ step' = step + 1 /\ UNCHANGED <<at, list, broken>>
     \/ /\ EnableCall(at) /\ step = 4
        /\ Listed /\ at' = NoHost /\ step' = 0 /\ UNCHANGED broken
     \/ Listed /\ Breaks(at) /\ at' = NoHost /\ step' = 0 /\ UNCHANGED hosts
  /\ UNCHANGED <<store, pc, todo, marks, found>>

AllVisited ==
  /\ pc = "enable" /\ at = NoHost /\ todo = {}
  /\ pc' = "create" /\ checkpoint' = checkpoint + 1
  /\ UNCHANGED <<hosts, store, loop, list, ref, retval, notes>>

\* create() of the handler.  The SR of an HBA is not shared and has one PBD.
\* A failure after SR.create leaves an SR that the caller does not know.
CreateSr ==
  /\ pc = "create"
  /\ \E on \in {{Me}, Host} :
       \/ /\ sr' = TRUE /\ plugged' = on
          /\ config' \in [Host -> SUBSET Key]
          /\ ref' = TRUE /\ checkpoint' = checkpoint + 1 /\ pc' = "mine" /\ UNCHANGED retval
       \/ /\ sr' \in BOOLEAN /\ plugged' = IF sr' THEN on ELSE {}
          /\ Raise /\ UNCHANGED <<config, ref, checkpoint>>
  /\ UNCHANGED <<hosts, loop, list, notes>>

\* find_my_pbd and the path count of this host.
OwnPbd ==
  /\ pc = "mine"
  /\ \/ pc' = "others" /\ todo' = plugged \ {Me} /\ UNCHANGED retval
     \/ Raise /\ UNCHANGED todo
  /\ UNCHANGED <<hosts, store, at, step, list, ref, checkpoint, notes>>

\* pbds_function and find_scsi_key: of the first key of the PBD of a host with
\* multipathing, what the PBD of this host says is shown; the loop ends there.
OtherPbd ==
  /\ pc = "others"
  /\ \E h \in todo :
       /\ todo' = todo \ {h}
       /\ \/ /\ \/ ~Enabled(h)
                \/ config[h] = {}
                \/ config[h] \cap config[Me] # {}
             /\ UNCHANGED <<pc, retval>>
          \/ Raise
  /\ UNCHANGED <<hosts, store, at, step, list, ref, checkpoint, notes>>

OthersShown ==
  /\ pc = "others" /\ todo = {}
  /\ pc' = "destroy" /\ checkpoint' = checkpoint + 1
  /\ UNCHANGED <<hosts, store, loop, list, ref, retval, notes>>

\* Mutant: the checkpoint does not depend on the SR.
DestroySrCredit ==
  /\ pc = "destroy"
  /\ \E left \in SUBSET plugged : plugged' = left
  /\ sr' \in {sr, plugged' # {}} /\ checkpoint' = checkpoint + 1
  /\ pc' = "disable" /\ todo' = list
  /\ UNCHANGED <<hosts, config, at, step, list, ref, retval, notes>>

\* destroy_sr, and its checkpoint, which is there without an SR as well.
DestroySr ==
  /\ pc = "destroy"
  /\ \/ /\ ~ref /\ checkpoint' = checkpoint + 1 /\ UNCHANGED <<sr, plugged>>
     \/ /\ ref /\ sr' = FALSE /\ plugged' = {} /\ checkpoint' = checkpoint + 1
     \/ /\ ref /\ plugged' \in SUBSET plugged /\ UNCHANGED <<sr, checkpoint>>
  /\ pc' = "disable" /\ todo' = list
  /\ UNCHANGED <<hosts, config, at, step, list, ref, retval, notes>>

\* disable_multipathing.
DisableCall(h) ==
  \/ Remove(h)
  \/ step = 3 /\ mp' = [mp EXCEPT ![h] = "false"] /\ UNCHANGED handle

DisableNext ==
  /\ pc = "disable" /\ at = NoHost
  /\ \/ \E h \in todo : at' = h /\ todo' = todo \ {h} /\ step' = 1 /\ UNCHANGED pc
     \/ todo = {} /\ pc' = "done" /\ UNCHANGED loop
  /\ UNCHANGED <<hosts, store, list, marks, notes>>

DisableStep ==
  /\ pc = "disable" /\ at # NoHost
  /\ \/ /\ DisableCall(at) /\ step < 3
        /\ step' = step + 1 /\ UNCHANGED <<at, broken>>
     \/ DisableCall(at) /\ step = 3 /\ at' = NoHost /\ step' = 0 /\ UNCHANGED broken
     \/ Breaks(at) /\ at' = NoHost /\ step' = 0 /\ UNCHANGED hosts
  /\ UNCHANGED <<store, pc, todo, list, marks, found>>

Done == pc = "done" /\ UNCHANGED vars

Next == \/ GetHosts \/ QueryHost \/ EnableStep \/ AllVisited \/ CreateSr \/ OwnPbd
        \/ OtherPbd \/ OthersShown \/ DestroySr \/ DisableNext \/ DisableStep \/ Done

Spec == Init /\ [][Next]_vars

----------------------------------------------------------------------------
\* Properties.

Label == {"hosts", "enable", "create", "mine", "others", "destroy", "disable", "done"}

\* Every variable has its type, and no more than four checkpoints are given.
TypeOK ==
  /\ mp \in [Host -> {"none", "true", "false"}] /\ handle \in [Host -> BOOLEAN]
  /\ sr \in BOOLEAN /\ plugged \in SUBSET Host /\ config \in [Host -> SUBSET Key]
  /\ pc \in Label /\ todo \in SUBSET Host /\ at \in Host \cup {NoHost} /\ step \in 0 .. 4
  /\ list \in SUBSET Host /\ ref \in BOOLEAN /\ retval \in BOOLEAN
  /\ checkpoint \in 0 .. Total
  /\ found \in [Host -> BOOLEAN] /\ broken \in SUBSET Host

\* A host none of whose calls failed has multipathing from the enabling to the
\* disabling of the hosts, and at the end has it if and only if it had it when
\* the test began, wherever the test stopped.
HostsAsFound ==
  \A h \in Host \ broken :
    /\ pc \in {"create", "mine", "others"} => Enabled(h)
    /\ pc = "done" => (Enabled(h) <=> found[h])

\* All checkpoints are earned only if the paths were looked at and the SR and
\* its PBDs are gone.
FullMarksLeaveNoSr ==
  pc = "done" /\ checkpoint = Total => retval /\ ~sr /\ plugged = {}
=============================================================================
