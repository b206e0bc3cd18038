--------------------------- MODULE DeviceRegistry ---------------------------
(***************************************************************************)
(* app/device_registry.py: the devices that get the agent's pages, one file *)
(* that the web process edits (register, unregister) and the agent edits    *)
(* (prune).  Each edit reads the file, changes the copy and writes it back; *)
(* the lock is a threading.Lock, so it orders the edits of one process only.*)
(* The agent prunes what the push service said was dead while it sent to    *)
(* the list it had read (notifier.py, _push).                               *)
(***************************************************************************)
CONSTANTS
    Device,            \* FCM registration tokens
    ProcessesOverlap,      \* may edits of the two processes overlap?
    DeviceSavesFail    \* may a write of the registry file fail?

ASSUME DeviceAssumption == ProcessesOverlap \in BOOLEAN /\ DeviceSavesFail \in BOOLEAN

VARIABLES
    registry,  \* the file
    webEdit,   \* the web process's edit under way
    push,      \* the agent's push under way
    wanted,    \* history: devices the owner registered and did not unregister
    named      \* history: those a push called dead since they were last registered

deviceVars == <<registry, webEdit, push, wanted, named>>

\* at: between the read and the write of an edit, or while the push is sent.
\* found: the list as read; drop: what the push service said is dead.
NoEdit == [op |-> "none", devices |-> {}, found |-> {}]
NoPush == [at |-> "idle", found |-> {}, drop |-> {}]

DeviceTypeOK ==
    /\ registry \subseteq Device /\ wanted \subseteq Device /\ named \subseteq Device
    /\ webEdit \in [op : {"none", "register", "unregister"},
                    devices : SUBSET Device, found : SUBSET Device]
    /\ push \in [at : {"idle", "sending", "prune", "write"},
                 found : SUBSET Device, drop : SUBSET Device]
    /\ push.drop \subseteq named

DeviceInit ==
    registry = {} /\ webEdit = NoEdit /\ push = NoPush /\ wanted = {} /\ named = {}

Write(devices) ==
    registry' \in {devices} \cup (IF DeviceSavesFail THEN {registry} ELSE {})

\* register or unregister, up to the read.
BeginEdit(op, d) ==
    /\ webEdit = NoEdit
    /\ ProcessesOverlap \/ push.at # "write"
    /\ webEdit' = [op |-> op, devices |-> {d}, found |-> registry]
    /\ UNCHANGED <<registry, push, wanted, named>>

\* The write, and the answer to the app.  An unregister of a device that is
\* not there writes nothing; a device the push under way has named stays named,
\* registered again or not.
EndEdit ==
    /\ \/ /\ webEdit.op = "register"
          /\ Write(webEdit.found \cup webEdit.devices)
          /\ wanted' = wanted \cup webEdit.devices
          /\ named' = named \ (webEdit.devices \ push.drop)
       \/ /\ webEdit.op = "unregister"
          /\ IF webEdit.devices \subseteq webEdit.found
             THEN Write(webEdit.found \ webEdit.devices)
             ELSE UNCHANGED registry
          /\ wanted' = wanted \ webEdit.devices
          /\ UNCHANGED named
    /\ webEdit' = NoEdit
    /\ UNCHANGED push

\* all_tokens, before the push is sent.
BeginPush ==
    /\ push = NoPush /\ registry # {}
    /\ push' = [at |-> "sending", found |-> registry, drop |-> {}]
    /\ UNCHANGED <<registry, webEdit, wanted, named>>

\* The push service answers for each device: an unknown token is dead, and so is
\* any it answers 404 or INVALID_ARGUMENT for, whatever the reason (fcm.py:31-40).
PushAnswered ==
    /\ push.at = "sending"
    /\ \E drop \in SUBSET push.found :
          /\ push' = IF drop = {} THEN NoPush
                     ELSE [at |-> "prune", found |-> push.found, drop |-> drop]
          /\ named' = named \cup drop
    /\ UNCHANGED <<registry, webEdit, wanted>>

\* A prune that edits the list the push was sent to.
PruneSentList ==
    /\ push.at = "prune"
    /\ ProcessesOverlap \/ webEdit = NoEdit
    /\ push' = [at |-> "write", found |-> push.found, drop |-> push.drop]
    /\ UNCHANGED <<registry, webEdit, wanted, named>>

\* prune, up to the read: it reads the file again.
PruneRead ==
    /\ push.at = "prune"
    /\ ProcessesOverlap \/ webEdit = NoEdit
    /\ push' = [at |-> "write", found |-> registry, drop |-> push.drop]
    /\ UNCHANGED <<registry, webEdit, wanted, named>>

\* The write of prune, if it removes anything.
PruneWrite ==
    /\ push.at = "write"
    /\ IF push.found \cap push.drop # {} THEN Write(push.found \ push.drop) ELSE UNCHANGED registry
    /\ push' = NoPush
    /\ UNCHANGED <<webEdit, wanted, named>>

\* The agent dies anywhere in a push.
AgentDies ==
    /\ push' = NoPush
    /\ UNCHANGED <<registry, webEdit, wanted, named>>

\* While nobody is editing, the file holds every device the owner registered
\* and none he unregistered, whatever pushes, prunes and crashes came between;
\* only devices a push has called dead since they were last registered may differ
\* (device_registry.py:8-13, 79-93).
RegistryIsAsAsked ==
    webEdit = NoEdit => registry \ named = wanted \ named
=============================================================================
