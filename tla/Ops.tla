--------------------------------- MODULE Ops ---------------------------------
(***************************************************************************)
(* The web process of ops: the measuring side, the sign-ins and the guests,  *)
(* the app's API, the routing and promotion pages, the audited writes, and   *)
(* what one page hands to the next.  What they share in the code, the audit  *)
(* file and the session, is modelled where it matters, in ControlWrites,     *)
(* OneShot and Access; beyond it no part reads what another wrote.  So a     *)
(* behaviour here is one of the parts at work and the others at rest, and    *)
(* the states of this module are the sum of theirs.  (Jobs has the parts     *)
(* whose properties need fairness.)                                          *)
(***************************************************************************)
EXTENDS MCMeasures, MCRouting, ControlWrites, OneShot, Access, NativeApp

CONSTANTS c1, c2, t1, t2, b1, b2, g1, d1, d2

VARIABLE page    \* the part at work when the measuring side is not

pagesVars == <<routingVars, writesVars, oneShotVars>>
doorsVars == <<accessVars, nativeVars>>
opsVars == <<page, measuresVars, pagesVars, doorsVars>>

OpsInit ==
    /\ Init
    /\ page \in IF part = "none" THEN {"routing", "writes", "one_shot", "access", "native"}
                ELSE {"none"}
    /\ RoutingInit /\ WritesInit /\ OneShotInit /\ AccessInit /\ NativeInit

PageStep ==
    /\ \/ page = "routing" /\ RoutingNext /\ UNCHANGED <<writesVars, oneShotVars>>
       \/ page = "writes" /\ WritesNext /\ UNCHANGED <<routingVars, oneShotVars>>
       \/ page = "one_shot" /\ OneShotNext /\ UNCHANGED <<routingVars, writesVars>>
    /\ UNCHANGED doorsVars

DoorStep ==
    /\ \/ page = "access" /\ AccessNext /\ UNCHANGED nativeVars
       \/ page = "native" /\ NativeNext /\ UNCHANGED accessVars
    /\ UNCHANGED pagesVars

OpsNext ==
    \/ (PageStep \/ DoorStep) /\ UNCHANGED <<page, measuresVars>>
    \/ page = "none" /\ Next /\ UNCHANGED <<page, pagesVars, doorsVars>>

OpsSpec == OpsInit /\ [][OpsNext]_opsVars
=============================================================================
