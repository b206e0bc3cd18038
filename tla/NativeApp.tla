------------------------------ MODULE NativeApp ------------------------------
(***************************************************************************)
(* The doors that take the owner's two factors, and what the native app     *)
(* does behind its own: POST /login and POST /api/v1/auth/login share one   *)
(* TOTP gate; the app's bearer token then lets it register devices for the  *)
(* agent's pages and revoke every token (app/routes/api_v1.py).             *)
(***************************************************************************)
EXTENDS OwnerGate, AppTokens, DeviceRegistry

CONSTANT WebRestarts  \* may the web process restart?

ASSUME WebAssumption == WebRestarts \in BOOLEAN

nativeVars == <<gateVars, tokenVars, deviceVars>>

NativeTypeOK ==
    /\ step \in 1..MaxTimeStep /\ lastStep \in TimeStep \cup {-1} /\ accepted \in Seq(TimeStep)
    /\ tokens \subseteq issued /\ revoked \subseteq issued /\ issued \subseteq Token
    /\ tokenFile \subseteq issued
    /\ DeviceTypeOK

NativeInit == GateInit /\ TokenInit /\ DeviceInit

\* POST /login, or the app's login with a wrong password: the code is judged,
\* and remembered, all the same.
SignInElsewhere(code) ==
    /\ Verify(code)
    /\ UNCHANGED <<step, tokenVars, deviceVars>>

\* POST /api/v1/auth/login with the right password and code.
AppSignIn(t, code) ==
    /\ Passes(code)
    /\ Verify(code)
    /\ IssueToken(t)
    /\ UNCHANGED <<step, deviceVars>>

\* POST and DELETE /api/v1/devices, up to the registry's read.
EditDevice(t, op, d) ==
    /\ UseToken(t)
    /\ BeginEdit(op, d)
    /\ UNCHANGED gateVars

\* POST /api/v1/auth/revoke-all.
RevokeAllTokens(t) ==
    /\ webEdit = NoEdit
    /\ RevokeTokens(t)
    /\ UNCHANGED <<gateVars, deviceVars>>

\* The rest of the registry's steps, the web process's and the agent's.
RegistryStep ==
    /\ EndEdit \/ BeginPush \/ PushAnswered \/ PruneRead \/ PruneWrite \/ AgentDies
    /\ UNCHANGED <<gateVars, tokenVars>>

\* The web process restarts: tokens come from the file, the gate has forgotten,
\* an edit before its write never happened.
WebRestart ==
    /\ WebRestarts
    /\ GateRestart /\ TokenRestart
    /\ webEdit' = NoEdit
    /\ UNCHANGED <<registry, push, wanted, named>>

StepTick ==
    /\ step < MaxTimeStep
    /\ step' = step + 1
    /\ UNCHANGED <<lastStep, accepted, tokenVars, deviceVars>>

NativeNext ==
    \/ \E code \in AnyCode : SignInElsewhere(code) \/ \E t \in Token : AppSignIn(t, code)
    \/ \E t \in Token :
          \/ RevokeAllTokens(t)
          \/ \E d \in Device, op \in {"register", "unregister"} : EditDevice(t, op, d)
    \/ RegistryStep
    \/ WebRestart
    \/ StepTick

NativeSpec == NativeInit /\ [][NativeNext]_nativeVars
=============================================================================
