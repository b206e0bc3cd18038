-------------------------- MODULE NativeAppProofs --------------------------
(***************************************************************************)
(* For any clock, any tokens and any devices: a TOTP code is accepted once; *)
(* a revoked token stays dead when the token file's writes land; the device *)
(* registry is as the owner asked when the two processes' edits are kept    *)
(* apart and their writes land.                                            *)
(***************************************************************************)
EXTENDS NativeApp, TLAPS

-----------------------------------------------------------------------------
(* The second factor.                                                      *)

\* Every accepted code is at most the last step used, and they increase.
GateOK ==
    /\ step \in Int /\ lastStep \in Int /\ accepted \in Seq(Int)
    /\ \A i \in DOMAIN accepted : accepted[i] <= lastStep
    /\ AcceptedOnce

LEMMA InitGate == NativeInit => GateOK
BY DEF NativeInit, GateInit, GateOK, AcceptedOnce

LEMMA VerifyKeeps ==
    ASSUME GateOK, NEW code \in AnyCode, Verify(code), UNCHANGED step PROVE GateOK'
<1>1. code \in Int BY GateAssumption DEF AnyCode, TimeStep, Drift
<1>2. CASE Totp /\ Verifies(code)
  <2>1. lastStep' = code /\ accepted' = Append(accepted, code) /\ code > lastStep
    BY <1>2 DEF Verify, Verifies
  <2>2. /\ accepted' \in Seq(Int) /\ Len(accepted') = Len(accepted) + 1
        /\ \A i \in 1..Len(accepted) : accepted'[i] = accepted[i]
        /\ accepted'[Len(accepted) + 1] = code
    BY <1>1, <2>1 DEF GateOK
  <2>3. /\ DOMAIN accepted = 1..Len(accepted) /\ Len(accepted) \in Nat
        /\ DOMAIN accepted' = 1..(Len(accepted) + 1)
    BY <2>2 DEF GateOK
  <2>4. \A i \in 1..Len(accepted) : accepted[i] \in Int BY <2>3 DEF GateOK
  <2>5. \A i \in DOMAIN accepted' : accepted'[i] <= lastStep'
    BY <1>1, <2>1, <2>2, <2>3, <2>4 DEF GateOK
  <2>6. AcceptedOnce'
    BY <1>1, <2>1, <2>2, <2>3, <2>4 DEF GateOK, AcceptedOnce
  <2> QED BY <1>1, <2>1, <2>2, <2>5, <2>6 DEF GateOK
<1>3. CASE ~(Totp /\ Verifies(code))
  BY <1>3 DEF Verify, GateOK, AcceptedOnce
<1> QED BY <1>2, <1>3

LEMMA StepKeepsGate == GateOK /\ [NativeNext]_nativeVars => GateOK'
<1> SUFFICES ASSUME GateOK, [NativeNext]_nativeVars PROVE GateOK' OBVIOUS
<1>1. ASSUME NEW code \in AnyCode, Verify(code), UNCHANGED step PROVE GateOK'
  BY <1>1, VerifyKeeps
<1>2. CASE WebRestart BY <1>2 DEF WebRestart, GateRestart, GateOK, AcceptedOnce
<1>3. CASE StepTick BY <1>3 DEF StepTick, GateOK, AcceptedOnce
<1>4. CASE UNCHANGED gateVars BY <1>4 DEF gateVars, GateOK, AcceptedOnce
<1> QED
  BY <1>1, <1>2, <1>3, <1>4
     DEF NativeNext, SignInElsewhere, AppSignIn, EditDevice, RevokeAllTokens, RegistryStep,
         nativeVars

\* A code is accepted once and never after a later one, by either login
\* (totp.py:20-21).
THEOREM CodesAreUsedOnce == NativeSpec => []AcceptedOnce
<1>1. GateOK => AcceptedOnce BY DEF GateOK
<1> QED BY <1>1, InitGate, StepKeepsGate, PTL DEF NativeSpec

-----------------------------------------------------------------------------
(* The tokens.                                                             *)

TokensOK ==
    /\ tokenFile = tokens
    /\ tokens \subseteq issued /\ revoked \subseteq issued
    /\ RevokedTokensStayDead

LEMMA StepKeepsTokens ==
    ASSUME TokenSavesFail = FALSE PROVE TokensOK /\ [NativeNext]_nativeVars => TokensOK'
<1> SUFFICES ASSUME TokensOK, [NativeNext]_nativeVars PROVE TokensOK' OBVIOUS
<1> USE DEF TokensOK, RevokedTokensStayDead
<1>1. ASSUME NEW t \in Token, IssueToken(t) PROVE TokensOK'
  BY <1>1 DEF IssueToken, SaveTokens
<1>2. ASSUME NEW t \in Token, UseToken(t) PROVE TokensOK'
  BY <1>2 DEF UseToken, SaveTokens
<1>3. ASSUME NEW t \in Token, RevokeTokens(t) PROVE TokensOK'
  BY <1>3 DEF RevokeTokens
<1>4. CASE TokenRestart BY <1>4 DEF TokenRestart
<1>5. CASE UNCHANGED tokenVars BY <1>5 DEF tokenVars
<1> QED
  BY <1>1, <1>2, <1>3, <1>4, <1>5
     DEF NativeNext, SignInElsewhere, AppSignIn, EditDevice, RevokeAllTokens, RegistryStep,
         WebRestart, StepTick, nativeVars

\* After a revoke-all no revoked token is accepted again, restart or not, as long
\* as the token file's writes land (app_tokens.py:124-131).
THEOREM RevokedTokensAreDead ==
    ASSUME TokenSavesFail = FALSE PROVE NativeSpec => []RevokedTokensStayDead
<1>1. NativeInit => TokensOK BY DEF NativeInit, TokenInit, TokensOK, RevokedTokensStayDead
<1>2. TokensOK /\ [NativeNext]_nativeVars => TokensOK' BY StepKeepsTokens
<1>3. TokensOK => RevokedTokensStayDead BY DEF TokensOK
<1> QED BY <1>1, <1>2, <1>3, PTL DEF NativeSpec

-----------------------------------------------------------------------------
(* The registry.                                                           *)

Apart == ProcessesOverlap = FALSE /\ DeviceSavesFail = FALSE

\* A list read for an edit is the file until the edit writes; what a push prunes
\* it has named; the file is as asked even while an edit is under way.
RegistryOK ==
    /\ push.drop \subseteq named
    /\ push.at = "write" => webEdit = NoEdit /\ push.found = registry
    /\ webEdit # NoEdit => /\ webEdit.found = registry
                           /\ \E d \in Device : webEdit.devices = {d}
    /\ registry \ named = wanted \ named

LEMMA StepKeepsRegistry == ASSUME Apart PROVE RegistryOK /\ [NativeNext]_nativeVars => RegistryOK'
<1> SUFFICES ASSUME RegistryOK, [NativeNext]_nativeVars PROVE RegistryOK' OBVIOUS
<1> USE DEF RegistryOK, Apart
<1>1. ASSUME NEW op, NEW d \in Device, BeginEdit(op, d) PROVE RegistryOK'
  BY <1>1 DEF BeginEdit
<1>2. CASE EndEdit
  <2>1. webEdit # NoEdit BY <1>2 DEF EndEdit, NoEdit
  <2>2. push.at # "write" BY <2>1
  <2>3. PICK d \in Device : webEdit.devices = {d} BY <2>1
  <2>4. registry' \ named' = wanted' \ named'
    <3>1. CASE webEdit.op = "register"
      BY <1>2, <2>1, <2>3, <3>1 DEF EndEdit, Write
    <3>2. CASE webEdit.op = "unregister" /\ d \in registry
      BY <1>2, <2>1, <2>3, <3>2 DEF EndEdit, Write
    <3>3. CASE webEdit.op = "unregister" /\ d \notin registry
      BY <1>2, <2>1, <2>3, <3>3 DEF EndEdit, Write
    <3> QED BY <1>2, <3>1, <3>2, <3>3 DEF EndEdit
  <2>5. UNCHANGED push /\ push.drop \subseteq named' /\ webEdit' = NoEdit BY <1>2 DEF EndEdit
  <2> QED BY <2>2, <2>4, <2>5
<1>3. CASE BeginPush BY <1>3 DEF BeginPush
<1>4. CASE PushAnswered BY <1>4 DEF PushAnswered, NoPush
<1>5. CASE PruneRead BY <1>5 DEF PruneRead
<1>6. CASE PruneWrite BY <1>6 DEF PruneWrite, Write, NoPush
<1>7. CASE AgentDies BY <1>7 DEF AgentDies, NoPush
<1>9. CASE WebRestart BY <1>9 DEF WebRestart
<1>10. CASE UNCHANGED deviceVars BY <1>10 DEF deviceVars
<1> QED
  BY <1>1, <1>2, <1>3, <1>4, <1>5, <1>6, <1>7, <1>9, <1>10
     DEF NativeNext, SignInElsewhere, AppSignIn, EditDevice, RevokeAllTokens, RegistryStep,
         StepTick, nativeVars

\* The registry holds the devices the owner registered and did not unregister, up
\* to those a push has called dead since, whatever is pushed, pruned or cut short,
\* when the edits of the two processes are kept apart (device_registry.py:8-13).
THEOREM RegistryStaysAsAsked == ASSUME Apart PROVE NativeSpec => []RegistryIsAsAsked
<1>1. NativeInit => RegistryOK BY DEF NativeInit, DeviceInit, RegistryOK, NoPush
<1>2. RegistryOK /\ [NativeNext]_nativeVars => RegistryOK' BY StepKeepsRegistry
<1>3. RegistryOK => RegistryIsAsAsked BY DEF RegistryOK, RegistryIsAsAsked
<1> QED BY <1>1, <1>2, <1>3, PTL DEF NativeSpec

-----------------------------------------------------------------------------
(* Types.                                                                  *)

LEMMA GateTypes ==
    ASSUME NativeTypeOK, [NativeNext]_nativeVars
    PROVE  step' \in 1..MaxTimeStep /\ lastStep' \in TimeStep \cup {-1} /\ accepted' \in Seq(TimeStep)
<1> USE DEF NativeTypeOK
<1>1. ASSUME NEW code \in AnyCode, Verify(code)
      PROVE  lastStep' \in TimeStep \cup {-1} /\ accepted' \in Seq(TimeStep)
  BY <1>1 DEF Verify, AnyCode
<1>2. CASE \E code \in AnyCode : Verify(code) /\ UNCHANGED step BY <1>1, <1>2
<1>3. CASE WebRestart BY <1>3 DEF WebRestart, GateRestart
<1>4. CASE StepTick BY <1>4, GateAssumption DEF StepTick
<1>5. CASE UNCHANGED gateVars BY <1>5 DEF gateVars
<1> QED
  BY <1>2, <1>3, <1>4, <1>5
     DEF NativeNext, SignInElsewhere, AppSignIn, EditDevice, RevokeAllTokens, RegistryStep,
         nativeVars

LEMMA TokenTypes ==
    ASSUME NativeTypeOK, [NativeNext]_nativeVars
    PROVE  /\ tokens' \subseteq issued' /\ revoked' \subseteq issued' /\ issued' \subseteq Token
           /\ tokenFile' \subseteq issued'
<1> USE DEF NativeTypeOK
<1>1. ASSUME NEW t \in Token, IssueToken(t) \/ UseToken(t) \/ RevokeTokens(t)
      PROVE  /\ tokens' \subseteq issued' /\ revoked' \subseteq issued' /\ issued' \subseteq Token
             /\ tokenFile' \subseteq issued'
  <2>1. CASE IssueToken(t) BY <2>1 DEF IssueToken, SaveTokens
  <2>2. CASE UseToken(t) BY <2>2 DEF UseToken, SaveTokens
  <2>3. CASE RevokeTokens(t) BY <2>3 DEF RevokeTokens
  <2> QED BY <1>1, <2>1, <2>2, <2>3
<1>2. CASE WebRestart BY <1>2 DEF WebRestart, TokenRestart
<1>3. CASE UNCHANGED tokenVars BY <1>3 DEF tokenVars
<1> QED
  BY <1>1, <1>2, <1>3
     DEF NativeNext, SignInElsewhere, AppSignIn, EditDevice, RevokeAllTokens, RegistryStep,
         StepTick, nativeVars

LEMMA DeviceTypes == ASSUME NativeTypeOK, [NativeNext]_nativeVars PROVE DeviceTypeOK'
<1> USE DEF DeviceTypeOK
<1>0. DeviceTypeOK BY DEF NativeTypeOK
<1>1. ASSUME NEW op \in {"register", "unregister"}, NEW d \in Device, BeginEdit(op, d)
      PROVE  DeviceTypeOK'
  BY <1>0, <1>1 DEF BeginEdit
<1>2. CASE EndEdit BY <1>0, <1>2 DEF EndEdit, Write, NoEdit
<1>3. CASE BeginPush BY <1>0, <1>3 DEF BeginPush
<1>4. CASE PushAnswered BY <1>0, <1>4 DEF PushAnswered, NoPush
<1>5. CASE PruneRead BY <1>0, <1>5 DEF PruneRead
<1>6. CASE PruneWrite BY <1>0, <1>6 DEF PruneWrite, Write, NoPush
<1>7. CASE AgentDies BY <1>0, <1>7 DEF AgentDies, NoPush
<1>9. CASE WebRestart BY <1>0, <1>9 DEF WebRestart, NoEdit
<1>10. CASE UNCHANGED deviceVars BY <1>0, <1>10 DEF deviceVars
<1> QED
  BY <1>1, <1>2, <1>3, <1>4, <1>5, <1>6, <1>7, <1>9, <1>10
     DEF NativeNext, SignInElsewhere, AppSignIn, EditDevice, RevokeAllTokens, RegistryStep,
         StepTick, nativeVars

\* The gate, the tokens and the registry keep their types, whatever fails or
\* overlaps: every token in memory or on disk is one that was issued, every accepted
\* code a step of the clock.
THEOREM TypesKept == NativeSpec => []NativeTypeOK
<1>1. NativeInit => NativeTypeOK
  BY GateAssumption
     DEF NativeInit, GateInit, TokenInit, DeviceInit, NativeTypeOK, DeviceTypeOK, NoEdit, NoPush
<1>2. NativeTypeOK /\ [NativeNext]_nativeVars => NativeTypeOK'
  BY GateTypes, TokenTypes, DeviceTypes DEF NativeTypeOK
<1> QED BY <1>1, <1>2, PTL DEF NativeSpec
=============================================================================
