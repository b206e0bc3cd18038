------------------------------ MODULE OwnerGate ------------------------------
(***************************************************************************)
(* app/totp.py, TotpGate: the second factor of both owner logins.  A code   *)
(* stands for the time step it was generated for; the authenticator's clock *)
(* may be a step behind or ahead of the server's.  Two steps never share a  *)
(* code here (in the program they do once in a million).                    *)
(***************************************************************************)
EXTENDS Integers, Sequences

CONSTANTS
    Totp,     \* is OPS_TOTP_SECRET set?
    MaxTimeStep   \* bound: the last time step there is

ASSUME GateAssumption == Totp \in BOOLEAN /\ MaxTimeStep \in Nat \ {0}

VARIABLES
    step,      \* time.time() // TOTP_STEP_SEC
    lastStep,  \* _last_step_used
    accepted   \* history: the steps whose code was accepted, this process

gateVars == <<step, lastStep, accepted>>

Drift == 1

\* Codes that may be typed: one of every step the clock and the drift can reach.
TimeStep == 0..(MaxTimeStep + Drift)

GateInit == step = 1 /\ lastStep = -1 /\ accepted = <<>>

\* match_step: the step a code is of, within the drift.
MatchesStep(code) == code \in (step - Drift)..(step + Drift)

\* A check that refuses the very last code only.
VerifiesOldCodes(code) == MatchesStep(code) /\ code # lastStep

Verifies(code) == MatchesStep(code) /\ code > lastStep

\* verify: with no secret every code passes and nothing is remembered.  The step
\* is remembered even if the password typed with it turns out to be wrong.
Verify(code) ==
    IF Totp /\ Verifies(code)
    THEN lastStep' = code /\ accepted' = Append(accepted, code)
    ELSE UNCHANGED <<lastStep, accepted>>

Passes(code) == ~Totp \/ Verifies(code)

AnyCode == IF Totp THEN TimeStep ELSE {0}

GateRestart == lastStep' = -1 /\ accepted' = <<>> /\ UNCHANGED step

\* A code is accepted once, and never after a later one, whichever login it was
\* typed into and whatever the password was (totp.py:20-21).
AcceptedOnce ==
    \A i, j \in DOMAIN accepted : i < j => accepted[i] < accepted[j]
=============================================================================
