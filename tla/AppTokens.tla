------------------------------ MODULE AppTokens ------------------------------
(***************************************************************************)
(* app/app_tokens.py, AppTokenStore: the bearer tokens of the native app.   *)
(* A token lives until revoke_all; every method holds the lock throughout   *)
(* and rewrites the file, and a write that fails is only logged.            *)
(***************************************************************************)
CONSTANTS
    Token,           \* tokens that may be issued
    TokenSavesFail   \* may a write of the token file fail?

ASSUME TokenAssumption == TokenSavesFail \in BOOLEAN

VARIABLES
    tokens,      \* _tokens: the tokens known in memory
    tokenFile,   \* the token file, as the last write that landed left it
    issued,      \* history: tokens ever handed out
    revoked      \* history: tokens a revoke_all has reported revoked

tokenVars == <<tokens, tokenFile, issued, revoked>>

TokenInit == tokens = {} /\ tokenFile = {} /\ issued = {} /\ revoked = {}

SaveTokens(known) ==
    /\ tokens' = known
    /\ tokenFile' \in {known} \cup (IF TokenSavesFail THEN {tokenFile} ELSE {})

IssueToken(t) ==
    /\ t \notin issued
    /\ SaveTokens(tokens \cup {t})
    /\ issued' = issued \cup {t}
    /\ UNCHANGED revoked

\* verify on a hit, which restamps last_used and so rewrites the file.
UseToken(t) ==
    /\ t \in tokens
    /\ SaveTokens(tokens)
    /\ UNCHANGED <<issued, revoked>>

\* A revoke_all that leaves the file to the next write.
RevokeTokensUnsaved(t) ==
    /\ t \in tokens
    /\ tokens' = {}
    /\ UNCHANGED tokenFile
    /\ revoked' = revoked \cup tokens
    /\ UNCHANGED issued

\* The revoke-all request of a caller that holds t: verify, then revoke_all,
\* the second write after the first.
RevokeTokens(t) ==
    /\ t \in tokens
    /\ tokens' = {}
    /\ tokenFile' \in {{}} \cup (IF TokenSavesFail THEN {tokens, tokenFile} ELSE {})
    /\ revoked' = revoked \cup tokens
    /\ UNCHANGED issued

TokenRestart == tokens' = tokenFile /\ UNCHANGED <<tokenFile, issued, revoked>>

\* A token the lost-phone switch has revoked is never accepted again, restart or
\* not (app_tokens.py:124-131).
RevokedTokensStayDead == tokens \cap revoked = {}
=============================================================================
