----------------------------- MODULE AlertState -----------------------------
(***************************************************************************)
(* The alert store of the monitoring agent (app/agent/alert_state.py):     *)
(* one state machine per alert fingerprint, kept in Redis under a TTL, with *)
(* a per-call fallback to a dict in the agent's own memory.                *)
(*                                                                         *)
(* The only client is the agent's loop, so at most one call is in flight;   *)
(* its local variables (the dict `state` and the point it has reached) are  *)
(* the variable `call`.  One action is one awaited Redis command together   *)
(* with the straight-line code up to the next await.                       *)
(***************************************************************************)
EXTENDS Naturals

CONSTANTS
    Fingerprint,  \* alerts the store may hold
    Dedup,        \* AGENT_DEDUP_SEC, in ticks: no second page sooner
    Expiry,       \* AGENT_ALERT_EXPIRY_SEC, in ticks: TTL of a Redis entry
    CountMax,     \* bound: the cycle count saturates here
    Replies,      \* what a Redis command may do, a subset of ReplyKinds
    Forgets       \* may Redis drop a live key (allkeys-lru, restart)?

\* "ok": applied and answered; "refused": not applied, the client raises;
\* "lost": applied, but the client raises (its reply timed out).
ReplyKinds == {"ok", "refused", "lost"}
Severity == {"WARN", "HIGH"}

ASSUME FingerprintNonempty == Fingerprint # {}
ASSUME TimeAssumption == Dedup \in Nat \ {0} /\ Expiry \in Nat \ {0}
ASSUME CountAssumption == CountMax \in Nat /\ CountMax >= 2
ASSUME ReplyAssumption == Replies \subseteq ReplyKinds /\ Forgets \in BOOLEAN

VARIABLES
    redis,  \* [Fingerprint -> Entry or NoEntry]: the keys alert:state:*
    ttl,    \* [Fingerprint -> 0..Expiry]: ticks left of each Redis key
    mem,    \* [Fingerprint -> Entry or NoEntry]: AlertStateStore._mem
    call    \* the store call in flight

storeVars == <<redis, ttl, mem, call>>

\* The JSON value.  sincePaged is the age of last_paged in ticks, saturating
\* at Dedup, where _within_dedup is false; last_paged = None reads the same.
Entry == [count: 1..CountMax, severity: Severity, paged: BOOLEAN,
          sincePaged: 0..Dedup]
NoEntry == [count |-> 0, severity |-> "WARN", paged |-> FALSE, sincePaged |-> Dedup]

\* at: the await the call stands before.  "set" and "page" are the two _set
\* calls of process(), "delete" the one of resolve(); "alert" and "recover"
\* are a finished call whose result the loop is about to hand to the notifier.
\* alias: `state` is the very dict held in _mem, so mutating one mutates both.
NoCall == [at |-> "idle", fp |-> CHOOSE fp \in Fingerprint : TRUE,
           state |-> NoEntry, alias |-> FALSE]
Call == {NoCall} \cup [at: {"set", "page", "alert", "delete", "recover"},
                      fp: Fingerprint, state: Entry, alias: BOOLEAN]

StoreTypeOK ==
    /\ redis \in [Fingerprint -> Entry \cup {NoEntry}]
    /\ ttl \in [Fingerprint -> 0..Expiry]
    /\ mem \in [Fingerprint -> Entry \cup {NoEntry}]
    /\ call \in Call

Idle == call.at = "idle"
Return == call' = NoCall

StoreInit ==
    /\ redis = [fp \in Fingerprint |-> NoEntry]
    /\ ttl = [fp \in Fingerprint |-> 0]
    /\ mem = [fp \in Fingerprint |-> NoEntry]
    /\ call = NoCall

-----------------------------------------------------------------------------
(* Low-level get, set, delete and keys, for each reply Redis may give.     *)

Get(fp, reply) == IF reply = "ok" THEN redis[fp] ELSE mem[fp]

\* Mutant of Set: the TTL of an existing key is not renewed.
SetKeepingTtl(fp, e, reply) ==
    /\ IF reply = "refused" THEN UNCHANGED <<redis, ttl>>
       ELSE /\ redis' = [redis EXCEPT ![fp] = e]
            /\ ttl' = IF redis[fp] = NoEntry THEN [ttl EXCEPT ![fp] = Expiry] ELSE ttl
    /\ mem' = IF reply = "ok" /\ ~call.alias THEN mem ELSE [mem EXCEPT ![fp] = e]

\* _set: SETEX; only a raised exception also writes _mem.
Set(fp, e, reply) ==
    /\ IF reply = "refused" THEN UNCHANGED <<redis, ttl>>
       ELSE /\ redis' = [redis EXCEPT ![fp] = e]
            /\ ttl' = [ttl EXCEPT ![fp] = Expiry]
    /\ mem' = IF reply = "ok" /\ ~call.alias THEN mem ELSE [mem EXCEPT ![fp] = e]

\* _delete: DEL; only a raised exception also pops _mem.
Delete(fp, reply) ==
    /\ IF reply = "refused" THEN UNCHANGED <<redis, ttl>>
       ELSE /\ redis' = [redis EXCEPT ![fp] = NoEntry]
            /\ ttl' = [ttl EXCEPT ![fp] = 0]
    /\ mem' = IF reply = "ok" THEN mem ELSE [mem EXCEPT ![fp] = NoEntry]

\* active_fingerprints()
ActiveFingerprints(reply) == {fp \in Fingerprint : Get(fp, reply) # NoEntry}

-----------------------------------------------------------------------------
(* process(result)                                                         *)

Fresh(severity) ==
    [count |-> 1, severity |-> severity, paged |-> FALSE, sincePaged |-> Dedup]

Escalates(e, severity) == severity = "HIGH" /\ e.severity = "WARN"

\* A mutant of Retrigger: an escalation that does not reopen paging.
RetriggerQuietly(e, severity) ==
    [e EXCEPT !.count = IF @ < CountMax THEN @ + 1 ELSE @,
              !.severity = IF Escalates(e, severity) THEN "HIGH" ELSE @]
Retrigger(e, severity) ==
    [count |-> IF e.count < CountMax THEN e.count + 1 ELSE e.count,
     severity |-> IF Escalates(e, severity) THEN "HIGH" ELSE e.severity,
     paged |-> e.paged /\ ~Escalates(e, severity),
     sincePaged |-> e.sincePaged]

\* Mutants of WithinDedup: the window a tick short; the window never over.
WithinDedupShort(e) == e.sincePaged + 1 < Dedup
WithinDedupForever(e) == TRUE

WithinDedup(e) == e.sincePaged < Dedup

\* Mutants of ShouldPage: WARN pages at once; HIGH waits for a second cycle.
ShouldPageEagerly(e) == ~(e.paged /\ WithinDedup(e))
ShouldPageLate(e) == ~(e.paged /\ WithinDedup(e)) /\ e.count >= 2

ShouldPage(e) ==
    /\ ~(e.paged /\ WithinDedup(e))
    /\ e.severity = "HIGH" \/ e.count >= 2

Paged(e) ==
    [count |-> e.count, severity |-> e.severity, paged |-> TRUE, sincePaged |-> 0]

\* Read the entry and bring it up to date; the write is still to come.
ProcessGet(fp, severity, reply) ==
    LET found == Get(fp, reply)
        isNew == found = NoEntry
    IN  /\ Idle
        /\ call' = [at |-> "set", fp |-> fp,
                    state |-> IF isNew THEN Fresh(severity) ELSE Retrigger(found, severity),
                    alias |-> ~isNew /\ reply # "ok"]
        /\ UNCHANGED <<redis, ttl, mem>>

\* The first _set, then the decision whether to page.  A page is written into
\* `state` before the second _set, hence into _mem too when _mem holds it.
ProcessSet(reply) ==
    LET e == call.state
        inMem == call.alias \/ reply # "ok"
    IN  /\ call.at = "set"
        /\ Set(call.fp, e, reply)
        /\ IF ShouldPage(e)
           THEN call' = [at |-> "page", fp |-> call.fp, state |-> Paged(e), alias |-> inMem]
           ELSE Return

\* The second _set.  It happens before the notifier is called.
PageSet(reply) ==
    /\ call.at = "page"
    /\ Set(call.fp, call.state, reply)
    /\ call' = [call EXCEPT !.at = "alert"]

-----------------------------------------------------------------------------
(* resolve(fingerprint)                                                    *)

ResolveGet(fp, reply) ==
    /\ Idle
    /\ IF Get(fp, reply) = NoEntry THEN UNCHANGED call
       ELSE call' = [at |-> "delete", fp |-> fp, state |-> Get(fp, reply), alias |-> FALSE]
    /\ UNCHANGED <<redis, ttl, mem>>

\* Mutant of ResolveDelete: the recovery action is never returned.
ResolveDeleteSilently(reply) ==
    /\ call.at = "delete"
    /\ Delete(call.fp, reply)
    /\ Return

ResolveDelete(reply) ==
    /\ call.at = "delete"
    /\ Delete(call.fp, reply)
    /\ IF call.state.paged THEN call' = [call EXCEPT !.at = "recover"] ELSE Return

-----------------------------------------------------------------------------
(* Time and the ways an entry leaves Redis without the agent asking.        *)

Aged(e) ==
    IF e = NoEntry \/ e.sincePaged = Dedup THEN e
    ELSE [e EXCEPT !.sincePaged = @ + 1]

\* One tick of the clock.  A key whose TTL had already run out is gone.
Age ==
    /\ redis' = [fp \in Fingerprint |-> IF ttl[fp] = 0 THEN NoEntry ELSE Aged(redis[fp])]
    /\ ttl' = [fp \in Fingerprint |-> IF ttl[fp] = 0 THEN 0 ELSE ttl[fp] - 1]
    /\ mem' = [fp \in Fingerprint |-> Aged(mem[fp])]

Lose(fp) ==
    /\ redis[fp] # NoEntry
    /\ redis' = [redis EXCEPT ![fp] = NoEntry]
    /\ ttl' = [ttl EXCEPT ![fp] = 0]
    /\ UNCHANGED <<mem, call>>

\* The TTL runs out at some moment of the tick in which it reaches zero, also
\* between two commands of one call.
Expire(fp) == ttl[fp] = 0 /\ Lose(fp)

Evict(fp) == Forgets /\ Lose(fp)

-----------------------------------------------------------------------------
(* Properties of the store by itself.                                      *)

\* Every copy of a paged alert is one the alerts panel renders: HIGH, or seen
\* at least twice (data_sources/agent_alerts.py drops WARN below count 2), so
\* nobody is paged about an alert the panel hides.  It holds of the Redis key,
\* of _mem and of the dict in flight, whichever of them survives a fault.
Shown(e) == e.paged => e.severity = "HIGH" \/ e.count >= 2

PagedIsShown ==
    /\ \A fp \in Fingerprint : Shown(redis[fp]) /\ Shown(mem[fp])
    /\ Shown(call.state)

\* With Redis answering, no HIGH entry rests in the store unpaged: whichever
\* way it became HIGH (first sight or escalation from a paged WARN inside its
\* dedup window), the call that made it so also paged it (process()).
HighIsPaged ==
    Idle => \A fp \in Fingerprint : redis[fp].severity = "HIGH" => redis[fp].paged

\* An entry that escalates loses its paged mark in the same write, so that the
\* dedup window of the WARN page cannot swallow the HIGH page (process()).
EscalationReopens ==
    [][\A fp \in Fingerprint :
         /\ redis[fp] # NoEntry /\ redis[fp].severity = "WARN"
         /\ redis'[fp].severity = "HIGH"
         => ~redis'[fp].paged]_storeVars
=============================================================================
