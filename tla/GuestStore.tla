----------------------------- MODULE GuestStore -----------------------------
(***************************************************************************)
(* app/guest_access.py, GuestAccessStore: the temporary read-only grants.   *)
(* The dict in memory decides every request; the file is what a restart     *)
(* finds.  Each method holds the store's lock throughout, so each is one    *)
(* action.  A grant stands for its id and for its code, both drawn at       *)
(* random when it is issued; a code that is no grant's is just "wrong".     *)
(*                                                                         *)
(* Time is a count of ticks from 1, shared by deadlines, the failure window *)
(* and the lockout; 0 is Python's None.                                     *)
(***************************************************************************)
EXTENDS Integers, FiniteSets

CONSTANTS
    Grant,          \* the grants that may be minted
    Ttl,            \* lifetimes the owner can pick, in ticks
    MaxFailures,    \* max_failures
    FailureWindow,  \* failure_window_sec, in ticks
    Lockout,        \* lockout_sec, in ticks
    PurgeAfter,     \* older_than_sec of purge, in ticks
    MaxTime,        \* bound: the clock stops here
    CountMax,       \* bound: a grant's uses and denials stop here
    SavesFail,      \* may a write of the store file fail?
    Restarts        \* may the web process restart?

ASSUME TtlAssumption == Ttl \subseteq Nat \ {0}
ASSUME TimesAssumption ==
    /\ MaxFailures \in Nat \ {0}
    /\ FailureWindow \in Nat \ {0}
    /\ Lockout \in Nat
    /\ PurgeAfter \in Nat
    /\ MaxTime \in Nat \ {0}
    /\ CountMax \in Nat \ {0}
ASSUME FaultsAssumption == SavesFail \in BOOLEAN /\ Restarts \in BOOLEAN

VARIABLES
    now,          \* time.time()
    grants,       \* _grants, [Grant -> Record]: what is in memory
    disk,         \* the store file, as the last write that landed left it
    failures,     \* _failures: the recent wrong codes, each by the time it came in
    lockedUntil,  \* _locked_until
    deadline,     \* history: the expiry each grant was minted with, 0 if never
    toldDead,     \* history: grants the owner was told are revoked
    wrong         \* history: the codes checked and refused, this process

grantVars == <<grants, disk>>
doorVars == <<failures, lockedUntil, wrong>>
guestVars == <<now, grants, disk, failures, lockedUntil, deadline, toldDead, wrong>>

Never == 0

Record == [expires : Nat, revoked : Nat, uses : 0..CountMax, denials : 0..CountMax]

\* No key in the dict.  A minted record expires after 0, so it differs.
NoRecord == [expires |-> 0, revoked |-> Never, uses |-> 0, denials |-> 0]

\* One entry of _failures, which is in time order.  The program keeps only the
\* time; nth tells apart the entries of one tick, so that a set can hold them.
Failure == [at : 1..MaxTime, nth : Nat \ {0}]

GuestTypeOK ==
    /\ now \in 1..MaxTime
    /\ grants \in [Grant -> Record]
    /\ disk \in [Grant -> Record]
    /\ failures \in SUBSET Failure /\ Cardinality(failures) < MaxFailures
    /\ lockedUntil \in Nat
    /\ deadline \in [Grant -> Nat]
    /\ toldDead \subseteq Grant
    /\ wrong \in SUBSET Failure

GuestInit ==
    /\ now = 1
    /\ grants = [g \in Grant |-> NoRecord]
    /\ disk = [g \in Grant |-> NoRecord]
    /\ failures = {}
    /\ lockedUntil = 0
    /\ deadline = [g \in Grant |-> 0]
    /\ toldDead = {}
    /\ wrong = {}

-----------------------------------------------------------------------------
(* What a record says.                                                     *)

\* A check that leaves expiry to a sweeper.
LiveForever(rec) == rec.revoked = Never

\* _live.
Live(rec) == rec.revoked = Never /\ rec.expires > now

\* The records lookup, redeem and purge look at: those in the dict.
Known(g) == grants[g] # NoRecord

\* The test of purge, on a record.
Dead(rec) ==
    /\ rec # NoRecord
    /\ rec.expires < now - PurgeAfter
    /\ rec.revoked = Never \/ rec.revoked < now - PurgeAfter

Used(rec) ==
    [expires |-> rec.expires, revoked |-> rec.revoked, uses |-> rec.uses + 1, denials |-> rec.denials]

UsedAndDenied(rec) ==
    [expires |-> rec.expires, revoked |-> rec.revoked, uses |-> rec.uses + 1, denials |-> rec.denials + 1]

RevokedNow(rec) ==
    [expires |-> rec.expires, revoked |-> now, uses |-> rec.uses, denials |-> rec.denials]

\* _save_quietly: the whole dict replaces the file, or the file stays as it was.
Save(dict) ==
    /\ grants' = dict
    /\ disk' \in {dict} \cup (IF SavesFail THEN {disk} ELSE {})

InMemory(dict) == grants' = dict /\ UNCHANGED disk

-----------------------------------------------------------------------------
(* The owner's side.                                                       *)

Issue(g) ==
    /\ deadline[g] = 0
    /\ \E ttl \in Ttl :
          /\ Save([grants EXCEPT ![g] =
                [expires |-> now + ttl, revoked |-> Never, uses |-> 0, denials |-> 0]])
          /\ deadline' = [deadline EXCEPT ![g] = now + ttl]
    /\ UNCHANGED <<now, toldDead, doorVars>>

\* A revoke that forgets to save.
RevokeUnsaved(g) ==
    /\ Known(g) /\ grants[g].revoked = Never
    /\ InMemory([grants EXCEPT ![g] = RevokedNow(@)])
    /\ toldDead' = toldDead \cup {g}
    /\ UNCHANGED <<now, deadline, doorVars>>

\* revoke: the first record with the id that is not revoked yet, expired or not.
\* The answer is True, and the page says so, whether or not the write landed.
Revoke(g) ==
    /\ Known(g) /\ grants[g].revoked = Never
    /\ Save([grants EXCEPT ![g] = RevokedNow(@)])
    /\ toldDead' = toldDead \cup {g}
    /\ UNCHANGED <<now, deadline, doorVars>>

\* revoke_all, when it finds a live grant.
RevokeAll ==
    LET live == {g \in Grant : Known(g) /\ Live(grants[g])} IN
    /\ live # {}
    /\ Save([g \in Grant |-> IF g \in live THEN RevokedNow(grants[g]) ELSE grants[g]])
    /\ toldDead' = toldDead \cup live
    /\ UNCHANGED <<now, deadline, doorVars>>

-----------------------------------------------------------------------------
(* The guest's side.                                                       *)

LockedOut == lockedUntil > now

Recent(past) == {f \in past : now - f.at < FailureWindow}

\* The failures that still count and one more, of this moment.
Noted(past) ==
    Recent(past) \cup {[at |-> now, nth |-> 1 + Cardinality({f \in past : f.at = now})]}

\* Mistakes redeem could make: one failure too many, counting while the door
\* is shut, not emptying the list.
RefuseLeniently ==
    /\ ~LockedOut
    /\ LET recent == Noted(failures) IN
       /\ failures' = IF Cardinality(recent) > MaxFailures THEN {} ELSE recent
       /\ lockedUntil' = IF Cardinality(recent) > MaxFailures THEN now + Lockout ELSE lockedUntil
    /\ wrong' = Noted(wrong)
    /\ UNCHANGED <<now, grantVars, deadline, toldDead>>

RefuseWhileLocked ==
    /\ LET recent == Noted(failures) IN
       /\ failures' = IF Cardinality(recent) >= MaxFailures THEN {} ELSE recent
       /\ lockedUntil' = IF Cardinality(recent) >= MaxFailures THEN now + Lockout ELSE lockedUntil
    /\ wrong' = IF LockedOut THEN wrong ELSE Noted(wrong)
    /\ UNCHANGED <<now, grantVars, deadline, toldDead>>

\* A wrong code, as redeem counts it: old failures are dropped, this one is
\* added, and the last one allowed shuts the door and empties the list.
Refuse ==
    /\ ~LockedOut
    /\ LET recent == Noted(failures) IN
       /\ failures' = IF Cardinality(recent) >= MaxFailures THEN {} ELSE recent
       /\ lockedUntil' = IF Cardinality(recent) >= MaxFailures THEN now + Lockout ELSE lockedUntil
    /\ wrong' = Noted(wrong)
    /\ UNCHANGED <<now, grantVars, deadline, toldDead>>

\* redeem of a live code.
Redeem(g) ==
    /\ ~LockedOut
    /\ Live(grants[g])
    /\ grants[g].uses < CountMax
    /\ Save([grants EXCEPT ![g] = Used(@)])
    /\ UNCHANGED <<now, deadline, toldDead, doorVars>>

\* lookup with touch, for a request that is then served.
Touch(g) ==
    /\ Live(grants[g])
    /\ grants[g].uses < CountMax
    /\ InMemory([grants EXCEPT ![g] = Used(@)])
    /\ UNCHANGED <<now, deadline, toldDead, doorVars>>

\* lookup with touch, then record_denial, for a request that is refused.
TouchAndDeny(g) ==
    /\ Live(grants[g])
    /\ grants[g].uses < CountMax /\ grants[g].denials < CountMax
    /\ InMemory([grants EXCEPT ![g] = UsedAndDenied(@)])
    /\ UNCHANGED <<now, deadline, toldDead, doorVars>>

Flush ==
    /\ Save(grants)
    /\ UNCHANGED <<now, deadline, toldDead, doorVars>>

-----------------------------------------------------------------------------
(* The process and the clock.                                              *)

\* lifespan: the store is built from the file, then purge drops the records
\* that have been dead for a while and saves if it dropped any.
Reload ==
    LET left == [g \in Grant |-> IF Dead(disk[g]) THEN NoRecord ELSE disk[g]] IN
    /\ grants' = left
    /\ disk' \in {left} \cup (IF SavesFail THEN {disk} ELSE {})
    /\ failures' = {}
    /\ lockedUntil' = 0
    /\ wrong' = {}
    /\ UNCHANGED <<now, deadline, toldDead>>

Tick ==
    /\ now < MaxTime
    /\ now' = now + 1
    /\ UNCHANGED <<grantVars, deadline, toldDead, doorVars>>

-----------------------------------------------------------------------------
(* Properties.                                                             *)

Honoured(g) == Live(grants[g])

\* A grant that has been minted and is no longer honoured is never honoured
\* again: not by a restart that reloads the file, nor by the purge at boot, nor
\* by another guest's flush (guest_access.py:26, 241-257: "there is no state
\* where an expired grant is still honoured").
DeadStaysDead ==
    [][\A g \in Grant : deadline[g] # 0 /\ ~Honoured(g) => ~Honoured(g)']_guestVars

\* Within one process no failure window holds more than MaxFailures checked and
\* refused codes, across any number of lockouts (guest_access.py:29-31).
GuessesAreThrottled == Cardinality(Recent(wrong)) =< MaxFailures

\* While the guest door is shut nothing a caller does keeps it shut for longer
\* (redeem returns before counting, guest_access.py:291).
LockoutIsNotExtended == [][LockedOut => lockedUntil' =< lockedUntil]_guestVars
=============================================================================
