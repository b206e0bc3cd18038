---------------------------- MODULE AccessProofs ----------------------------
(***************************************************************************)
(* For any number of grants, browsers, lifetimes and lockouts: nobody gets  *)
(* the owner's session but the owner, and, when the store's writes land, a  *)
(* grant that has ended is never answered or honoured again; every variable *)
(* keeps its type, and the guest door's throttle and lockout hold.          *)
(***************************************************************************)
EXTENDS Access, FiniteSetTheorems, TLAPS

\* A session that names a grant if it has the guest's role.
Sound(s) == s \in Session /\ (s.role = "guest" => s.guest \in Grant)

SessionOK ==
    /\ cookie \in [Browser -> Session] /\ open \in [Browser -> Session]
    /\ \A b \in Browser : Sound(cookie[b]) /\ Sound(open[b])
    /\ OwnerPowersMeanOwnerSignIn

LEMMA NobodyIsOwner ==
    /\ Sound(Empty) /\ Empty \in Session /\ ~IsOwner(Empty) /\ ~IsGuest(Empty)
    /\ \A g \in Grant : Sound(GuestOf(g)) /\ ~IsOwner(GuestOf(g))
BY DEF Empty, GuestOf, Session, Sound, IsOwner, IsGuest

LEMMA InitSession == AccessInit => SessionOK
BY NobodyIsOwner DEF AccessInit, SessionOK, OwnerPowersMeanOwnerSignIn

\* A step that sets one browser's cookie to a session without the owner's powers.
LEMMA CookieKeeps ==
    ASSUME SessionOK, NEW b \in Browser, NEW s, Sound(s), ~IsOwner(s),
           cookie' = [cookie EXCEPT ![b] = s], UNCHANGED <<open, owners>>
    PROVE  SessionOK'
BY DEF SessionOK, Sound, OwnerPowersMeanOwnerSignIn, IsOwner

\* A step that opens a request with the cookie it was sent with.
LEMMA RequestKeeps ==
    ASSUME SessionOK, NEW b \in Browser,
           open' = [open EXCEPT ![b] = cookie[b]], UNCHANGED <<cookie, owners>>
    PROVE  SessionOK'
BY DEF SessionOK, OwnerPowersMeanOwnerSignIn, IsOwner

LEMMA StepKeepsSession == SessionOK /\ [AccessNext]_accessVars => SessionOK'
<1> SUFFICES ASSUME SessionOK, [AccessNext]_accessVars PROVE SessionOK' OBVIOUS
<1>1. ASSUME NEW b \in Browser, OwnerSignIn(b) PROVE SessionOK'
  <2> DEFINE s == [authenticated |-> TRUE, role |-> cookie[b].role, guest |-> cookie[b].guest]
  <2>1. Sound(s) BY DEF SessionOK, Sound, Session
  <2>2. cookie' = [cookie EXCEPT ![b] = s] /\ owners' = owners \cup {b} /\ open' = open
    BY <1>1 DEF OwnerSignIn
  <2> HIDE DEF s
  <2> QED BY <2>1, <2>2 DEF SessionOK, Sound, OwnerPowersMeanOwnerSignIn, IsOwner
<1>2. ASSUME NEW b \in Browser, SignOut(b) PROVE SessionOK'
  BY <1>2, NobodyIsOwner, CookieKeeps DEF SignOut
<1>3. ASSUME NEW b \in Browser, NEW g \in Grant, GuestSignIn(b, g) PROVE SessionOK'
  BY <1>3, NobodyIsOwner, CookieKeeps DEF GuestSignIn
<1>4. ASSUME NEW b \in Browser, OwnerRequest(b) PROVE SessionOK'
  BY <1>4, RequestKeeps DEF OwnerRequest
<1>5. ASSUME NEW b \in Browser, GuestRead(b) PROVE SessionOK'
  BY <1>5, RequestKeeps DEF GuestRead
<1>6. ASSUME NEW b \in Browser, GuestEnded(b) PROVE SessionOK'
  BY <1>6, NobodyIsOwner, CookieKeeps DEF GuestEnded
<1>7. ASSUME NEW b \in Browser, Respond(b) PROVE SessionOK'
  BY <1>7, NobodyIsOwner DEF Respond, SessionOK, OwnerPowersMeanOwnerSignIn, IsOwner
<1>8. CASE AccessRestart
  BY <1>8, NobodyIsOwner DEF AccessRestart, SessionOK, OwnerPowersMeanOwnerSignIn
<1>9. CASE UNCHANGED sessionVars
  BY <1>9 DEF sessionVars, SessionOK, OwnerPowersMeanOwnerSignIn, IsOwner
<1> QED
  BY <1>1, <1>2, <1>3, <1>4, <1>5, <1>6, <1>7, <1>8, <1>9
     DEF AccessNext, GuestRefused, GuestDenied, OwnerControl, ClockTick, accessVars

\* The owner's session is only ever in a browser where both factors were presented,
\* whatever guests, dead grants, late responses and restarts do
\* (guest_access.py:10-13).
THEOREM OnlyTheOwnerIsOwner == AccessSpec => []OwnerPowersMeanOwnerSignIn
<1>1. SessionOK => OwnerPowersMeanOwnerSignIn BY DEF SessionOK
<1> QED BY <1>1, InitSession, StepKeepsSession, PTL DEF AccessSpec

-----------------------------------------------------------------------------
(* Grants, with every write landing.                                       *)

AnyRecord == [expires : Nat, revoked : Nat, uses : Nat, denials : Nat]

\* Two records that say the same about the grant's life.
SameLife(r, s) == r.expires = s.expires /\ r.revoked = s.revoked

\* A record that does not expire is none.
Proper(rec) == rec \in AnyRecord /\ (rec.expires = 0 => rec = NoRecord)

Shape ==
    /\ now \in Nat \ {0}
    /\ grants \in [Grant -> AnyRecord] /\ disk \in [Grant -> AnyRecord]
    /\ deadline \in [Grant -> Nat]
    /\ toldDead \subseteq Grant

\* What a grant's record says of its life, in both copies alike.
Faithful(g) ==
    /\ Proper(grants[g]) /\ Proper(disk[g])
    /\ SameLife(grants[g], disk[g])
    /\ grants[g].expires \in {0, deadline[g]}
    /\ g \in toldDead => /\ deadline[g] # 0
                         /\ grants[g].expires = 0 \/ grants[g].revoked # Never

StoreOK == Shape /\ \A g \in Grant : Faithful(g)

LEMMA NoRecordIsProper == Proper(NoRecord)
BY DEF Proper, AnyRecord, NoRecord, Never

LEMMA InitStore == AccessInit => StoreOK
BY NoRecordIsProper
   DEF AccessInit, GuestInit, StoreOK, Shape, Faithful, SameLife, Proper, NoRecord, Never

\* Using a grant says nothing about its life.
LEMMA UseKeepsLife ==
    ASSUME NEW rec \in AnyRecord, rec.expires # 0
    PROVE  /\ Proper(Used(rec)) /\ SameLife(Used(rec), rec)
           /\ Proper(UsedAndDenied(rec)) /\ SameLife(UsedAndDenied(rec), rec)
BY DEF AnyRecord, Proper, Used, UsedAndDenied, SameLife

\* A step that leaves every life as it was, in memory and in the file.
LEMMA LivesKeep ==
    ASSUME StoreOK, now' \in Nat \ {0}, UNCHANGED <<deadline, toldDead>>,
           grants' \in [Grant -> AnyRecord], disk' \in [Grant -> AnyRecord],
           \A g \in Grant : /\ Proper(grants'[g]) /\ SameLife(grants'[g], grants[g])
                            /\ Proper(disk'[g]) /\ SameLife(disk'[g], grants[g])
    PROVE  StoreOK'
BY DEF StoreOK, Shape, Faithful, SameLife

\* Touching one live grant, in memory only or in both copies.
LEMMA TouchKeeps ==
    ASSUME StoreOK, NEW g \in Grant, NEW rec, Live(grants[g]),
           rec \in {Used(grants[g]), UsedAndDenied(grants[g])},
           grants' = [grants EXCEPT ![g] = rec], disk' \in {disk, grants'},
           UNCHANGED <<now, deadline, toldDead>>
    PROVE  /\ StoreOK'
           /\ \A h \in Grant : SameLife(grants'[h], grants[h])
<1>1. grants[g] \in AnyRecord /\ now \in Nat \ {0} BY DEF StoreOK, Shape
<1>2. grants[g].expires # 0 BY <1>1 DEF Live, AnyRecord
<1>3. Proper(rec) /\ SameLife(rec, grants[g]) /\ rec \in AnyRecord
  BY <1>1, <1>2, UseKeepsLife DEF Proper
<1>4. \A h \in Grant : Proper(grants'[h]) /\ SameLife(grants'[h], grants[h])
  BY <1>3 DEF StoreOK, Shape, Faithful, SameLife
<1>5. \A h \in Grant : Proper(disk'[h]) /\ SameLife(disk'[h], grants[h])
  BY <1>4 DEF StoreOK, Faithful, SameLife
<1>6. grants' \in [Grant -> AnyRecord] /\ disk' \in [Grant -> AnyRecord]
  BY <1>3 DEF StoreOK, Shape
<1> QED BY <1>1, <1>4, <1>5, <1>6, LivesKeep

StaysDead ==
    \A g \in Grant : deadline[g] # 0 /\ ~Live(grants[g]) => ~Live(grants[g])'

LEMMA SameLivesStayDead ==
    ASSUME StoreOK, now' \in Nat, now' >= now, grants' \in [Grant -> AnyRecord],
           \A g \in Grant : SameLife(grants'[g], grants[g])
    PROVE  StaysDead
BY DEF StaysDead, Live, SameLife, StoreOK, Shape, AnyRecord

\* Owner's side, store's own methods: what each does to the lives.
LEMMA IssueKeeps ==
    ASSUME SavesFail = FALSE, StoreOK, NEW g \in Grant, Issue(g)
    PROVE  StoreOK' /\ StaysDead
<1>1. PICK ttl \in Ttl :
        /\ grants' = [grants EXCEPT ![g] = [expires |-> now + ttl, revoked |-> Never,
                                           uses |-> 0, denials |-> 0]]
        /\ disk' = grants' /\ deadline' = [deadline EXCEPT ![g] = now + ttl]
  BY DEF Issue, Save
<1>2. deadline[g] = 0 /\ UNCHANGED <<now, toldDead>> BY DEF Issue
<1>3. now + ttl \in Nat /\ now + ttl # 0 BY TtlAssumption DEF StoreOK, Shape
<1>4. g \notin toldDead BY <1>2 DEF StoreOK, Faithful
<1> DEFINE new == [expires |-> now + ttl, revoked |-> Never, uses |-> 0, denials |-> 0]
<1>5. new \in AnyRecord /\ Proper(new) BY <1>3 DEF AnyRecord, Proper, Never
<1>6. new.expires = now + ttl OBVIOUS
<1> HIDE DEF new
<1>7. grants' = [grants EXCEPT ![g] = new] BY <1>1 DEF new
<1>8. Shape' BY <1>1, <1>2, <1>3, <1>5, <1>7 DEF StoreOK, Shape
<1>9. ASSUME NEW h \in Grant PROVE Faithful(h)'
  <2>1. CASE h = g
    BY <2>1, <1>1, <1>2, <1>4, <1>5, <1>6, <1>7 DEF Faithful, SameLife, StoreOK, Shape
  <2>2. CASE h # g
    BY <2>2, <1>1, <1>2, <1>7 DEF Faithful, SameLife, StoreOK, Shape
  <2> QED BY <2>1, <2>2
<1>10. StaysDead
  BY <1>2, <1>7 DEF StaysDead, Live, StoreOK, Shape
<1> QED BY <1>8, <1>9, <1>10 DEF StoreOK

\* Revoking a set of known grants, in both copies.
LEMMA RevokingKeeps ==
    ASSUME StoreOK, NEW S \in SUBSET Grant,
           \A g \in S : grants[g].expires # 0,
           grants' = [g \in Grant |-> IF g \in S THEN RevokedNow(grants[g]) ELSE grants[g]],
           disk' = grants', toldDead' = toldDead \cup S, UNCHANGED <<now, deadline>>
    PROVE  StoreOK' /\ StaysDead
<1>1. \A g \in S : /\ RevokedNow(grants[g]) \in AnyRecord
                   /\ Proper(RevokedNow(grants[g]))
                   /\ RevokedNow(grants[g]).revoked # Never
                   /\ RevokedNow(grants[g]).expires = grants[g].expires
  BY DEF RevokedNow, AnyRecord, Proper, StoreOK, Shape, Never
<1>2. \A g \in Grant : grants'[g] = IF g \in S THEN RevokedNow(grants[g]) ELSE grants[g]
  OBVIOUS
<1>3. Shape' BY <1>1, <1>2 DEF StoreOK, Shape
<1>4. ASSUME NEW g \in Grant PROVE Faithful(g)'
  <2>1. CASE g \in S
    <3>1. deadline[g] # 0 BY <2>1 DEF StoreOK, Faithful
    <3> QED BY <2>1, <3>1, <1>1, <1>2 DEF Faithful, SameLife, StoreOK
  <2>2. CASE g \notin S BY <2>2, <1>2 DEF Faithful, SameLife, StoreOK
  <2> QED BY <2>1, <2>2
<1>5. StaysDead BY <1>1, <1>2 DEF StaysDead, Live
<1> QED BY <1>3, <1>4, <1>5 DEF StoreOK

LEMMA RevokeKeeps ==
    ASSUME SavesFail = FALSE, StoreOK, NEW g \in Grant, Revoke(g)
    PROVE  StoreOK' /\ StaysDead
<1>1. grants[g].expires # 0 BY DEF Revoke, Known, StoreOK, Faithful, Proper
<1>2. /\ grants' = [grants EXCEPT ![g] = RevokedNow(@)]
      /\ disk' = grants' /\ toldDead' = toldDead \cup {g} /\ UNCHANGED <<now, deadline>>
  BY DEF Revoke, Save
<1>3. grants' = [h \in Grant |-> IF h \in {g} THEN RevokedNow(grants[h]) ELSE grants[h]]
  BY <1>2 DEF StoreOK, Shape
<1> QED BY <1>1, <1>2, <1>3, RevokingKeeps

LEMMA RevokeAllKeeps ==
    ASSUME SavesFail = FALSE, StoreOK, RevokeAll
    PROVE  StoreOK' /\ StaysDead
<1> DEFINE live == {g \in Grant : Known(g) /\ Live(grants[g])}
<1>1. \A g \in live : grants[g].expires # 0 BY DEF Known, StoreOK, Faithful, Proper
<1>2. /\ grants' = [g \in Grant |-> IF g \in live THEN RevokedNow(grants[g]) ELSE grants[g]]
      /\ disk' = grants' /\ toldDead' = toldDead \cup live /\ UNCHANGED <<now, deadline>>
  BY DEF RevokeAll, Save
<1> HIDE DEF live
<1> QED BY <1>1, <1>2, RevokingKeeps DEF live

LEMMA FlushKeeps ==
    ASSUME SavesFail = FALSE, StoreOK, Flush
    PROVE  StoreOK' /\ StaysDead
<1>1. grants' = grants /\ disk' = grants /\ UNCHANGED <<now, deadline, toldDead>>
  BY DEF Flush, Save
<1>2. StoreOK' BY <1>1 DEF StoreOK, Shape, Faithful, SameLife
<1>3. StaysDead BY <1>1 DEF StaysDead, Live
<1> QED BY <1>2, <1>3

\* A restart reads the file, whose lives are those of memory, and may forget some.
LEMMA ReloadKeeps ==
    ASSUME SavesFail = FALSE, StoreOK, Reload
    PROVE  StoreOK' /\ StaysDead
<1>1. /\ grants' = [g \in Grant |-> IF Dead(disk[g]) THEN NoRecord ELSE disk[g]]
      /\ disk' = grants' /\ UNCHANGED <<now, deadline, toldDead>>
  BY DEF Reload
<1>2. \A g \in Grant : grants'[g] = NoRecord \/ grants'[g] = disk[g]
  BY <1>1
<1>3. NoRecord \in AnyRecord /\ NoRecord.expires = 0 BY DEF NoRecord, AnyRecord, Never
<1>4. Shape' BY <1>1, <1>2, <1>3 DEF StoreOK, Shape
<1>5. ASSUME NEW g \in Grant PROVE Faithful(g)'
  <2>1. Faithful(g) BY DEF StoreOK
  <2>2. CASE grants'[g] = NoRecord
    BY <2>1, <2>2, <1>1, <1>3, NoRecordIsProper DEF Faithful, SameLife
  <2>3. CASE grants'[g] = disk[g]
    BY <2>1, <2>3, <1>1 DEF Faithful, SameLife
  <2> QED BY <1>2, <2>2, <2>3
<1>6. StaysDead
  <2> SUFFICES ASSUME NEW g \in Grant, ~Live(grants[g]) PROVE ~Live(grants[g])'
    BY DEF StaysDead
  <2>1. now \in Nat BY DEF StoreOK, Shape
  <2>2. SameLife(grants[g], disk[g]) BY DEF StoreOK, Faithful
  <2> QED BY <1>1, <1>2, <1>3, <2>1, <2>2 DEF Live, SameLife
<1> QED BY <1>4, <1>5, <1>6 DEF StoreOK

LEMMA TickKeeps ==
    ASSUME StoreOK, Tick
    PROVE  StoreOK' /\ StaysDead
<1>1. /\ now' = now + 1 /\ grants' = grants /\ disk' = disk
      /\ deadline' = deadline /\ toldDead' = toldDead
  BY DEF Tick, grantVars
<1>2. StoreOK' BY <1>1 DEF StoreOK, Shape, Faithful
<1>3. StaysDead BY <1>1 DEF StaysDead, Live, StoreOK, Shape, AnyRecord
<1> QED BY <1>2, <1>3

LEMMA UnusedKeeps ==
    ASSUME StoreOK, UNCHANGED <<now, grants, disk, deadline, toldDead>>
    PROVE  StoreOK' /\ StaysDead
BY DEF StoreOK, Shape, Faithful, StaysDead, Live

\* redeem of a live code, lookup, record_denial.
LEMMA UseKeeps ==
    ASSUME SavesFail = FALSE, StoreOK, NEW g \in Grant,
           Redeem(g) \/ Touch(g) \/ TouchAndDeny(g)
    PROVE  StoreOK' /\ StaysDead
<1>1. PICK rec \in {Used(grants[g]), UsedAndDenied(grants[g])} :
        /\ Live(grants[g]) /\ grants' = [grants EXCEPT ![g] = rec]
        /\ disk' \in {disk, grants'} /\ UNCHANGED <<now, deadline, toldDead>>
  BY DEF Redeem, Touch, TouchAndDeny, Save, InMemory
<1>2. StoreOK' /\ \A h \in Grant : SameLife(grants'[h], grants[h])
  BY <1>1, TouchKeeps
<1>3. StaysDead BY <1>1, <1>2, SameLivesStayDead DEF StoreOK, Shape
<1> QED BY <1>2, <1>3

-----------------------------------------------------------------------------
LEMMA StepKeepsStore ==
    ASSUME SavesFail = FALSE
    PROVE  SessionOK /\ StoreOK /\ [AccessNext]_accessVars => StoreOK' /\ StaysDead
<1> SUFFICES ASSUME SessionOK, StoreOK, [AccessNext]_accessVars PROVE StoreOK' /\ StaysDead
  OBVIOUS
<1>1. ASSUME NEW b \in Browser, NEW g \in Grant, GuestSignIn(b, g)
      PROVE  StoreOK' /\ StaysDead
  BY <1>1, UseKeeps DEF GuestSignIn
<1>2. ASSUME NEW b \in Browser, GuestRead(b) \/ GuestDenied(b)
      PROVE  StoreOK' /\ StaysDead
  <2>1. cookie[b].guest \in Grant
    BY <1>2 DEF GuestRead, GuestDenied, IsGuest, SessionOK, Sound
  <2> QED BY <1>2, <2>1, UseKeeps DEF GuestRead, GuestDenied
<1>3. ASSUME NEW b \in Browser, Respond(b) PROVE StoreOK' /\ StaysDead
  <2>1. CASE IsGuest(open[b]) BY <1>3, <2>1, FlushKeeps DEF Respond
  <2>2. CASE ~IsGuest(open[b]) BY <1>3, <2>2, UnusedKeeps DEF Respond, guestVars
  <2> QED BY <2>1, <2>2
<1>4. CASE OwnerControl
  BY <1>4, RevokeAllKeeps, IssueKeeps, RevokeKeeps DEF OwnerControl
<1>5. CASE AccessRestart BY <1>5, ReloadKeeps DEF AccessRestart
<1>6. CASE ClockTick BY <1>6, TickKeeps DEF ClockTick
<1>7. CASE GuestRefused BY <1>7, UnusedKeeps DEF GuestRefused, Refuse, grantVars
<1>8. CASE UNCHANGED guestVars BY <1>8, UnusedKeeps DEF guestVars
<1> QED
  BY <1>1, <1>2, <1>3, <1>4, <1>5, <1>6, <1>7, <1>8
     DEF AccessNext, OwnerSignIn, SignOut, OwnerRequest, GuestEnded, accessVars

\* A grant that is no longer honoured - revoked, expired, purged - is never
\* honoured again, restarts included, as long as the store's writes land
\* (guest_access.py:26, 241-257).
THEOREM EndedGrantsStayDead == ASSUME SavesFail = FALSE PROVE AccessSpec => DeadStaysDead
<1> DEFINE Stays == \A g \in Grant : deadline[g] # 0 /\ ~Honoured(g) => ~Honoured(g)'
<1>1. SessionOK /\ StoreOK /\ [AccessNext]_accessVars => StoreOK' BY StepKeepsStore
<1>2. SessionOK /\ StoreOK /\ [AccessNext]_accessVars => Stays
  BY StepKeepsStore DEF StaysDead, Honoured
<1>3. Stays => [Stays]_guestVars OBVIOUS
<1> HIDE DEF Stays
<1>4. AccessSpec => [][Stays]_guestVars
  BY <1>1, <1>2, <1>3, InitSession, InitStore, StepKeepsSession, PTL DEF AccessSpec
<1> QED BY <1>4, PTL DEF Stays, DeadStaysDead

\* A request let through by the gate is on a grant that has not ended.
LEMMA HonouredHasNotEnded ==
    ASSUME StoreOK, NEW g \in Grant, Live(grants[g]) PROVE ~Ended(g)
BY DEF StoreOK, Shape, Faithful, AnyRecord, Live, Ended, Never

\* A guest is only ever served on a grant whose minted lifetime is not over and
\* that the owner has not been told is revoked, as long as the store's writes
\* land (access.py:160-162).
THEOREM OnlyHonouredGuestsAreAnswered ==
    ASSUME SavesFail = FALSE PROVE AccessSpec => AnswersOnlyHonoured
<1> DEFINE Answers == \A b \in Browser :
              open[b] = Empty /\ IsGuest(open'[b]) => ~Ended(open'[b].guest)
<1>1. SessionOK /\ StoreOK /\ [AccessNext]_accessVars => StoreOK' BY StepKeepsStore
<1>2. SessionOK /\ StoreOK /\ [AccessNext]_accessVars => Answers
  <2> SUFFICES ASSUME SessionOK, StoreOK, [AccessNext]_accessVars, NEW b \in Browser,
                      open[b] = Empty, IsGuest(open'[b])
               PROVE  ~Ended(open'[b].guest)
    OBVIOUS
  <2>1. open'[b] # Empty BY NobodyIsOwner
  <2>2. PICK c \in Browser : OwnerRequest(c) \/ GuestRead(c)
    BY <2>1 DEF AccessNext, OwnerSignIn, SignOut, GuestSignIn, GuestDenied, GuestEnded,
                GuestRefused, OwnerControl, ClockTick, sessionVars, accessVars,
                Respond, AccessRestart, SessionOK
  <2>3. c = b /\ open'[b] = cookie[b]
    BY <2>1, <2>2 DEF OwnerRequest, GuestRead, SessionOK
  <2>4. GuestRead(b) BY <2>2, <2>3 DEF OwnerRequest, IsOwner, IsGuest
  <2>5. cookie[b].guest \in Grant BY <2>4 DEF GuestRead, IsGuest, SessionOK, Sound
  <2>6. Live(grants[cookie[b].guest]) BY <2>4 DEF GuestRead, Touch
  <2> QED BY <2>3, <2>5, <2>6, HonouredHasNotEnded
<1> HIDE DEF Answers
<1>3. AccessSpec => [][Answers]_accessVars
  BY <1>1, <1>2, InitSession, InitStore, StepKeepsSession, PTL DEF AccessSpec
<1> QED BY <1>3, PTL DEF Answers, AnswersOnlyHonoured

-----------------------------------------------------------------------------
(* The guest door: every variable's type, the throttle, the lockout.        *)

\* Entries of one tick have different numbers.
Numbered(past) ==
    \A f \in past : f.nth =< Cardinality({h \in past : h.at = f.at})

\* Both lists are finite, and nothing in them is of the future.
Listed(past) ==
    /\ past \in SUBSET Failure /\ IsFiniteSet(past)
    /\ \A f \in past : f.at =< now
    /\ Numbered(past)

\* Either the failures are the refusals still in the window, or the door was
\* shut after the last refusal and no failure is kept.
Throttled ==
    /\ GuessesAreThrottled
    /\ \/ Recent(wrong) = Recent(failures)
       \/ failures = {} /\ \A f \in wrong : f.at + Lockout =< lockedUntil

\* The throttle needs a cooldown no shorter than the window; the types do not.
Door ==
    /\ GuestTypeOK
    /\ Listed(failures) /\ Listed(wrong)
    /\ FailureWindow =< Lockout => Throttled

LEMMA RecentListed ==
    ASSUME now \in 1..MaxTime, NEW past, Listed(past)
    PROVE  /\ Recent(past) \subseteq past
           /\ IsFiniteSet(Recent(past))
           /\ Cardinality(Recent(past)) \in Nat
           /\ Cardinality(Recent(past)) =< Cardinality(past)
           /\ Cardinality(past) \in Nat
<1>1. Recent(past) \subseteq past
  BY DEF Recent
<1>2. QED
  BY <1>1, FS_Subset, FS_CardinalityType DEF Listed

\* Adding a failure keeps the list well formed and makes it one longer: two
\* failures of one tick are both counted.
LEMMA NotedListed ==
    ASSUME now \in 1..MaxTime, FailureWindow \in Nat \ {0}, NEW past, Listed(past)
    PROVE  /\ Listed(Noted(past))
           /\ Cardinality(Noted(past)) \in Nat
           /\ Cardinality(Noted(past)) = Cardinality(Recent(past)) + 1
<1> DEFINE mates(t) == {h \in past : h.at = t}
           x == [at |-> now, nth |-> 1 + Cardinality(mates(now))]
<1>1. Noted(past) = Recent(past) \cup {x}
  BY DEF Noted
<1>2. \A t : IsFiniteSet(mates(t)) /\ Cardinality(mates(t)) \in Nat
  BY FS_Subset, FS_CardinalityType DEF Listed
<1>3. x \in Failure /\ x.at = now /\ x.nth = 1 + Cardinality(mates(now))
  <2>1. Cardinality(mates(now)) \in Nat
    BY <1>2
  <2>2. 1 + Cardinality(mates(now)) \in Nat \ {0}
    BY <2>1
  <2> HIDE DEF mates
  <2>3. QED
    BY <2>2 DEF Failure
<1> HIDE DEF x
<1>4. x \notin past
  <2> SUFFICES ASSUME x \in past PROVE FALSE
    OBVIOUS
  <2>1. x.nth =< Cardinality(mates(now))
    BY <1>3 DEF Listed, Numbered
  <2>2. QED
    BY <1>2, <1>3, <2>1
<1>5. IsFiniteSet(Recent(past)) /\ Recent(past) \subseteq past /\ x \notin Recent(past)
  BY <1>4, RecentListed
<1>6. IsFiniteSet(Noted(past)) /\ Cardinality(Noted(past)) = Cardinality(Recent(past)) + 1
  BY <1>1, <1>5, FS_AddElement
<1>7. Numbered(Noted(past))
  <2> SUFFICES ASSUME NEW f \in Noted(past)
               PROVE  f.nth =< Cardinality({h \in Noted(past) : h.at = f.at})
    BY DEF Numbered
  <2>1. CASE f.at = now
    <3>1. \A h \in past : h.at = now => h \in Recent(past)
      BY DEF Recent
    <3>2. {h \in Noted(past) : h.at = f.at} = mates(now) \cup {x}
      <4>1. \A h : h \in Noted(past) /\ h.at = now <=> (h \in past /\ h.at = now) \/ h = x
        BY <1>1, <1>3, <1>5, <3>1
      <4>2. QED
        BY <2>1, <4>1
    <3>3. Cardinality(mates(now) \cup {x}) = Cardinality(mates(now)) + 1
      <4>1. IsFiniteSet(mates(now)) /\ x \notin mates(now)
        BY <1>2, <1>4
      <4>2. QED
        BY <4>1, FS_AddElement
    <3>4. f = x \/ f.nth =< Cardinality(mates(now))
      BY <1>1, <1>5, <2>1 DEF Listed, Numbered
    <3>5. f.nth \in Nat
      BY <1>1, <1>3, <1>5 DEF Listed, Failure
    <3>6. Cardinality({h \in Noted(past) : h.at = f.at}) = Cardinality(mates(now)) + 1
      BY <3>2, <3>3
    <3>7. Cardinality(mates(now)) \in Nat
      BY <1>2
    <3> HIDE DEF mates
    <3>8. f.nth =< Cardinality(mates(now)) + 1
      BY <1>3, <3>4, <3>5, <3>7
    <3>9. QED
      BY <3>6, <3>8
  <2>2. CASE f.at # now
    <3>1. f \in Recent(past)
      BY <1>1, <1>3, <2>2
    <3>2. \A h \in past : h.at = f.at => h \in Recent(past)
      BY <3>1 DEF Recent
    <3>3. {h \in Noted(past) : h.at = f.at} = mates(f.at)
      BY <1>1, <1>3, <1>5, <2>2, <3>2
    <3>4. QED
      BY <1>5, <3>1, <3>3 DEF Listed, Numbered
  <2>3. QED
    BY <2>1, <2>2
<1>8. Noted(past) \in SUBSET Failure /\ \A f \in Noted(past) : f.at =< now
  BY <1>1, <1>3, <1>5 DEF Listed
<1>9. QED
  BY <1>5, <1>6, <1>7, <1>8, FS_CardinalityType DEF Listed

\* Lists that agree on the window agree after one more failure.
LEMMA NotedAlike ==
    ASSUME now \in 1..MaxTime, FailureWindow \in Nat \ {0},
           Listed(failures), Listed(wrong), Recent(wrong) = Recent(failures)
    PROVE  Noted(wrong) = Noted(failures)
<1>1. {f \in wrong : f.at = now} = {f \in failures : f.at = now}
  <2>1. \A f \in wrong \cup failures : f.at = now => now - f.at < FailureWindow
    OBVIOUS
  <2>2. QED
    BY <2>1 DEF Recent
<1>2. QED
  BY <1>1 DEF Noted

\* The newly noted list holds nothing outside the window.
LEMMA NotedIsRecent ==
    ASSUME now \in 1..MaxTime, FailureWindow \in Nat \ {0}, NEW past
    PROVE  Recent(Noted(past)) = Noted(past)
  BY DEF Recent, Noted

LEMMA DoorInit == AccessInit => Door
<1> SUFFICES ASSUME AccessInit PROVE Door
  OBVIOUS
<1>1. /\ now = 1 /\ failures = {} /\ wrong = {} /\ lockedUntil = 0 /\ toldDead = {}
      /\ grants = [g \in Grant |-> NoRecord] /\ disk = [g \in Grant |-> NoRecord]
      /\ deadline = [g \in Grant |-> 0]
  BY DEF AccessInit, GuestInit
<1>2. Listed({}) /\ Recent({}) = {} /\ Cardinality({}) = 0
  BY FS_EmptySet DEF Listed, Numbered, Recent
<1>3. NoRecord \in Record
  BY TimesAssumption DEF NoRecord, Record, Never
<1>4. GuestTypeOK
  BY <1>1, <1>2, <1>3, TimesAssumption DEF GuestTypeOK
<1>5. QED
  BY <1>1, <1>2, <1>4, TimesAssumption DEF Door, Throttled, GuessesAreThrottled

\* What leaves the door and the clock alone keeps the door's invariant.
LEMMA DoorKeeps ==
    ASSUME Door, GuestTypeOK', UNCHANGED <<now, doorVars>>
    PROVE  Door'
  BY DEF Door, doorVars, Listed, Numbered, Throttled, Recent, GuessesAreThrottled

LEMMA RefuseKeepsDoor ==
    ASSUME Door, Refuse
    PROVE  Door'
<1> USE TimesAssumption
<1> DEFINE recent == Noted(failures)
<1>1. /\ now \in 1..MaxTime /\ lockedUntil \in Nat /\ Listed(failures) /\ Listed(wrong)
      /\ now' = now /\ ~(lockedUntil > now)
      /\ failures' = IF Cardinality(recent) >= MaxFailures THEN {} ELSE recent
      /\ lockedUntil' = IF Cardinality(recent) >= MaxFailures THEN now + Lockout ELSE lockedUntil
      /\ wrong' = Noted(wrong)
  BY DEF Door, GuestTypeOK, Refuse, LockedOut
<1>2. /\ Listed(recent) /\ Cardinality(recent) \in Nat
      /\ Cardinality(recent) = Cardinality(Recent(failures)) + 1
      /\ Listed(Noted(wrong))
  BY <1>1, NotedListed
<1>3. Cardinality(recent) =< MaxFailures
  <2>1. /\ Cardinality(Recent(failures)) \in Nat /\ Cardinality(failures) \in Nat
        /\ Cardinality(Recent(failures)) =< Cardinality(failures)
    BY <1>1, RecentListed
  <2>2. Cardinality(failures) < MaxFailures
    BY DEF Door, GuestTypeOK
  <2>3. QED
    BY <1>2, <2>1, <2>2
<1>4. GuestTypeOK'
  <2>1. Cardinality(failures') < MaxFailures
    BY <1>1, <1>2, FS_EmptySet
  <2>2. failures' \in SUBSET Failure /\ wrong' \in SUBSET Failure
    BY <1>1, <1>2 DEF Listed
  <2>3. lockedUntil' \in Nat
    BY <1>1
  <2>4. QED
    BY <1>1, <2>1, <2>2, <2>3 DEF Door, GuestTypeOK, Refuse, grantVars
<1>5. Listed(failures)' /\ Listed(wrong)'
  <2>1. Listed({})
    BY FS_EmptySet DEF Listed, Numbered
  <2>2. QED
    BY <1>1, <1>2, <2>1 DEF Listed, Numbered
<1>6. ASSUME FailureWindow =< Lockout PROVE Throttled'
  <2>1. Recent(wrong) = Recent(failures)
    <3>1. ASSUME failures = {}, \A f \in wrong : f.at + Lockout =< lockedUntil
          PROVE  Recent(wrong) = {} /\ Recent(failures) = {}
      <4>1. \A f \in wrong : f.at \in Nat
        BY <1>1 DEF Listed, Failure
      <4>2. QED
        BY <1>1, <1>6, <3>1, <4>1 DEF Recent
    <3>2. QED
      BY <1>6, <3>1 DEF Door, Throttled
  <2>2. Noted(wrong) = recent
    BY <1>1, <2>1, NotedAlike
  <2>3. Recent(recent) = recent
    BY <1>1, NotedIsRecent
  <2>4. \A f \in recent : f.at =< now /\ f.at \in Nat
    BY <1>2 DEF Listed, Failure
  <2> HIDE DEF recent
  <2>5. GuessesAreThrottled'
    BY <1>1, <1>3, <2>2, <2>3 DEF GuessesAreThrottled, Recent
  <2>6. CASE Cardinality(recent) >= MaxFailures
    BY <1>1, <2>2, <2>4, <2>5, <2>6 DEF Throttled
  <2>7. CASE ~(Cardinality(recent) >= MaxFailures)
    BY <1>1, <2>2, <2>5, <2>7 DEF Throttled, Recent
  <2>8. QED
    BY <2>6, <2>7
<1>7. QED
  BY <1>4, <1>5, <1>6 DEF Door

LEMMA TickKeepsDoor ==
    ASSUME Door, Tick
    PROVE  Door'
<1>1. /\ now \in 1..MaxTime /\ now' = now + 1 /\ now' \in 1..MaxTime
      /\ UNCHANGED <<grants, disk, deadline, toldDead, failures, lockedUntil, wrong>>
  BY TimesAssumption DEF Door, GuestTypeOK, Tick, grantVars, doorVars
<1>2. GuestTypeOK'
  BY <1>1 DEF Door, GuestTypeOK
<1>3. Listed(failures)' /\ Listed(wrong)'
  <2>1. \A f \in failures \cup wrong : f.at \in Nat /\ f.at =< now
    BY DEF Door, Listed, Failure
  <2>2. QED
    BY <1>1, <2>1 DEF Door, Listed, Numbered
<1>4. Recent(wrong)' \subseteq Recent(wrong)
  <2>1. \A f \in wrong : f.at \in Nat
    BY DEF Door, Listed, Failure
  <2>2. QED
    BY <1>1, <2>1, TimesAssumption DEF Recent
<1>5. GuessesAreThrottled => GuessesAreThrottled'
  <2>1. IsFiniteSet(Recent(wrong)) /\ Cardinality(Recent(wrong)) \in Nat
    BY <1>1, RecentListed DEF Door
  <2>2. /\ Cardinality(Recent(wrong)') =< Cardinality(Recent(wrong))
        /\ Cardinality(Recent(wrong)') \in Nat
    BY <1>4, <2>1, FS_Subset, FS_CardinalityType
  <2>3. QED
    BY <2>1, <2>2, TimesAssumption DEF GuessesAreThrottled
<1>6. Recent(wrong) = Recent(failures) => Recent(wrong)' = Recent(failures)'
  <2>1. \A f \in failures \cup wrong : f.at \in Nat
    BY DEF Door, Listed, Failure
  <2>2. QED
    BY <1>1, <2>1, TimesAssumption DEF Recent
<1>7. Throttled => Throttled'
  BY <1>1, <1>5, <1>6 DEF Throttled
<1>8. QED
  BY <1>2, <1>3, <1>7 DEF Door

LEMMA ReloadKeepsDoor ==
    ASSUME Door, Reload
    PROVE  Door'
<1>1. NoRecord \in Record
  BY TimesAssumption DEF NoRecord, Record, Never
<1>2. grants' \in [Grant -> Record] /\ disk' \in [Grant -> Record]
  BY <1>1 DEF Door, GuestTypeOK, Reload
<1>3. /\ failures' = {} /\ wrong' = {} /\ lockedUntil' = 0
      /\ UNCHANGED <<now, deadline, toldDead>>
  BY DEF Reload
<1>4. IsFiniteSet({}) /\ Cardinality({}) = 0
  BY FS_EmptySet
<1>5. GuestTypeOK'
  BY <1>2, <1>3, <1>4, TimesAssumption DEF Door, GuestTypeOK
<1>6. Listed(failures)' /\ Listed(wrong)' /\ Recent(wrong)' = {} /\ Recent(failures)' = {}
  BY <1>3, <1>4 DEF Listed, Numbered, Recent
<1>7. QED
  BY <1>4, <1>5, <1>6, TimesAssumption DEF Door, Throttled, GuessesAreThrottled

\* The records keep their type whatever the owner and the guests do.
LEMMA SaveType ==
    ASSUME GuestTypeOK, NEW dict \in [Grant -> Record], Save(dict) \/ InMemory(dict)
    PROVE  grants' \in [Grant -> Record] /\ disk' \in [Grant -> Record]
  BY DEF GuestTypeOK, Save, InMemory

LEMMA UsedType ==
    ASSUME NEW rec \in Record, rec.uses < CountMax
    PROVE  Used(rec) \in Record /\ (rec.denials < CountMax => UsedAndDenied(rec) \in Record)
  BY TimesAssumption DEF Record, Used, UsedAndDenied

LEMMA RevokedType ==
    ASSUME now \in 1..MaxTime, NEW rec \in Record
    PROVE  RevokedNow(rec) \in Record
  BY TimesAssumption DEF Record, RevokedNow

LEMMA GrantKeepsDoor ==
    ASSUME Door, NEW g \in Grant,
           Issue(g) \/ Revoke(g) \/ RevokeAll \/ Redeem(g) \/ Touch(g) \/ TouchAndDeny(g)
    PROVE  Door'
<1>1. GuestTypeOK /\ now \in 1..MaxTime /\ \A h \in Grant : grants[h] \in Record
  BY DEF Door, GuestTypeOK
<1>2. ASSUME NEW rec \in Record, Save([grants EXCEPT ![g] = rec]) \/ InMemory([grants EXCEPT ![g] = rec])
      PROVE  grants' \in [Grant -> Record] /\ disk' \in [Grant -> Record]
  <2>1. [grants EXCEPT ![g] = rec] \in [Grant -> Record]
    BY <1>1 DEF GuestTypeOK
  <2>2. QED
    BY <1>1, <1>2, <2>1, SaveType
<1>3. CASE Issue(g)
  <2>1. PICK ttl \in Ttl :
          /\ Save([grants EXCEPT ![g] =
                [expires |-> now + ttl, revoked |-> Never, uses |-> 0, denials |-> 0]])
          /\ deadline' = [deadline EXCEPT ![g] = now + ttl]
    BY <1>3 DEF Issue
  <2>2. now + ttl \in Nat
    BY <1>1, TtlAssumption
  <2>3. [expires |-> now + ttl, revoked |-> Never, uses |-> 0, denials |-> 0] \in Record
    BY <2>2, TimesAssumption DEF Record, Never
  <2>4. GuestTypeOK'
    BY <1>1, <1>2, <1>3, <2>1, <2>2, <2>3 DEF Issue, GuestTypeOK, doorVars
  <2>5. QED
    BY <1>3, <2>4, DoorKeeps DEF Issue
<1>4. CASE Revoke(g)
  <2>1. GuestTypeOK'
    BY <1>1, <1>2, <1>4, RevokedType DEF Revoke, GuestTypeOK, doorVars
  <2>2. QED
    BY <1>4, <2>1, DoorKeeps DEF Revoke
<1>5. CASE RevokeAll
  <2> DEFINE live == {h \in Grant : Known(h) /\ Live(grants[h])}
             dict == [h \in Grant |-> IF h \in live THEN RevokedNow(grants[h]) ELSE grants[h]]
  <2>1. dict \in [Grant -> Record]
    BY <1>1, RevokedType
  <2>2. Save(dict) /\ toldDead' = toldDead \cup live /\ UNCHANGED <<now, deadline, doorVars>>
    BY <1>5 DEF RevokeAll
  <2>3. GuestTypeOK'
    BY <1>1, <2>1, <2>2, SaveType DEF GuestTypeOK, doorVars
  <2>4. QED
    BY <2>2, <2>3, DoorKeeps
<1>6. CASE Redeem(g) \/ Touch(g)
  <2>1. GuestTypeOK'
    BY <1>1, <1>2, <1>6, UsedType DEF Redeem, Touch, GuestTypeOK, doorVars
  <2>2. QED
    BY <1>6, <2>1, DoorKeeps DEF Redeem, Touch
<1>7. CASE TouchAndDeny(g)
  <2>1. GuestTypeOK'
    BY <1>1, <1>2, <1>7, UsedType DEF TouchAndDeny, GuestTypeOK, doorVars
  <2>2. QED
    BY <1>7, <2>1, DoorKeeps DEF TouchAndDeny
<1>8. QED
  BY <1>3, <1>4, <1>5, <1>6, <1>7

LEMMA FlushKeepsDoor ==
    ASSUME Door, Flush
    PROVE  Door'
<1>1. grants' = grants /\ disk' \in {grants, disk} /\ UNCHANGED <<now, deadline, toldDead, doorVars>>
  BY DEF Flush, Save
<1>2. GuestTypeOK'
  BY <1>1 DEF Door, GuestTypeOK, doorVars
<1>3. QED
  BY <1>1, <1>2, DoorKeeps

\* A session names a grant exactly if it has the guest's role.
Named(s) == s \in Session /\ (s.role = "guest" <=> s.guest \in Grant)

SessionType ==
    /\ cookie \in [Browser -> Session] /\ open \in [Browser -> Session]
    /\ \A b \in Browser : Named(cookie[b]) /\ Named(open[b])
    /\ owners \subseteq Browser

LEMMA NamedSessions == Named(Empty) /\ \A g \in Grant : Named(GuestOf(g))
  BY BrowserAssumption DEF Named, Empty, GuestOf, Session

LEMMA CookieType ==
    ASSUME SessionType, NEW b \in Browser, NEW s, Named(s),
           cookie' = [cookie EXCEPT ![b] = s], UNCHANGED open, owners' \subseteq Browser
    PROVE  SessionType'
  BY DEF SessionType, Named

LEMMA OpenType ==
    ASSUME SessionType, NEW b \in Browser, NEW s, Named(s),
           open' = [open EXCEPT ![b] = s], UNCHANGED <<cookie, owners>>
    PROVE  SessionType'
  BY DEF SessionType, Named

LEMMA SessionTypeKept == SessionType /\ [AccessNext]_accessVars => SessionType'
<1> SUFFICES ASSUME SessionType, [AccessNext]_accessVars PROVE SessionType'
  OBVIOUS
<1>1. owners \subseteq Browser /\ \A b \in Browser : Named(cookie[b]) /\ Named(open[b])
  BY DEF SessionType
<1>2. ASSUME NEW b \in Browser, OwnerSignIn(b) PROVE SessionType'
  <2> DEFINE s == [authenticated |-> TRUE, role |-> cookie[b].role, guest |-> cookie[b].guest]
  <2>1. Named(s)
    BY <1>1 DEF Named, Session
  <2>2. cookie' = [cookie EXCEPT ![b] = s] /\ owners' \subseteq Browser /\ open' = open
    BY <1>1, <1>2 DEF OwnerSignIn
  <2> HIDE DEF s
  <2>3. QED
    BY <2>1, <2>2, CookieType
<1>3. ASSUME NEW b \in Browser, SignOut(b) \/ GuestEnded(b) PROVE SessionType'
  BY <1>1, <1>3, NamedSessions, CookieType DEF SignOut, GuestEnded
<1>4. ASSUME NEW b \in Browser, NEW g \in Grant, GuestSignIn(b, g) PROVE SessionType'
  BY <1>1, <1>4, NamedSessions, CookieType DEF GuestSignIn
<1>5. ASSUME NEW b \in Browser, OwnerRequest(b) \/ GuestRead(b) PROVE SessionType'
  BY <1>1, <1>5, OpenType DEF OwnerRequest, GuestRead
<1>6. ASSUME NEW b \in Browser, Respond(b) PROVE SessionType'
  BY <1>6, NamedSessions DEF Respond, SessionType, Named
<1>7. CASE AccessRestart
  BY <1>7, NamedSessions DEF AccessRestart, SessionType, Named
<1>8. CASE UNCHANGED sessionVars
  BY <1>8 DEF sessionVars, SessionType
<1>9. QED
  BY <1>2, <1>3, <1>4, <1>5, <1>6, <1>7, <1>8
     DEF AccessNext, GuestRefused, GuestDenied, OwnerControl, ClockTick, accessVars

LEMMA DoorKept == Door /\ SessionType /\ [AccessNext]_accessVars => Door'
<1> SUFFICES ASSUME Door, SessionType, [AccessNext]_accessVars PROVE Door'
  OBVIOUS
<1>1. ASSUME NEW b \in Browser, NEW g \in Grant, GuestSignIn(b, g) PROVE Door'
  BY <1>1, GrantKeepsDoor DEF GuestSignIn
<1>2. ASSUME NEW b \in Browser, GuestRead(b) \/ GuestDenied(b) PROVE Door'
  <2>1. cookie[b].guest \in Grant
    BY <1>2 DEF GuestRead, GuestDenied, IsGuest, SessionType, Named
  <2>2. QED
    BY <1>2, <2>1, GrantKeepsDoor DEF GuestRead, GuestDenied
<1>3. CASE UNCHANGED guestVars
  BY <1>3, DoorKeeps DEF guestVars, grantVars, doorVars, Door, GuestTypeOK
<1>4. ASSUME NEW b \in Browser, Respond(b) PROVE Door'
  BY <1>3, <1>4, FlushKeepsDoor DEF Respond
<1>5. CASE OwnerControl
  <2>1. CASE RevokeAll
    <3>1. CASE \E g \in Grant : TRUE
      BY <2>1, <3>1, GrantKeepsDoor
    <3>2. CASE ~\E g \in Grant : TRUE
      BY <2>1, <3>2 DEF RevokeAll
    <3>3. QED
      BY <3>1, <3>2
  <2>2. QED
    BY <1>5, <2>1, GrantKeepsDoor DEF OwnerControl
<1>6. CASE AccessRestart
  BY <1>6, ReloadKeepsDoor DEF AccessRestart
<1>7. CASE ClockTick
  BY <1>7, TickKeepsDoor DEF ClockTick
<1>8. CASE GuestRefused
  BY <1>8, RefuseKeepsDoor DEF GuestRefused
<1>9. QED
  BY <1>1, <1>2, <1>3, <1>4, <1>5, <1>6, <1>7, <1>8
     DEF AccessNext, OwnerSignIn, SignOut, OwnerRequest, GuestEnded, accessVars

LEMMA InitSessionType == AccessInit => SessionType
  BY NamedSessions DEF AccessInit, SessionType, Named

LEMMA DoorHolds == AccessSpec => [](Door /\ SessionType)
  BY DoorInit, InitSessionType, DoorKept, SessionTypeKept, PTL DEF AccessSpec

\* Every variable keeps its type: the failure list never reaches the limit at
\* rest, a session names a grant exactly if it is a guest's, and no counter or
\* clock leaves its range (guest_access.py, auth_mw.py).
THEOREM AccessTypeCorrect == AccessSpec => []AccessTypeOK
<1>1. Door /\ SessionType => AccessTypeOK
  BY DEF Door, SessionType, Named, AccessTypeOK
<1>2. QED
  BY <1>1, DoorHolds, PTL

\* Within one process no window holds more than MaxFailures checked and refused
\* codes, across any number of lockouts, for every limit, window and cooldown
\* no shorter than the window (guest_access.py:29-31; the program's are 300 and
\* 900 seconds).
THEOREM GuessesThrottled ==
    ASSUME FailureWindow =< Lockout
    PROVE  AccessSpec => []GuessesAreThrottled
<1>1. Door => GuessesAreThrottled
  BY DEF Door, Throttled
<1>2. QED
  BY <1>1, DoorHolds, PTL

\* While the guest door is shut nothing a caller does, and no restart, keeps it
\* shut for longer (guest_access.py:291), whatever the parameters.
THEOREM LockoutNeverGrows == AccessSpec => LockoutIsNotExtended
<1> DEFINE Bounded == LockedOut => lockedUntil' =< lockedUntil
           Typed == now \in Nat /\ lockedUntil \in Nat
<1>1. AccessInit => Typed
  BY DEF AccessInit, GuestInit
<1>2. Typed /\ [AccessNext]_accessVars => Typed' /\ Bounded
  <2> SUFFICES ASSUME Typed, [AccessNext]_accessVars PROVE Typed' /\ Bounded
    OBVIOUS
  <2>1. ASSUME UNCHANGED <<now, doorVars>> PROVE Typed' /\ Bounded
    BY <2>1 DEF doorVars
  <2>2. ASSUME NEW b \in Browser, NEW g \in Grant, GuestSignIn(b, g) PROVE Typed' /\ Bounded
    BY <2>1, <2>2 DEF GuestSignIn, Redeem
  <2>3. ASSUME NEW b \in Browser, GuestRead(b) \/ GuestDenied(b) PROVE Typed' /\ Bounded
    BY <2>1, <2>3 DEF GuestRead, GuestDenied, Touch, TouchAndDeny
  <2>4. ASSUME NEW b \in Browser, Respond(b) PROVE Typed' /\ Bounded
    BY <2>1, <2>4 DEF Respond, Flush, guestVars
  <2>5. CASE OwnerControl
    BY <2>1, <2>5 DEF OwnerControl, RevokeAll, Issue, Revoke
  <2>6. CASE AccessRestart
    BY <2>6 DEF AccessRestart, Reload
  <2>7. CASE ClockTick
    BY <2>7 DEF ClockTick, Tick, doorVars
  <2>8. CASE GuestRefused
    BY <2>8, TimesAssumption DEF GuestRefused, Refuse, LockedOut
  <2>9. CASE UNCHANGED guestVars
    BY <2>1, <2>9 DEF guestVars
  <2>10. QED
    BY <2>2, <2>3, <2>4, <2>5, <2>6, <2>7, <2>8, <2>9
       DEF AccessNext, OwnerSignIn, SignOut, OwnerRequest, GuestEnded, accessVars
<1>3. Typed /\ [AccessNext]_accessVars => Typed'
  BY <1>2
<1>4. Typed /\ [AccessNext]_accessVars => [Bounded]_guestVars
  BY <1>2
<1> HIDE DEF Typed, Bounded
<1>5. AccessSpec => [][Bounded]_guestVars
  BY <1>1, <1>3, <1>4, PTL DEF AccessSpec
<1>6. QED
  BY <1>5, PTL DEF Bounded, LockoutIsNotExtended
=============================================================================
