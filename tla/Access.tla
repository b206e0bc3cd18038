------------------------------- MODULE Access -------------------------------
(***************************************************************************)
(* Who may reach what: app/auth_mw.py, the login and guest routes, the      *)
(* control/access page, over the guest store.  The owner's two factors are  *)
(* judged elsewhere (OwnerGate, NativeApp); here a sign-in passes or fails. *)
(*                                                                         *)
(* A session is a signed cookie the browser holds.  A request carries the   *)
(* cookie it was sent with; when its response arrives the browser's cookie  *)
(* becomes the session that request ended with (Starlette rewrites a        *)
(* non-empty session on every response).  At most one slow request per      *)
(* browser is open while the quick ones come and go.                        *)
(***************************************************************************)
EXTENDS GuestStore

CONSTANTS
    Browser,  \* browsers with a cookie jar
    NoGrant   \* no guest_id in the session

ASSUME BrowserAssumption == NoGrant \notin Grant

VARIABLES
    cookie,   \* [Browser -> Session]
    open,     \* [Browser -> Session]: the session of the request being served
    owners    \* history: browsers in which both owner factors were presented

sessionVars == <<cookie, open, owners>>
accessVars == <<guestVars, sessionVars>>

Session ==
    [authenticated : BOOLEAN, role : {"none", "guest"}, guest : Grant \cup {NoGrant}]

Empty == [authenticated |-> FALSE, role |-> "none", guest |-> NoGrant]
GuestOf(g) == [authenticated |-> TRUE, role |-> "guest", guest |-> g]

AccessTypeOK ==
    /\ GuestTypeOK
    /\ cookie \in [Browser -> Session]
    /\ open \in [Browser -> Session]
    /\ owners \subseteq Browser
    /\ \A b \in Browser : \A s \in {cookie[b], open[b]} : s.role = "guest" <=> s.guest \in Grant

AccessInit ==
    /\ GuestInit
    /\ cookie = [b \in Browser |-> Empty]
    /\ open = [b \in Browser |-> Empty]
    /\ owners = {}

-----------------------------------------------------------------------------
(* The doors.                                                              *)

\* POST /login with both factors good: the session's authenticated flag is set
\* and its other keys are left alone.
OwnerSignIn(b) ==
    /\ cookie' = [cookie EXCEPT ![b] =
          [authenticated |-> TRUE, role |-> cookie[b].role, guest |-> cookie[b].guest]]
    /\ owners' = owners \cup {b}
    /\ UNCHANGED <<guestVars, open>>

\* GET /logout or /guest/logout.
SignOut(b) ==
    /\ cookie' = [cookie EXCEPT ![b] = Empty]
    /\ UNCHANGED <<guestVars, open, owners>>

\* POST /guest with the code of g: the session is cleared first.
GuestSignIn(b, g) ==
    /\ Redeem(g)
    /\ cookie' = [cookie EXCEPT ![b] = GuestOf(g)]
    /\ UNCHANGED <<open, owners>>

\* POST /guest with a wrong code or a dead grant's.
GuestRefused ==
    /\ Refuse
    /\ UNCHANGED sessionVars

-----------------------------------------------------------------------------
(* AuthRedirectMiddleware.                                                 *)

IsGuest(session) == session.authenticated /\ session.role = "guest"
IsOwner(session) == session.authenticated /\ session.role # "guest"

\* An owner's request passes, whatever it asks for.
OwnerRequest(b) ==
    /\ IsOwner(cookie[b]) /\ open[b] = Empty
    /\ open' = [open EXCEPT ![b] = cookie[b]]
    /\ UNCHANGED <<guestVars, cookie, owners>>

\* A guest's request for a readable page, with the grant still good: served.
GuestRead(b) ==
    /\ IsGuest(cookie[b]) /\ open[b] = Empty
    /\ Touch(cookie[b].guest)
    /\ open' = [open EXCEPT ![b] = cookie[b]]
    /\ UNCHANGED <<cookie, owners>>

\* A guest's request for anything else: counted, refused, and not flushed.
GuestDenied(b) ==
    /\ IsGuest(cookie[b])
    /\ TouchAndDeny(cookie[b].guest)
    /\ UNCHANGED sessionVars

\* A clean-up that forgets who the guest was but not that it is signed in.
GuestEndedHalfCleared(b) ==
    /\ IsGuest(cookie[b])
    /\ ~Live(grants[cookie[b].guest])
    /\ cookie' = [cookie EXCEPT ![b] = [authenticated |-> TRUE, role |-> "none", guest |-> NoGrant]]
    /\ UNCHANGED <<guestVars, open, owners>>

\* A guest's request once the grant is revoked, expired or gone: the session is
\* cleared.
GuestEnded(b) ==
    /\ IsGuest(cookie[b])
    /\ ~Live(grants[cookie[b].guest])
    /\ cookie' = [cookie EXCEPT ![b] = Empty]
    /\ UNCHANGED <<guestVars, open, owners>>

\* The page is done.  A guest's counters are flushed even if the handler raised
\* or the browser is gone, in which case no cookie arrives.
Respond(b) ==
    /\ open[b] # Empty
    /\ cookie' \in {cookie, [cookie EXCEPT ![b] = open[b]]}
    /\ open' = [open EXCEPT ![b] = Empty]
    /\ IF IsGuest(open[b]) THEN Flush ELSE UNCHANGED guestVars
    /\ UNCHANGED <<owners>>

-----------------------------------------------------------------------------
(* The owner's pages and the process.                                      *)

\* POST /control/access/issue and /revoke, from a browser with the owner's session.
OwnerControl ==
    /\ \E b \in Browser : IsOwner(cookie[b])
    /\ RevokeAll \/ \E g \in Grant : Issue(g) \/ Revoke(g)
    /\ UNCHANGED sessionVars

\* The web process restarts: memory is rebuilt from the files, open requests
\* die, cookies stay where they are.
AccessRestart ==
    /\ Restarts
    /\ Reload
    /\ open' = [b \in Browser |-> Empty]
    /\ UNCHANGED <<cookie, owners>>

ClockTick == Tick /\ UNCHANGED sessionVars

AccessNext ==
    \/ \E b \in Browser :
          \/ OwnerSignIn(b) \/ SignOut(b)
          \/ \E g \in Grant : GuestSignIn(b, g)
          \/ OwnerRequest(b) \/ GuestRead(b) \/ GuestDenied(b) \/ GuestEnded(b)
          \/ Respond(b)
    \/ GuestRefused
    \/ OwnerControl
    \/ AccessRestart
    \/ ClockTick

AccessSpec == AccessInit /\ [][AccessNext]_accessVars

-----------------------------------------------------------------------------
(* Properties.                                                             *)

\* The grant was revoked, as far as the owner knows, or its time is up.
Ended(g) == g \in toldDead \/ deadline[g] =< now

\* A guest's request is only ever let through on a grant whose minted lifetime
\* is not over and that the owner has not been told is revoked - across
\* restarts, purges and other guests' flushes (access.py:160-162).
AnswersOnlyHonoured ==
    [][\A b \in Browser :
          open[b] = Empty /\ IsGuest(open'[b]) => ~Ended(open'[b].guest)]_accessVars

\* A session with the owner's powers was given to a browser in which both
\* factors were presented: no guest code, dead grant, late response or restart
\* makes one (guest_access.py:10-13).
OwnerPowersMeanOwnerSignIn ==
    \A b \in Browser : IsOwner(cookie[b]) \/ IsOwner(open[b]) => b \in owners
=============================================================================
