------------------------------- MODULE OneShot -------------------------------
(***************************************************************************)
(* The hand-off of something shown once, from the request that made it to    *)
(* the page its redirect loads: a minted guest code (app/routes/access.py)   *)
(* and the result of a diagnostics run (app/routes/diag_console.py).  It     *)
(* waits in process memory under a random key, and the key travels in the    *)
(* session cookie.  Tabs of one browser share the cookie: a request carries  *)
(* a copy of it, and every response writes its own copy back, however late.  *)
(***************************************************************************)
EXTENDS Naturals, FiniteSets

CONSTANTS
    Tab,        \* requests of one browser that may be in flight together
    MaxKeys,    \* bound: keys a behaviour may draw
    ResultsMax  \* _RESULTS_MAX

ASSUME OneShotAssumption == MaxKeys \in Nat /\ ResultsMax \in Nat

FlashKey == 1..MaxKeys
NoKey == 0
Cookie == [code : FlashKey \cup {NoKey}, result : FlashKey \cup {NoKey}]

VARIABLES
    jar,       \* the browser's session: the key of a code, of a result
    request,   \* each tab's request and the copy of the session it carries
    pending,   \* guest_pending_codes: keys of codes not shown yet
    results,   \* _RESULTS: keys of results not shown yet; a later one has a larger key
    drawn,     \* keys drawn so far
    shown      \* history: how often the thing under each key was rendered

oneShotVars == <<jar, request, pending, results, drawn, shown>>

Op == {"mint", "run", "access", "console", "other"}
NoRequest == [at |-> "idle"]
NoCookie == [code |-> NoKey, result |-> NoKey]

OneShotInit ==
    /\ jar = NoCookie
    /\ request = [t \in Tab |-> NoRequest]
    /\ pending = {} /\ results = {}
    /\ drawn = 0 /\ shown = [k \in FlashKey |-> 0]

Open(t, op) ==
    /\ request[t] = NoRequest
    /\ request' = [request EXCEPT ![t] = [at |-> "asked", op |-> op, session |-> jar]]
    /\ UNCHANGED <<jar, pending, results, drawn, shown>>

Asked(t, op) == request[t].at = "asked" /\ request[t].op = op
RespondWith(t, session) ==
    request' = [request EXCEPT ![t] = [at |-> "answered", session |-> session]]

\* access_issue
MintCode(t) ==
    /\ Asked(t, "mint") /\ drawn < MaxKeys
    /\ drawn' = drawn + 1
    /\ pending' = pending \cup {drawn + 1}
    /\ RespondWith(t, [request[t].session EXCEPT !.code = drawn + 1])
    /\ UNCHANGED <<jar, results, shown>>

\* _stash: the oldest results nobody came for make room.
Stash(key) ==
    LET kept == results \cup {key}
    IN {k \in kept : Cardinality({j \in kept : j >= k}) <= ResultsMax}

\* diag_console_run, once the engine has answered.
RunDiagnostic(t) ==
    /\ Asked(t, "run") /\ drawn < MaxKeys
    /\ drawn' = drawn + 1
    /\ results' = Stash(drawn + 1)
    /\ RespondWith(t, [request[t].session EXCEPT !.result = drawn + 1])
    /\ UNCHANGED <<jar, pending, shown>>

\* A code read where it should be taken.
PeekCode(key) == UNCHANGED pending

TakeCode(key) == pending' = pending \ {key}

\* access_page: the flash leaves the session, and the code leaves memory.
ShowCode(t) ==
    /\ Asked(t, "access")
    /\ LET key == request[t].session.code
       IN IF key \in pending
          THEN TakeCode(key) /\ shown' = [shown EXCEPT ![key] = shown[key] + 1]
          ELSE UNCHANGED <<pending, shown>>
    /\ RespondWith(t, [request[t].session EXCEPT !.code = NoKey])
    /\ UNCHANGED <<jar, results, drawn>>

\* diag_console
ShowResult(t) ==
    /\ Asked(t, "console")
    /\ LET key == request[t].session.result
       IN IF key \in results
          THEN /\ results' = results \ {key}
               /\ shown' = [shown EXCEPT ![key] = shown[key] + 1]
          ELSE UNCHANGED <<results, shown>>
    /\ RespondWith(t, [request[t].session EXCEPT !.result = NoKey])
    /\ UNCHANGED <<jar, pending, drawn>>

\* Any other page: the session goes back as it came.
OtherPage(t) ==
    /\ Asked(t, "other")
    /\ RespondWith(t, request[t].session)
    /\ UNCHANGED <<jar, pending, results, drawn, shown>>

\* The response reaches the browser: last writer wins.
Deliver(t) ==
    /\ request[t].at = "answered"
    /\ jar' = request[t].session
    /\ request' = [request EXCEPT ![t] = NoRequest]
    /\ UNCHANGED <<pending, results, drawn, shown>>

\* A deploy: memory is lost, cookies and late responses are not.
RestartWeb ==
    /\ pending \cup results # {}
    /\ pending' = {} /\ results' = {}
    /\ UNCHANGED <<jar, request, drawn, shown>>

OneShotNext ==
    \/ \E t \in Tab :
          \/ \E op \in Op : Open(t, op)
          \/ MintCode(t) \/ RunDiagnostic(t) \/ ShowCode(t) \/ ShowResult(t)
          \/ OtherPage(t) \/ Deliver(t)
    \/ RestartWeb

OneShotSpec == OneShotInit /\ [][OneShotNext]_oneShotVars

RequestType ==
    {NoRequest} \cup [at : {"asked"}, op : Op, session : Cookie]
    \cup [at : {"answered"}, session : Cookie]

OneShotTypeOK ==
    /\ jar \in Cookie
    /\ request \in [Tab -> RequestType]
    /\ pending \subseteq 1..drawn
    /\ results \subseteq 1..drawn
    /\ drawn \in 0..MaxKeys
    /\ shown \in [FlashKey -> Nat]

\* A code, or a result, is rendered at most once, whichever tabs and however late
\* the responses that carry its key (access.py:66-69, diag_console.py:38-40).
ShownOnce == \A k \in FlashKey : shown[k] <= 1
=============================================================================
