---------------------------- MODULE ModeControl ----------------------------
(***************************************************************************)
(* app/routes/control.py, the auto-execution mode: a click only queues the   *)
(* change in the engine, which applies it, refuses it, or lets it lapse.     *)
(* The browser's session cookie keeps a note of what was asked, and every    *)
(* load of the page grades that note against what the engine reports just    *)
(* then.  Windows of one browser share the cookie: a visit carries the copy  *)
(* it was sent with, and its response writes its own copy back, however late.*)
(***************************************************************************)
EXTENDS Naturals

CONSTANTS
    Mode,            \* the modes a click can ask for
    Window,          \* windows of one browser, each with one visit under way
    QueueExpiry,     \* the engine drops a queued change after this, in ticks
    ApplyingFor,     \* mode_view: how long silence reads as "applying"
    RequestWindow,   \* MODE_REQUEST_WINDOW_SEC, in ticks
    ResultShown,     \* bound: MODE_RESULT_SHOWN_SEC, shortened
    MaxAsks          \* bound: mode changes asked for

ASSUME ModeAssumption ==
    /\ {QueueExpiry, ApplyingFor, RequestWindow, ResultShown, MaxAsks} \subseteq Nat
    /\ QueueExpiry < RequestWindow
    /\ Mode \cap {"none", "unknown", "control", "elsewhere"} = {}    \* words for no mode

VARIABLES
    build,     \* the engine: queues and reports, applies at once, or queues mutely
    engine,    \* its mode, the mode a tick ago, the queued change, its last refusal
    asks,      \* mode changes asked for so far
    asked,     \* the request under each note: what was asked, how long ago
    note,      \* the cookie's note: the click it is about, NoNote when there is none
    visit      \* each window: at rest, or a visit and the copy of the note it carries

modeVars == <<build, engine, asks, asked, note, visit>>

Click == 1..MaxAsks
NoNote == 0
NoMode == [mode |-> "none", age |-> 0]
NoRefusal == [age |-> 0, after |-> {}, given |-> FALSE]
Page == Mode \cup {"control", "elsewhere"}    \* a click posts to its mode
Aged(entry, limit) == [entry EXCEPT !.age = IF entry.age > limit THEN entry.age ELSE entry.age + 1]
NoView == [state |-> "none", mode |-> "none"]
AtRest(due) == [at |-> "rest", due |-> due]

ModeInit ==
    /\ build \in {"queued", "direct", "mute"}
    /\ \E m \in Mode : engine = [mode |-> m, was |-> m, queue |-> NoMode, last |-> NoRefusal]
    /\ asks = 0 /\ asked = [c \in Click |-> NoMode]
    /\ note = NoNote
    /\ visit = [w \in Window |-> AtRest(FALSE)]

Is(w, at) == visit[w].at = at
Answered(w, copy, view) ==
    visit' = [visit EXCEPT ![w] = [@ EXCEPT !.at = "answered", !.copy = copy, !.view = view]]

------------------------------------------------------------------------------
\* A visit begins: a click, /control, or a page that leaves the session alone.
Visit(w, page) ==
    /\ Is(w, "rest")
    /\ page \in Mode => asks < MaxAsks
    /\ asks' = IF page \in Mode THEN asks + 1 ELSE asks
    /\ visit' = [visit EXCEPT ![w] =
          [at |-> IF page = "elsewhere" THEN "answered" ELSE "sent", page |-> page,
           click |-> IF page \in Mode THEN asks' ELSE NoNote, took |-> note, copy |-> note, view |-> NoView]]
    /\ UNCHANGED <<build, engine, asked, note>>

\* The engine's answer to a click, as the flash is worded from it.
Replies(m) ==
    CASE m \in {engine.mode, engine.queue.mode} -> {"already", "lost"}
      [] m \notin {engine.mode, engine.queue.mode} /\ build = "direct" -> {"set", "refused", "lost"}
      [] OTHER -> {"queued", "refused", "lost"}

\* control_auto_mode: a lost answer may hide a change that was taken.  Only an answer
\* that says "queued" has the rest of the handler do more than respond.
Ask(w) ==
    /\ Is(w, "sent") /\ visit[w].page \in Mode
    /\ \E said \in Replies(visit[w].page), taken \in BOOLEAN :
          /\ said \in {"queued", "set"} => taken
          /\ said \in {"already", "refused"} => ~taken
          /\ visit' = [visit EXCEPT ![w].at = IF said = "queued" THEN "queued" ELSE "answered"]
          /\ engine' = CASE taken /\ build = "direct" -> [engine EXCEPT !.mode = visit[w].page]
                         [] taken /\ build # "direct" ->
                               [engine EXCEPT !.queue = [mode |-> visit[w].page, age |-> 0]]
                         [] OTHER -> engine
    /\ UNCHANGED <<build, asks, asked, note>>

\* The rest of it: the note goes into this response's session, stamped now, by when
\* the engine may have answered already.
Return(w) ==
    /\ Is(w, "queued")
    /\ asked' = [asked EXCEPT ![visit[w].click] = [mode |-> visit[w].page, age |-> 0]]
    /\ Answered(w, visit[w].click, NoView)
    /\ UNCHANGED <<build, engine, asks, note>>

\* The engine, at the end of a writer cycle, or when the queued entry lapses.  Of its
\* last answer only a refusal says more than its mode does.
Apply ==
    /\ engine.queue # NoMode
    /\ engine' = [engine EXCEPT !.mode = engine.queue.mode, !.queue = NoMode, !.last = NoRefusal]
    /\ UNCHANGED <<build, asks, asked, note, visit>>

EngineRefuses ==
    /\ engine.queue # NoMode
    /\ engine' = [engine EXCEPT !.queue = NoMode,
          !.last = [age |-> 0, after |-> {c \in Click : asked[c] # NoMode}, given |-> TRUE]]
    /\ UNCHANGED <<build, asks, asked, note, visit>>

Lapse ==
    /\ engine.queue # NoMode /\ engine.queue.age >= QueueExpiry
    /\ engine' = [engine EXCEPT !.queue = NoMode]
    /\ UNCHANGED <<build, asks, asked, note, visit>>

\* Time passes.  A note nobody holds any more is forgotten (a bound).
Held(c) == note = c \/ \E w \in Window : ~Is(w, "rest") /\ c \in {visit[w].took, visit[w].copy}

ModeTick ==
    /\ engine.queue.age < QueueExpiry
    /\ engine' = [engine EXCEPT !.was = engine.mode, !.queue = IF @ = NoMode THEN NoMode ELSE Aged(@, QueueExpiry),
                                !.last = IF ~@.given \/ @.age = ResultShown THEN NoRefusal ELSE Aged(@, ResultShown)]
    /\ asked' = [c \in Click |-> IF asked[c] = NoMode \/ ~Held(c) THEN NoMode ELSE Aged(asked[c], RequestWindow)]
    /\ UNCHANGED <<build, asks, note, visit>>

------------------------------------------------------------------------------
\* What a load may read: the snapshot of the mode may be a tick old or missing,
\* the command endpoint may be missing, silent, or up to date.
Readings ==
    [auto : {engine.mode, engine.was, "none"},
     cmd : IF build = "mute" THEN {"not_reported", "unreadable"} ELSE {build, "unreadable"}]

ModeRead(r) == IF r.cmd \in {"queued", "direct"} THEN engine.mode ELSE r.auto

Tracking(n) == n # NoNote /\ asked[n].age <= RequestWindow

\* The engine's last answer is on screen while fresh, unless it is older than
\* what this browser asked.
RefusalShown(r, n) ==
    /\ r.cmd \in {"queued", "direct"}
    /\ engine.last.given
    /\ n # NoNote => n \in engine.last.after

Silence(n) == asked[n].age <= ApplyingFor

\* mode_view's state; in the code's order, the first case that holds.
State(r, n) ==
    CASE r.cmd = "queued" /\ engine.queue # NoMode -> "pending"
      [] ~(r.cmd = "queued" /\ engine.queue # NoMode) /\ RefusalShown(r, n) -> "refused"
      [] OTHER ->
            IF ~Tracking(n) \/ ModeRead(r) \in {"none", asked[n].mode} THEN "ok"
            ELSE IF r.cmd # "queued" /\ Silence(n) THEN "applying" ELSE "not_applied"

ModeView(r, n) ==
    [state |-> State(r, n), mode |-> IF ModeRead(r) = "none" THEN "unknown" ELSE ModeRead(r)]

\* Everything but a change the engine still holds counted as settled.
ResolvedEarly(state) == state # "pending"

Resolved(state) == state \in {"ok", "refused", "not_applied"}
Refreshes(state) == state \in {"pending", "applying"}

\* _render, once its awaits are over.
LoadStampingAgain(w) ==
    /\ Is(w, "sent") /\ visit[w].page = "control"
    /\ LET n == visit[w].copy
       IN \E r \in Readings :
             /\ Answered(w, IF Resolved(State(r, n)) THEN NoNote ELSE n, ModeView(r, n))
             /\ asked' = IF n = NoNote THEN asked ELSE [asked EXCEPT ![n].age = 0]
    /\ UNCHANGED <<build, engine, asks, note>>

Load(w) ==
    /\ Is(w, "sent") /\ visit[w].page = "control"
    /\ LET n == visit[w].copy
       IN \E r \in Readings :
             Answered(w, IF Resolved(State(r, n)) THEN NoNote ELSE n, ModeView(r, n))
    /\ UNCHANGED <<build, engine, asks, asked, note>>

\* The response arrives: its session replaces the cookie, last writer wins.  A click's
\* redirect and a row that refreshes itself make the window load /control next.
Arrive(w) ==
    /\ Is(w, "answered")
    /\ note' = visit[w].copy
    /\ visit' = [visit EXCEPT ![w] = AtRest(visit[w].page \in Mode \/ Refreshes(visit[w].view.state))]
    /\ UNCHANGED <<build, engine, asks, asked>>

EngineMoves == Apply \/ EngineRefuses \/ Lapse

Due(w) == Is(w, "rest") /\ visit[w].due
LoadAgain(w) == Due(w) /\ Visit(w, "control")
Served(w) == Ask(w) \/ Return(w) \/ Load(w) \/ Arrive(w)
TimePasses == EngineMoves \/ ModeTick
GoesOn(w) == Served(w) \/ LoadAgain(w)

ModeNext ==
    \/ \E w \in Window : (\E page \in Page : Visit(w, page)) \/ Served(w)
    \/ EngineMoves \/ ModeTick

ModeSpec == ModeInit /\ [][ModeNext]_modeVars

\* Time passes, the engine settles what it queued, visits are served, and the page
\* refreshes itself for as long as the row says so (templates/control.html:350).
ModeFairness ==
    /\ WF_modeVars(TimePasses)
    /\ \A w \in Window : WF_modeVars(GoesOn(w))

------------------------------------------------------------------------------
\* What a row says of a request for a mode: the engine is in it, a refusal, that it
\* did not take, or that the engine's mode could not be read.
Tells(view, mode) == view.mode \in {mode, "unknown"} \/ view.state \in {"refused", "not_applied"}

\* The browser holds on to a request inside its window until a page that says what
\* became of it arrives (control.py:404-408), or a newer click's answer. The one other
\* way to lose it is the cookie's own: a response whose visit was sent before this
\* note was there puts its older copy back.
ForgottenOnlyOnceTold ==
    [][note # NoNote /\ note' # note /\ asked[note].age <= RequestWindow =>
          \E w \in Window :
             /\ Is(w, "answered") /\ Is(w, "rest")'
             /\ \/ Tells(visit[w].view, asked[note].mode)
                \/ visit[w].page \in Mode
                \/ visit[w].took # note]_modeVars

\* Whatever becomes of the change, and whatever copies of the note go round, no window
\* is "switching" for ever (control.py:273-276, templates/control.html:351). The windows
\* are alike, so what holds of any one of them holds of each.
RequestsSettle ==
    LET w == CHOOSE w \in Window : TRUE
    IN Due(w) ~> (Is(w, "rest") /\ ~visit[w].due)
=============================================================================
