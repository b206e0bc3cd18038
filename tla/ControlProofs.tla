---------------------------- MODULE ControlProofs ----------------------------
(***************************************************************************)
(* Proofs about the control pages, for any modes, windows, requests and      *)
(* limits: a mode request is not forgotten before the owner was told what    *)
(* became of it, every change of the engine has its audit line, and a self-  *)
(* test the page calls pending is one the engine has yet to begin.  And, for *)
(* any tabs, number of keys and limit on the results kept, a minted code or  *)
(* a result is rendered at most once.                                        *)
(***************************************************************************)
EXTENDS ModeControl, ControlWrites, OneShot, WellFoundedInduction, TLAPS

\* A note is a click of this browser, or none; a request has a mode and an age.
Note == Click \cup {NoNote}
Request == [mode : Mode, age : Nat]

\* A window is at rest, or its visit carries a page, a click, what it took and its copy.
UnderWay(w) ==
    /\ visit[w].at \in {"sent", "queued", "answered"}
    /\ visit[w] = [at |-> visit[w].at, page |-> visit[w].page, click |-> visit[w].click,
                   took |-> visit[w].took, copy |-> visit[w].copy, view |-> visit[w].view]
    /\ visit[w].page \in Page /\ {visit[w].click, visit[w].took, visit[w].copy} \subseteq Note
    /\ visit[w].at # "answered" => visit[w].copy = visit[w].took
    /\ visit[w].at = "queued" => visit[w].page \in Mode

NoteTypeOK ==
    /\ asks \in Nat /\ note \in Note /\ asked \in [Click -> {NoMode} \cup Request]
    /\ visit = [w \in Window |-> visit[w]]
    /\ \A w \in Window : visit[w].at = "rest" \/ UnderWay(w)

\* A click still on its way has a note of its own, which nobody holds yet.
Unanswered(w) == visit[w].at \in {"sent", "queued"} /\ visit[w].page \in Mode

NotesOK ==
    /\ \A c \in Click : Held(c) => asked[c] # NoMode
    /\ \A c \in Click : c > asks => asked[c] = NoMode
    /\ \A w \in Window : Unanswered(w) =>
          /\ visit[w].click \in Click /\ visit[w].click <= asks /\ asked[visit[w].click] = NoMode
          /\ \A v \in Window \ {w} : Unanswered(v) => visit[v].click # visit[w].click

\* An answered page carries the note on, or tells what became of it.
Graded(w) ==
    visit[w].at = "answered" /\ visit[w].page \notin Mode /\ visit[w].copy # visit[w].took =>
       /\ visit[w].took # NoNote
       /\ \/ asked[visit[w].took].age > RequestWindow
          \/ Tells(visit[w].view, asked[visit[w].took].mode)

Told == NoteTypeOK /\ NotesOK /\ \A w \in Window : Graded(w)

LEMMA NoModeIsNone == NoMode \notin Request /\ "none" \notin Mode /\ NoNote \notin Click
BY ModeAssumption DEF NoMode, Request, NoNote, Click

LEMMA VisitTold == ASSUME Told, NEW w \in Window, NEW page \in Page, Visit(w, page) PROVE Told'
<1> DEFINE new == [at |-> IF page = "elsewhere" THEN "answered" ELSE "sent", page |-> page,
                   click |-> IF page \in Mode THEN asks' ELSE NoNote, took |-> note, copy |-> note,
                   view |-> NoView]
<1>1. /\ visit' = [visit EXCEPT ![w] = new] /\ UNCHANGED <<asked, note>>
      /\ asks' = IF page \in Mode THEN asks + 1 ELSE asks
      /\ visit[w].at = "rest" /\ (page \in Mode => asks < MaxAsks)
  BY DEF Visit, Is
<1>2. /\ new.page = page /\ new.took = note /\ new.copy = note /\ new.view = NoView
      /\ new.click = (IF page \in Mode THEN asks' ELSE NoNote)
      /\ new.at = (IF page = "elsewhere" THEN "answered" ELSE "sent")
      /\ new = [at |-> new.at, page |-> new.page, click |-> new.click, took |-> new.took,
                copy |-> new.copy, view |-> new.view]
  OBVIOUS
<1> HIDE DEF new
<1>3. visit'[w] = new /\ \A v \in Window \ {w} : visit'[v] = visit[v]
  BY <1>1 DEF Told, NoteTypeOK
<1>4. asks \in Nat /\ asks' \in Nat /\ asks <= asks' /\ (page \in Mode => asks' \in Click /\ asks' > asks)
  <2>1. asks \in Nat /\ MaxAsks \in Nat
    BY ModeAssumption DEF Told, NoteTypeOK
  <2>2. CASE page \in Mode
    <3>1. asks' = asks + 1 /\ asks < MaxAsks
      BY <1>1, <2>2
    <3> QED BY <2>1, <3>1 DEF Click
  <2>3. CASE page \notin Mode
    <3>1. asks' = asks
      BY <1>1, <2>3
    <3> QED BY <2>1, <2>3, <3>1
  <2> QED BY <2>2, <2>3
<1>5. UnderWay(w)'
  BY <1>2, <1>3, <1>4 DEF UnderWay, Told, NoteTypeOK, Note
<1>6. NoteTypeOK'
  BY <1>1, <1>3, <1>4, <1>5 DEF Told, NoteTypeOK, UnderWay
<1>7. \A c \in Click : Held(c)' => Held(c)
  BY <1>1, <1>2, <1>3 DEF Held, Is
<1>8. \A v \in Window \ {w} : Unanswered(v)' <=> Unanswered(v)
  BY <1>3 DEF Unanswered
<1>9. Unanswered(w)' => new.click = asks' /\ asks' \in Click /\ asks' > asks
  BY <1>2, <1>3, <1>4 DEF Unanswered
<1>10. ASSUME NEW v \in Window, Unanswered(v)'
       PROVE  /\ visit'[v].click \in Click /\ visit'[v].click <= asks'
              /\ asked'[visit'[v].click] = NoMode
              /\ \A u \in Window \ {v} : Unanswered(u)' => visit'[u].click # visit'[v].click
  <2>1. \A u \in Window \ {w} : Unanswered(u) =>
           visit[u].click \in Click /\ visit[u].click <= asks /\ asked[visit[u].click] = NoMode
    BY DEF Told, NotesOK
  <2>2. CASE v = w
    BY <1>1, <1>3, <1>4, <1>8, <1>9, <1>10, <2>1, <2>2 DEF Told, NotesOK, Click
  <2>3. CASE v # w
    <3>1. Unanswered(v) /\ visit'[v] = visit[v]
      BY <1>3, <1>8, <1>10, <2>3
    <3>2. visit'[v].click \in Click /\ visit'[v].click <= asks /\ asked[visit'[v].click] = NoMode
      BY <2>1, <2>3, <3>1
    <3>3. \A u \in Window \ {v} : Unanswered(u)' => visit'[u].click # visit'[v].click
      <4>1. ASSUME NEW u \in Window \ {v}, Unanswered(u)', u # w
            PROVE  visit'[u].click # visit'[v].click
        <5>1. Unanswered(u) /\ visit'[u] = visit[u]
          BY <1>3, <1>8, <4>1
        <5> QED BY <3>1, <4>1, <5>1 DEF Told, NotesOK
      <4>2. Unanswered(w)' => visit'[w].click # visit'[v].click
        <5>1. visit'[v].click \in Nat /\ visit'[v].click <= asks
          BY <3>2 DEF Click
        <5>2. Unanswered(w)' => visit'[w].click > asks
          BY <1>3, <1>9
        <5> QED BY <1>4, <5>1, <5>2
      <4> QED BY <4>1, <4>2
    <3> QED BY <1>1, <1>4, <3>2, <3>3 DEF Click
  <2> QED BY <2>2, <2>3
<1>11. NotesOK'
  <2>1. \A c \in Click : c > asks' => asked'[c] = NoMode
    BY <1>1, <1>4 DEF Told, NotesOK, Click
  <2> QED BY <1>1, <1>7, <1>10, <2>1 DEF Told, NotesOK
<1>12. \A v \in Window : Graded(v)'
  BY <1>1, <1>2, <1>3 DEF Told, Graded
<1> QED BY <1>6, <1>11, <1>12 DEF Told

\* A visit that moves on keeps what it is about.
LEMMA AskTold == ASSUME Told, NEW w \in Window, Ask(w) PROVE Told'
<1>1. PICK at \in {"queued", "answered"} : visit' = [visit EXCEPT ![w].at = at]
  BY DEF Ask
<1>2. visit[w].at = "sent" /\ visit[w].page \in Mode /\ UNCHANGED <<asks, asked, note>>
  BY DEF Ask, Is
<1>3. /\ visit'[w] = [visit[w] EXCEPT !.at = at] /\ UnderWay(w)
      /\ \A v \in Window \ {w} : visit'[v] = visit[v]
  BY <1>1, <1>2 DEF Told, NoteTypeOK
<1>4. /\ visit'[w].at = at /\ visit'[w].page = visit[w].page /\ visit'[w].click = visit[w].click
      /\ visit'[w].took = visit[w].took /\ visit'[w].copy = visit[w].copy
      /\ UnderWay(w)'
  BY <1>2, <1>3 DEF UnderWay
<1>5. NoteTypeOK'
  BY <1>1, <1>2, <1>3, <1>4 DEF Told, NoteTypeOK, UnderWay
<1>6. \A c \in Click : Held(c)' => Held(c)
  BY <1>2, <1>3, <1>4 DEF Held, Is
<1>7. \A v \in Window : Unanswered(v)' => Unanswered(v) /\ visit'[v].click = visit[v].click
  BY <1>2, <1>3, <1>4 DEF Unanswered
<1>8. NotesOK'
  BY <1>2, <1>6, <1>7 DEF Told, NotesOK
<1>9. \A v \in Window : Graded(v)'
  BY <1>2, <1>3, <1>4 DEF Told, Graded
<1> QED BY <1>5, <1>8, <1>9 DEF Told

LEMMA ReturnTold == ASSUME Told, NEW w \in Window, Return(w) PROVE Told'
<1> DEFINE k == visit[w].click
<1>1. /\ visit[w].at = "queued" /\ UNCHANGED <<asks, note>>
      /\ asked' = [asked EXCEPT ![k] = [mode |-> visit[w].page, age |-> 0]]
      /\ visit' = [visit EXCEPT ![w] = [@ EXCEPT !.at = "answered", !.copy = k, !.view = NoView]]
  BY DEF Return, Is, Answered
<1>2. UnderWay(w) /\ \A v \in Window \ {w} : visit'[v] = visit[v]
  BY <1>1 DEF Told, NoteTypeOK
<1>3. visit'[w] = [visit[w] EXCEPT !.at = "answered", !.copy = k, !.view = NoView]
  BY <1>1 DEF Told, NoteTypeOK
<1>4. /\ visit'[w].at = "answered" /\ visit'[w].page = visit[w].page /\ visit'[w].copy = k
      /\ visit'[w].took = visit[w].took /\ UnderWay(w)'
  BY <1>2, <1>3 DEF UnderWay
<1>5. visit[w].page \in Mode /\ Unanswered(w)
  BY <1>1, <1>2 DEF UnderWay, Unanswered
<1>6. k \in Click /\ k <= asks /\ asked[k] = NoMode
  BY <1>5 DEF Told, NotesOK
<1>7. /\ asked'[k] \in Request /\ asked'[k] # NoMode /\ asked' \in [Click -> {NoMode} \cup Request]
      /\ \A c \in Click : c # k => asked'[c] = asked[c]
  BY <1>1, <1>5, <1>6, NoModeIsNone DEF Told, NoteTypeOK, Request
<1>8. NoteTypeOK'
  BY <1>1, <1>2, <1>4, <1>7 DEF Told, NoteTypeOK, UnderWay
<1>9. \A c \in Click : Held(c)' => Held(c) \/ c = k
  BY <1>1, <1>2, <1>4 DEF Held, Is
<1>10. \A v \in Window : Unanswered(v)' => v # w /\ Unanswered(v) /\ visit'[v] = visit[v]
  BY <1>2, <1>4 DEF Unanswered
<1>11. NotesOK'
  <2>1. \A c \in Click : Held(c)' => asked'[c] # NoMode
    BY <1>7, <1>9 DEF Told, NotesOK
  <2>2. \A c \in Click : c > asks' => asked'[c] = NoMode
    BY <1>1, <1>6, <1>7 DEF Told, NotesOK, NoteTypeOK, Click
  <2>3. \A v \in Window : Unanswered(v)' =>
           /\ visit'[v].click \in Click /\ visit'[v].click <= asks'
           /\ asked'[visit'[v].click] = NoMode
    BY <1>1, <1>5, <1>7, <1>10 DEF Told, NotesOK
  <2> QED BY <1>10, <2>1, <2>2, <2>3 DEF Told, NotesOK
<1>12. ASSUME NEW v \in Window PROVE Graded(v)'
  <2>1. CASE v = w
    BY <1>4, <1>5, <2>1 DEF Graded
  <2>2. CASE v # w
    <3>1. visit[v].at = "answered" /\ visit[v].took # NoNote => visit[v].took \in Click /\ Held(visit[v].took)
      BY DEF Held, Is, Told, NoteTypeOK, UnderWay, Note
    <3>2. visit[v].at = "answered" /\ visit[v].took # NoNote => asked'[visit[v].took] = asked[visit[v].took]
      BY <1>6, <1>7, <3>1 DEF Told, NotesOK
    <3> QED BY <1>2, <2>2, <3>2 DEF Told, Graded
  <2> QED BY <2>1, <2>2
<1> QED BY <1>8, <1>11, <1>12 DEF Told

\* A load carries the note on, or puts what became of it on the page.
LEMMA LoadTold == ASSUME Told, NEW w \in Window, Load(w) PROVE Told'
<1> DEFINE n == visit[w].copy
<1>1. PICK r \in Readings :
         visit' = [visit EXCEPT ![w] =
            [@ EXCEPT !.at = "answered", !.copy = IF Resolved(State(r, n)) THEN NoNote ELSE n,
                      !.view = ModeView(r, n)]]
  BY DEF Load, Answered
<1>2. /\ visit[w].at = "sent" /\ visit[w].page = "control" /\ UNCHANGED <<asks, asked, note>>
      /\ "control" \notin Mode
  BY ModeAssumption DEF Load, Is
<1>3. /\ UnderWay(w) /\ visit[w].took = n
      /\ \A v \in Window \ {w} : visit'[v] = visit[v]
  BY <1>1, <1>2 DEF Told, NoteTypeOK, UnderWay
<1>4. ASSUME NEW copy \in {n, NoNote}, NEW view,
             visit' = [visit EXCEPT ![w] = [@ EXCEPT !.at = "answered", !.copy = copy, !.view = view]]
      PROVE  /\ visit'[w].at = "answered" /\ visit'[w].page = "control" /\ visit'[w].took = n
             /\ visit'[w].copy = copy /\ visit'[w].view = view /\ UnderWay(w)'
  <2>1. visit'[w] = [visit[w] EXCEPT !.at = "answered", !.copy = copy, !.view = view]
    BY <1>4 DEF Told, NoteTypeOK
  <2>2. visit[w] = [at |-> visit[w].at, page |-> visit[w].page, click |-> visit[w].click,
                    took |-> visit[w].took, copy |-> visit[w].copy, view |-> visit[w].view]
    BY <1>3 DEF UnderWay
  <2>3. /\ visit'[w].at = "answered" /\ visit'[w].page = visit[w].page
        /\ visit'[w].click = visit[w].click /\ visit'[w].took = visit[w].took
        /\ visit'[w].copy = copy /\ visit'[w].view = view
        /\ visit'[w] = [at |-> visit'[w].at, page |-> visit'[w].page, click |-> visit'[w].click,
                        took |-> visit'[w].took, copy |-> visit'[w].copy, view |-> visit'[w].view]
    BY <2>1, <2>2
  <2>4. {visit[w].click, visit[w].took, copy} \subseteq Note /\ visit[w].page \in Page
    BY <1>3 DEF UnderWay, Note
  <2> QED BY <1>2, <1>3, <2>3, <2>4 DEF UnderWay
<1>5. /\ visit'[w].at = "answered" /\ visit'[w].page = "control" /\ visit'[w].took = n
      /\ visit'[w].copy = (IF Resolved(State(r, n)) THEN NoNote ELSE n)
      /\ visit'[w].view = ModeView(r, n) /\ UnderWay(w)'
  <2> DEFINE copy == IF Resolved(State(r, n)) THEN NoNote ELSE n
  <2>1. copy \in {n, NoNote}
    OBVIOUS
  <2>2. visit' = [visit EXCEPT ![w] = [@ EXCEPT !.at = "answered", !.copy = copy, !.view = ModeView(r, n)]]
    BY <1>1
  <2> HIDE DEF copy
  <2>3. /\ visit'[w].at = "answered" /\ visit'[w].page = "control" /\ visit'[w].took = n
        /\ visit'[w].copy = copy /\ visit'[w].view = ModeView(r, n) /\ UnderWay(w)'
    BY <1>4, <2>1, <2>2
  <2> QED BY <2>3 DEF copy
<1>6. NoteTypeOK'
  BY <1>1, <1>2, <1>3, <1>5 DEF Told, NoteTypeOK, UnderWay
<1>7. \A c \in Click : Held(c)' => Held(c)
  BY <1>2, <1>3, <1>5, NoModeIsNone DEF Held, Is
<1>8. \A v \in Window : Unanswered(v)' => v # w /\ Unanswered(v) /\ visit'[v] = visit[v]
  BY <1>3, <1>5 DEF Unanswered
<1>9. NotesOK'
  BY <1>2, <1>7, <1>8 DEF Told, NotesOK
<1>10. ASSUME NEW v \in Window PROVE Graded(v)'
  <2>1. CASE v # w
    BY <1>2, <1>3, <2>1 DEF Told, Graded
  <2>2. CASE v = w /\ visit'[w].copy # n
    <3>1. Resolved(State(r, n)) /\ n # NoNote
      BY <1>5, <2>2
    <3>2. n \in Click
      BY <1>3, <3>1 DEF UnderWay, Note
    <3>3. asked[n] \in {NoMode} \cup Request /\ asked[n].age \in Nat
      BY <3>2 DEF Told, NoteTypeOK, NoMode, Request
    <3>4. Tracking(n) \/ asked[n].age > RequestWindow
      BY <3>1, <3>3, ModeAssumption DEF Tracking
    <3>5. State(r, n) = "ok" => ~Tracking(n) \/ ModeRead(r) \in {"none", asked[n].mode}
      BY DEF State
    <3>6. /\ ModeView(r, n).state = State(r, n)
          /\ ModeView(r, n).mode = IF ModeRead(r) = "none" THEN "unknown" ELSE ModeRead(r)
      BY DEF ModeView
    <3>7. asked[n].age > RequestWindow \/ Tells(ModeView(r, n), asked[n].mode)
      BY <3>1, <3>4, <3>5, <3>6 DEF Resolved, Tells
    <3> QED BY <1>2, <1>5, <2>2, <3>1, <3>7 DEF Graded
  <2>3. CASE v = w /\ visit'[w].copy = n
    BY <1>5, <2>3 DEF Graded
  <2> QED BY <2>1, <2>2, <2>3
<1> QED BY <1>6, <1>9, <1>10 DEF Told

LEMMA ArriveTold == ASSUME Told, NEW w \in Window, Arrive(w) PROVE Told'
<1>1. PICK due : visit' = [visit EXCEPT ![w] = AtRest(due)]
  BY DEF Arrive
<1>2. /\ visit[w].at = "answered" /\ note' = visit[w].copy /\ UNCHANGED <<asks, asked>>
      /\ UnderWay(w)
  BY DEF Arrive, Is, Told, NoteTypeOK
<1>3. visit'[w].at = "rest" /\ \A v \in Window \ {w} : visit'[v] = visit[v]
  BY <1>1 DEF Told, NoteTypeOK, AtRest
<1>4. NoteTypeOK'
  BY <1>1, <1>2, <1>3 DEF Told, NoteTypeOK, UnderWay
<1>5. \A c \in Click : Held(c)' => Held(c)
  BY <1>2, <1>3 DEF Held, Is
<1>6. \A v \in Window : Unanswered(v)' => v # w /\ Unanswered(v) /\ visit'[v] = visit[v]
  BY <1>3 DEF Unanswered
<1>7. NotesOK'
  BY <1>2, <1>5, <1>6 DEF Told, NotesOK
<1>8. \A v \in Window : Graded(v)'
  BY <1>2, <1>3 DEF Told, Graded
<1> QED BY <1>4, <1>7, <1>8 DEF Told

\* A request somebody holds a note of keeps its mode, and does not get younger.
LEMMA TickTold == ASSUME Told, ModeTick PROVE Told'
<1>1. /\ UNCHANGED <<asks, note, visit>>
      /\ asked' = [c \in Click |-> IF asked[c] = NoMode \/ ~Held(c) THEN NoMode
                                   ELSE Aged(asked[c], RequestWindow)]
  BY DEF ModeTick
<1>2. \A c \in Click : Held(c)' <=> Held(c)
  BY <1>1 DEF Held, Is
<1>3. ASSUME NEW c \in Click, asked[c] # NoMode, Held(c)
      PROVE  /\ asked'[c] \in Request /\ asked'[c].mode = asked[c].mode
             /\ asked'[c].age \in Nat /\ asked'[c].age >= asked[c].age
  <2>1. asked[c] \in Request /\ asked'[c] = Aged(asked[c], RequestWindow)
    BY <1>1, <1>3 DEF Told, NoteTypeOK
  <2>2. PICK age \in Nat : age >= asked[c].age /\ Aged(asked[c], RequestWindow) = [asked[c] EXCEPT !.age = age]
    BY <2>1 DEF Aged, Request
  <2> QED BY <2>1, <2>2 DEF Request
<1>4. asked' \in [Click -> {NoMode} \cup Request]
  BY <1>1, <1>3
<1>5. NoteTypeOK'
  BY <1>1, <1>4 DEF Told, NoteTypeOK, UnderWay
<1>6. \A c \in Click : asked[c] = NoMode => asked'[c] = NoMode
  BY <1>1
<1>7. \A c \in Click : Held(c)' => asked'[c] # NoMode
  BY <1>2, <1>3, NoModeIsNone DEF Told, NotesOK
<1>8. NotesOK'
  BY <1>1, <1>6, <1>7 DEF Told, NotesOK, Unanswered
<1>9. ASSUME NEW v \in Window PROVE Graded(v)'
  <2>1. SUFFICES ASSUME visit[v].at = "answered", visit[v].page \notin Mode, visit[v].copy # visit[v].took
        PROVE  /\ visit[v].took # NoNote
               /\ \/ asked'[visit[v].took].age > RequestWindow
                  \/ Tells(visit[v].view, asked'[visit[v].took].mode)
    BY <1>1 DEF Graded
  <2>2. visit[v].took \in Click /\ Held(visit[v].took)
    BY <2>1 DEF Held, Is, Told, Graded, NoteTypeOK, UnderWay, Note
  <2>3. /\ asked'[visit[v].took].mode = asked[visit[v].took].mode
        /\ asked[visit[v].took].age \in Nat /\ asked'[visit[v].took].age \in Nat
        /\ asked'[visit[v].took].age >= asked[visit[v].took].age
    <3>1. asked[visit[v].took] # NoMode /\ asked[visit[v].took] \in Request
      BY <2>2 DEF Told, NotesOK, NoteTypeOK
    <3> QED BY <1>3, <2>2, <3>1 DEF Request
  <2>4. \/ asked[visit[v].took].age > RequestWindow
        \/ Tells(visit[v].view, asked[visit[v].took].mode)
    BY <2>1 DEF Told, Graded
  <2> QED BY <2>1, <2>2, <2>3, <2>4, NoModeIsNone, ModeAssumption
<1> QED BY <1>5, <1>8, <1>9 DEF Told

LEMMA ToldKept == Told /\ [ModeNext]_modeVars => Told'
<1> SUFFICES ASSUME Told, [ModeNext]_modeVars PROVE Told'
  OBVIOUS
<1>1. CASE UNCHANGED <<asks, asked, note, visit>>
  BY <1>1 DEF Told, NoteTypeOK, NotesOK, Graded, UnderWay, Unanswered, Held, Is
<1>2. ASSUME NEW w \in Window, Served(w) PROVE Told'
  BY <1>2, AskTold, ReturnTold, LoadTold, ArriveTold DEF Served
<1> QED
  BY <1>1, <1>2, VisitTold, TickTold DEF ModeNext, EngineMoves, Apply, EngineRefuses, Lapse, modeVars

\* Only a response that arrives replaces the cookie's note.
LEMMA OnlyArrivalsReplace ==
    ASSUME [ModeNext]_modeVars, note' # note
    PROVE  \E w \in Window : Arrive(w)
BY DEF ModeNext, Served, Visit, Ask, Return, Answered, Load, ModeTick, EngineMoves, Apply,
       EngineRefuses, Lapse, modeVars

\* For any windows that share the cookie, in any order of their responses: a request
\* inside its window is let go of only by a page that says what became of it, by a
\* newer click, or by a response sent before the note was there (control.py:404-408).
THEOREM ForgottenIsTold == ModeSpec => ForgottenOnlyOnceTold
<1> DEFINE Forgotten == note # NoNote /\ note' # note /\ asked[note].age <= RequestWindow
           Excused == \E w \in Window :
              /\ Is(w, "answered") /\ Is(w, "rest")'
              /\ \/ Tells(visit[w].view, asked[note].mode)
                 \/ visit[w].page \in Mode
                 \/ visit[w].took # note
<1>1. ModeInit => Told
  <2> SUFFICES ASSUME ModeInit PROVE Told
    OBVIOUS
  <2>1. /\ asks = 0 /\ note = NoNote /\ asked = [c \in Click |-> NoMode]
        /\ visit = [w \in Window |-> AtRest(FALSE)]
    BY DEF ModeInit
  <2>2. \A w \in Window : visit[w].at = "rest"
    BY <2>1 DEF AtRest
  <2>3. \A c \in Click : ~Held(c)
    BY <2>1, <2>2, NoModeIsNone DEF Held, Is
  <2> QED BY <2>1, <2>2, <2>3 DEF Told, NoteTypeOK, NotesOK, Unanswered, Graded, Note
<1>2. ASSUME Told, [ModeNext]_modeVars, Forgotten PROVE Excused
  <2>1. PICK w \in Window : Arrive(w)
    BY <1>2, OnlyArrivalsReplace
  <2>2. /\ visit[w].at = "answered" /\ note' = visit[w].copy
        /\ Is(w, "answered") /\ Is(w, "rest")'
    BY <1>2, <2>1 DEF Arrive, Is, AtRest, Told, NoteTypeOK
  <2>3. CASE visit[w].took = note /\ visit[w].page \notin Mode
    <3>1. Graded(w) /\ visit[w].copy # visit[w].took
      BY <1>2, <2>2, <2>3 DEF Told
    <3>2. ~(asked[note].age > RequestWindow)
      <4>1. note \in Click /\ asked[note].age \in Nat
        BY <1>2 DEF Told, NoteTypeOK, Note, NoMode, Request
      <4> QED BY <1>2, <4>1, ModeAssumption
    <3> QED BY <2>2, <2>3, <3>1, <3>2 DEF Graded
  <2> QED BY <2>2, <2>3
<1>3. Told /\ [ModeNext]_modeVars => [Forgotten => Excused]_modeVars
  BY <1>2
<1> QED BY <1>1, <1>3, ToldKept, PTL DEF ModeSpec, ForgottenOnlyOnceTold

------------------------------------------------------------------------------
\* The log holds lines, and every request stands somewhere.
LoggedKind == {"self_test", "coin", "other"}
Said == {"ok", "error", "raised", "refused here"}
Line == [kind : LoggedKind, ok : BOOLEAN, at : Int, by : Caller]
SentCall == [at : {"sent", "told"}, kind : LoggedKind, when : Int, said : Said]
WritesOK ==
    /\ log \in Seq(Line) /\ clock \in Int /\ changed \subseteq Caller
    /\ call \in [Caller -> {NoCall} \cup SentCall]

LEMMA RowTypes == ASSUME NEW kind PROVE Row(kind) \in LoggedKind
BY DEF Row, LoggedKind

LEMMA OutcomeTypes ==
    ASSUME NEW kind, NEW ticked \in BOOLEAN, NEW out \in Outcomes(kind, ticked)
    PROVE  out.said \in Said
<1>1. ASSUME NEW o \in Post \cup {Not("ok"), Not("refused here")}
      PROVE  o.said \in Said
  <2>1. \A said : Took(said).said = said /\ Not(said).said = said
    BY DEF Took, Not
  <2>2. \E said \in Said : o = Took(said) \/ o = Not(said)
    BY <1>1 DEF Post, Said
  <2> QED BY <2>1, <2>2
<1>2. out \in Post \cup {Not("ok"), Not("refused here")}
  BY DEF Outcomes, KillSwitch, Toggle, Tunables, ResetSignals, CloseSignal, AppWrite, SelfTest,
         CoinSwitch, CoinAccess
<1> QED BY <1>1, <1>2

LEMMA SendTypes ==
    ASSUME WritesOK, NEW c \in Caller, Send(c)
    PROVE  WritesOK' /\ changed' \subseteq changed \cup {c} /\ call'[c].at = "sent"
           /\ \A d \in Caller : d # c => call'[d] = call[d]
<1>1. PICK kind \in Kind, ticked \in BOOLEAN : \E out \in Outcomes(kind, ticked) :
         /\ call' = [call EXCEPT ![c] = [at |-> "sent", kind |-> Row(kind), when |-> clock,
                                        said |-> out.said]]
         /\ changed' = IF out.took THEN changed \cup {c} ELSE changed
  BY DEF Send
<1>2. PICK out \in Outcomes(kind, ticked) :
         /\ call' = [call EXCEPT ![c] = [at |-> "sent", kind |-> Row(kind), when |-> clock,
                                        said |-> out.said]]
         /\ changed' \subseteq changed \cup {c}
  BY <1>1
<1>3. [at |-> "sent", kind |-> Row(kind), when |-> clock, said |-> out.said] \in SentCall
  BY RowTypes, OutcomeTypes DEF SentCall, WritesOK
<1>4. call' \in [Caller -> {NoCall} \cup SentCall]
  BY <1>2, <1>3 DEF WritesOK
<1>5. call'[c].at = "sent" /\ \A d \in Caller : d # c => call'[d] = call[d]
  BY <1>2 DEF WritesOK
<1> QED BY <1>2, <1>4, <1>5 DEF Send, WritesOK

\* The line of an answered request is the last of the log.
LEMMA RecordAppends ==
    ASSUME WritesOK, NEW c \in Caller, NEW ok \in BOOLEAN, call[c].at = "sent", Audit(c, ok)
    PROVE  /\ log' \in Seq(Line) /\ Len(log') = Len(log) + 1 /\ log'[Len(log) + 1].by = c
           /\ \A i \in DOMAIN log : i \in DOMAIN log' /\ log'[i] = log[i]
<1>1. call[c] \in SentCall
  BY DEF WritesOK, NoCall
<1>2. [kind |-> call[c].kind, ok |-> ok, at |-> clock, by |-> c] \in Line
  BY <1>1 DEF SentCall, Line, WritesOK
<1> QED BY <1>2 DEF Audit, WritesOK

LEMMA WritesKept ==
    ASSUME WritesOK, EveryChangeIsLogged, [WritesNext]_writesVars
    PROVE  WritesOK' /\ EveryChangeIsLogged'
<1>1. ASSUME NEW c \in Caller, Send(c)
      PROVE  WritesOK' /\ EveryChangeIsLogged'
  BY <1>1, SendTypes DEF Send, EveryChangeIsLogged, WritesOK
<1>2. ASSUME NEW c \in Caller, Answer(c)
      PROVE  WritesOK' /\ EveryChangeIsLogged'
  <2>1. call' \in [Caller -> {NoCall} \cup SentCall] /\ \A d \in Caller : d # c => call'[d] = call[d]
    BY <1>2 DEF Answer, WritesOK, SentCall, NoCall
  <2>2. CASE Audit(c, call[c].said = "ok") /\ missed' = missed
    <3>1. /\ log' \in Seq(Line) /\ Len(log') = Len(log) + 1 /\ log'[Len(log) + 1].by = c
          /\ \A i \in DOMAIN log : i \in DOMAIN log' /\ log'[i] = log[i]
      BY <1>2, <2>2, RecordAppends DEF Answer
    <3>2. Len(log) + 1 \in DOMAIN log'
      BY <3>1 DEF WritesOK
    <3>3. EveryChangeIsLogged'
      BY <1>2, <2>1, <2>2, <3>1, <3>2 DEF EveryChangeIsLogged, Answer, WritesOK
    <3> QED BY <1>2, <2>1, <3>1, <3>3 DEF Answer, WritesOK
  <2>3. CASE log' = log /\ missed' = missed \cup {c}
    BY <1>2, <2>1, <2>3 DEF EveryChangeIsLogged, Answer, WritesOK
  <2> QED BY <1>2, <2>2, <2>3 DEF Answer
<1>3. ASSUME NEW c \in Caller, Raise(c)
      PROVE  WritesOK' /\ EveryChangeIsLogged'
  <2>1. call' \in [Caller -> {NoCall} \cup SentCall] /\ \A d \in Caller : d # c => call'[d] = call[d]
    BY <1>3 DEF Raise, WritesOK, SentCall, NoCall
  <2> QED BY <1>3, <2>1 DEF EveryChangeIsLogged, Raise, WritesOK
<1>4. CASE Die
  <2>1. \A d \in Caller : IF call[d].at = "sent" THEN call'[d] = [call[d] EXCEPT !.at = "told"]
                         ELSE call'[d] = call[d]
    BY <1>4 DEF Die
  <2>2. ASSUME NEW d \in Caller PROVE call'[d] \in {NoCall} \cup SentCall
    <3>1. CASE call[d].at = "sent"
      <4>1. call[d] \in SentCall
        BY <3>1 DEF WritesOK, NoCall
      <4>2. [call[d] EXCEPT !.at = "told"] \in SentCall
        BY <4>1 DEF SentCall
      <4> QED BY <2>1, <3>1, <4>2
    <3>2. CASE call[d].at # "sent"
      BY <2>1, <3>2 DEF WritesOK
    <3> QED BY <3>1, <3>2
  <2>3. call' \in [Caller -> {NoCall} \cup SentCall]
    BY <1>4, <2>2 DEF Die
  <2>4. \A d \in Caller : call[d].at = "sent" => d \in missed'
    BY <1>4 DEF Die
  <2>5. missed \subseteq missed' /\ log' = log /\ changed' = changed /\ clock' = clock
    BY <1>4 DEF Die
  <2>6. EveryChangeIsLogged'
    BY <2>4, <2>5 DEF EveryChangeIsLogged, WritesOK
  <2> QED BY <2>3, <2>5, <2>6 DEF WritesOK
<1>5. CASE ClockTicks
  BY <1>5 DEF ClockTicks, EveryChangeIsLogged, WritesOK
<1>6. CASE UNCHANGED <<clock, call, log, missed, changed>>
  BY <1>6 DEF EveryChangeIsLogged, WritesOK
<1> QED BY <1>1, <1>2, <1>3, <1>4, <1>5, <1>6 DEF WritesNext, BeginSelfTest, writesVars

\* A write that changed the engine has its line by the time its caller is answered,
\* unless the line itself could not be kept (audit.py:3-8).
THEOREM ChangesAreLogged == WritesSpec => []EveryChangeIsLogged
<1>1. WritesInit => WritesOK /\ EveryChangeIsLogged
  BY DEF WritesInit, WritesOK, EveryChangeIsLogged
<1>2. WritesOK /\ EveryChangeIsLogged /\ [WritesNext]_writesVars
        => WritesOK' /\ EveryChangeIsLogged'
  BY WritesKept
<1> QED BY <1>1, <1>2, PTL DEF WritesSpec

------------------------------------------------------------------------------
\* A self-test whose post the engine took and answered.
Accepted(c) == call[c].kind = "self_test" /\ call[c].said = "ok"

\* An accepted self-test is queued until it begins, and a report is stamped with that
\* moment.
Owed ==
    /\ report \in Int /\ report <= clock /\ clock \in Nat
    /\ \A c \in Caller : call[c].when \in Nat /\ call[c].when <= clock
    /\ \A c \in Caller : Accepted(c) => c \in queued \/ report >= call[c].when
    /\ \A i \in DOMAIN log : log[i].kind = "self_test" /\ log[i].ok => Accepted(log[i].by)

\* Among finitely many lines that are not none there is a newest.
LEMMA HasLargest ==
    ASSUME NEW n \in Nat, NEW S \in SUBSET (1..n), S # {}
    PROVE  \E i \in S : \A j \in S : j <= i
<1> DEFINE T == {n - i : i \in S}
           Less == OpToRel(<, Nat)
<1>1. T \subseteq Nat /\ T # {}
  <2>1. \A i \in S : n - i \in Nat
    OBVIOUS
  <2>2. PICK i \in S : TRUE
    OBVIOUS
  <2>3. n - i \in T
    OBVIOUS
  <2> QED BY <2>1, <2>3
<1>2. IsWellFoundedOn(Less, Nat)
  BY NatLessThanWellFounded
<1>3. \A x, y \in Nat : <<y, x>> \in Less <=> y < x
  BY DEF OpToRel
<1> HIDE DEF Less
<1>4. PICK k \in T : \A m \in T : ~(<<m, k>> \in Less)
  <2> HIDE DEF T
  <2> QED BY <1>1, <1>2, WFMin
<1>5. PICK i \in S : k = n - i
  BY <1>4
<1>6. ASSUME NEW j \in S PROVE j <= i
  <2>1. n - j \in T
    OBVIOUS
  <2>2. ~(n - j < k)
    BY <1>1, <1>3, <1>4, <2>1
  <2>3. k \in Nat /\ n \in Nat /\ i \in Nat /\ j \in Nat
    BY <1>1, <1>4
  <2> QED BY <1>5, <2>2, <2>3
<1> QED BY <1>6

LEMMA LineTypes ==
    ASSUME WritesOK, NEW i \in DOMAIN log
    PROVE  log[i] \in Line
<1>1. log \in Seq(Line)
  BY DEF WritesOK
<1> QED BY <1>1

\* What a request is about does not change once it is sent.
Standing(c) ==
    /\ call'[c].kind = call[c].kind /\ call'[c].when = call[c].when /\ call'[c].said = call[c].said
    /\ call'[c].at = "sent" => call[c].at = "sent"

LEMMA AcceptedIsQueued ==
    ASSUME NEW kind \in Kind, NEW ticked \in BOOLEAN, NEW out \in Outcomes(kind, ticked),
           Row(kind) = "self_test", out.said = "ok"
    PROVE  kind = "self_test" /\ out.took
<1>1. kind = "self_test"
  BY DEF Row, CoinDcx
<1>2. \A said : Took(said).said = said /\ Not(said).said = said /\ Took(said).took = TRUE
  BY DEF Took, Not
<1>3. out \in Post \cup {Not("refused here")}
  BY <1>1 DEF Outcomes, SelfTest
<1>4. out = Took("ok")
  <2>1. out \in {Took("ok"), Not("error"), Took("error"), Took("raised"), Not("refused here")}
    BY <1>3 DEF Post
  <2>2. /\ Not("error").said # "ok" /\ Took("error").said # "ok"
        /\ Took("raised").said # "ok" /\ Not("refused here").said # "ok"
    BY DEF Took, Not
  <2> QED BY <2>1, <2>2
<1> QED BY <1>1, <1>2, <1>4

LEMMA SendOwes == ASSUME WritesOK, Owed, NEW c \in Caller, Send(c) PROVE Owed'
<1>1. PICK kind \in Kind, ticked \in BOOLEAN : \E out \in Outcomes(kind, ticked) :
         /\ call' = [call EXCEPT ![c] = [at |-> "sent", kind |-> Row(kind), when |-> clock,
                                        said |-> out.said]]
         /\ queued' = IF out.took /\ kind = "self_test" THEN queued \cup {c} ELSE queued
  BY DEF Send
<1>2. PICK out \in Outcomes(kind, ticked) :
         /\ call' = [call EXCEPT ![c] = [at |-> "sent", kind |-> Row(kind), when |-> clock,
                                        said |-> out.said]]
         /\ queued' = IF out.took /\ kind = "self_test" THEN queued \cup {c} ELSE queued
  BY <1>1
<1>3. call'[c] = [at |-> "sent", kind |-> Row(kind), when |-> clock, said |-> out.said]
  BY <1>2 DEF WritesOK
<1>4. /\ \A d \in Caller : d # c => call'[d] = call[d]
      /\ queued \subseteq queued' /\ clock' = clock /\ log' = log /\ report' = report
  BY <1>2 DEF Send, WritesOK
<1>5. Accepted(c)' => c \in queued'
  BY <1>2, <1>3, AcceptedIsQueued DEF Accepted
<1>6. ~Accepted(c)
  BY DEF Send, WritesOK, SentCall, NoCall, Accepted
<1>7. \A i \in DOMAIN log : log[i].by \in Caller
  BY LineTypes DEF Line
<1>8. \A i \in DOMAIN log : log[i].kind = "self_test" /\ log[i].ok =>
         log[i].by # c /\ Accepted(log[i].by)
  BY <1>6 DEF Owed
<1>9. \A i \in DOMAIN log' : log'[i].kind = "self_test" /\ log'[i].ok =>
         Accepted(log[i].by)'
  BY <1>4, <1>7, <1>8 DEF Accepted
<1>10. \A d \in Caller : Accepted(d)' => d \in queued' \/ report' >= call'[d].when
  BY <1>4, <1>5 DEF Owed, Accepted
<1>11. \A d \in Caller : call'[d].when \in Nat /\ call'[d].when <= clock'
  BY <1>3, <1>4 DEF Owed
<1> QED BY <1>4, <1>9, <1>10, <1>11 DEF Owed

LEMMA StandingOwes ==
    ASSUME WritesOK, Owed, \A c \in Caller : Standing(c),
           UNCHANGED <<clock, report, queued>>,
           \A i \in DOMAIN log' :
              \/ i \in DOMAIN log /\ log'[i] = log[i]
              \/ \E c \in Caller : /\ call[c].at = "sent" /\ log'[i].kind = call[c].kind
                                   /\ log'[i].ok <=> call[c].said = "ok"
                                   /\ log'[i].at = clock /\ log'[i].by = c
    PROVE  Owed'
<1>1. \A c \in Caller : Accepted(c)' <=> Accepted(c)
  BY DEF Accepted, Standing
<1>2. ASSUME NEW i \in DOMAIN log', log'[i].kind = "self_test", log'[i].ok
      PROVE  Accepted(log[i].by)'
  <2>1. CASE i \in DOMAIN log /\ log'[i] = log[i]
    <3>1. log[i].by \in Caller
      BY <2>1, LineTypes DEF Line
    <3> QED BY <1>1, <1>2, <2>1, <3>1 DEF Owed, Standing
  <2>2. ASSUME NEW c \in Caller, call[c].at = "sent", log'[i].kind = call[c].kind,
               log'[i].ok <=> call[c].said = "ok", log'[i].at = clock, log'[i].by = c
        PROVE  Accepted(log[i].by)'
    <3>1. Accepted(c)
      BY <1>2, <2>2 DEF Accepted
    <3> QED BY <1>1, <2>2, <3>1
  <2> QED BY <2>1, <2>2
<1>3. \A c \in Caller : /\ call'[c].when \in Nat /\ call'[c].when <= clock'
                        /\ Accepted(c)' => c \in queued' \/ report' >= call'[c].when
  BY <1>1 DEF Owed, Standing
<1> QED BY <1>2, <1>3 DEF Owed

LEMMA OwedKept == ASSUME WritesOK, Owed, [WritesNext]_writesVars PROVE Owed'
<1>1. ASSUME NEW c \in Caller, Answer(c)
      PROVE  Owed'
  <2>1. \A d \in Caller : Standing(d)
    BY <1>1 DEF Answer, Standing, WritesOK
  <2>2. CASE UNCHANGED log
    BY <1>1, <2>1, <2>2, StandingOwes DEF Answer
  <2>3. CASE Audit(c, call[c].said = "ok")
    <3>1. log' = Append(log, [kind |-> call[c].kind, ok |-> call[c].said = "ok", at |-> clock,
                              by |-> c])
      BY <2>3 DEF Audit
    <3>2. ASSUME NEW i \in DOMAIN log'
          PROVE  \/ i \in DOMAIN log /\ log'[i] = log[i]
                 \/ /\ call[c].at = "sent" /\ log'[i].kind = call[c].kind
                    /\ log'[i].ok <=> call[c].said = "ok"
                    /\ log'[i].at = clock /\ log'[i].by = c
      <4>1. log \in Seq(Line)
        BY DEF WritesOK
      <4>2. CASE i \in DOMAIN log
        BY <3>1, <4>1, <4>2
      <4>3. CASE i \notin DOMAIN log
        <5>1. log'[i] = [kind |-> call[c].kind, ok |-> call[c].said = "ok", at |-> clock, by |-> c]
          <6> DEFINE line == [kind |-> call[c].kind, ok |-> call[c].said = "ok", at |-> clock, by |-> c]
          <6>1. log' = Append(log, line)
            BY <3>1
          <6> HIDE DEF line
          <6>2. log'[i] = line
            BY <4>1, <4>3, <6>1
          <6> QED BY <6>2 DEF line
        <5>2. log'[i].kind = call[c].kind /\ log'[i].at = clock /\ log'[i].by = c
          BY <5>1
        <5>3. log'[i].ok <=> call[c].said = "ok"
          <6> DEFINE ok == call[c].said = "ok"
          <6>1. ok \in BOOLEAN
            OBVIOUS
          <6>2. log'[i] = [kind |-> call[c].kind, ok |-> ok, at |-> clock, by |-> c]
            BY <5>1
          <6> HIDE DEF ok
          <6>3. log'[i].ok = ok
            BY <6>2
          <6> QED BY <6>1, <6>3 DEF ok
        <5> QED BY <1>1, <5>2, <5>3 DEF Answer
      <4> QED BY <4>2, <4>3
    <3> QED BY <1>1, <2>1, <3>2, StandingOwes DEF Answer
  <2> QED BY <1>1, <2>2, <2>3 DEF Answer
<1>2. ASSUME NEW c \in Caller, Raise(c)
      PROVE  Owed'
  <2>1. \A d \in Caller : Standing(d)
    BY <1>2 DEF Raise, Standing, WritesOK
  <2> QED BY <1>2, <2>1, StandingOwes DEF Raise
<1>3. CASE Die
  <2>1. \A d \in Caller : Standing(d)
    <3>1. ASSUME NEW d \in Caller
          PROVE  call'[d] = IF call[d].at = "sent" THEN [call[d] EXCEPT !.at = "told"] ELSE call[d]
      BY <1>3 DEF Die
    <3>2. \A d \in Caller : call[d] \in {NoCall} \cup SentCall
      BY DEF WritesOK
    <3> QED BY <3>1, <3>2 DEF Standing, SentCall, NoCall
  <2> QED BY <1>3, <2>1, StandingOwes DEF Die
<1>4. ASSUME NEW c \in Caller, BeginSelfTest(c)
      PROVE  Owed'
  <2>1. /\ queued' = queued \ {c} /\ report' = clock
        /\ UNCHANGED <<clock, call, log>>
    BY <1>4 DEF BeginSelfTest
  <2> QED BY <2>1 DEF Owed, Accepted
<1>5. CASE ClockTicks
  <2>1. clock' = clock + 1 /\ UNCHANGED <<call, log, queued, report>>
    BY <1>5 DEF ClockTicks
  <2> QED BY <2>1, WritesAssumption DEF Owed, Accepted
<1>6. CASE UNCHANGED writesVars
  BY <1>6 DEF writesVars, Owed, Accepted
<1> QED BY <1>1, <1>2, <1>3, <1>4, <1>5, <1>6, SendOwes DEF WritesNext

\* The newest request the page found is one of the log's accepted self-tests.
LEMMA LastIsAccepted ==
    ASSUME WritesOK, Owed, Requests # {}
    PROVE  \E i \in DOMAIN log : LastRequest = log[i] /\ log[i].kind = "self_test" /\ log[i].ok
<1>1. Requests \in SUBSET (1..Len(log)) /\ Len(log) \in Nat /\ DOMAIN log = 1..Len(log)
  BY DEF Requests, CoinRows, Newest, WritesOK
<1>2. \E i \in Requests : \A j \in Requests : j <= i
  BY <1>1, HasLargest
<1>3. (CHOOSE i \in Requests : \A j \in Requests : j <= i) \in Requests
  BY <1>2
<1> QED BY <1>1, <1>3 DEF LastRequest, Requests

\* However slow, lost or unlogged the answers are, for any size of the page and its
\* tail: a page that says a self-test still owes its report means one the engine has
\* yet to begin, or one whose line came more than the slack after the engine took it
\* (data_sources/coindcx.py, grade_self_test).
THEOREM PendingIsOwed == WritesSpec => []PendingMeansOwed
<1>1. WritesInit => WritesOK /\ EveryChangeIsLogged /\ Owed
  <2>1. WritesInit => WritesOK /\ EveryChangeIsLogged
    BY DEF WritesInit, WritesOK, EveryChangeIsLogged
  <2>2. WritesInit => Owed
    BY WritesAssumption DEF WritesInit, Owed, Accepted, NoCall, NoReport
  <2> QED BY <2>1, <2>2
<1>2. WritesOK /\ EveryChangeIsLogged /\ Owed /\ [WritesNext]_writesVars
        => WritesOK' /\ EveryChangeIsLogged' /\ Owed'
  BY WritesKept, OwedKept
<1>3. ASSUME WritesOK, Owed PROVE PendingMeansOwed
  <2> SUFFICES ASSUME Pending, ~(LastRequest.at > call[LastRequest.by].when + Slack)
               PROVE  LastRequest.by \in queued
    BY DEF PendingMeansOwed
  <2>1. PICK i \in DOMAIN log : LastRequest = log[i] /\ log[i].kind = "self_test" /\ log[i].ok
    BY <1>3, LastIsAccepted DEF Pending
  <2>2. log[i].by \in Caller /\ log[i].at \in Int
    BY <1>3, LineTypes DEF Line
  <2>3. Accepted(log[i].by) /\ ~(log[i].at > call[log[i].by].when + Slack)
    BY <1>3, <2>1 DEF Owed
  <2>4. report = -1 \/ log[i].at > report + Slack
    BY <2>1 DEF Pending, NoReport
  <2>5. ~(report >= call[log[i].by].when)
    BY <1>3, <2>2, <2>3, <2>4, WritesAssumption DEF Owed
  <2> QED BY <1>3, <2>1, <2>2, <2>3, <2>5 DEF Owed
<1> QED BY <1>1, <1>2, <1>3, PTL DEF WritesSpec

------------------------------------------------------------------------------
\* The process and the browser keep their types.
LEMMA OneShotTypesInit == OneShotInit => OneShotTypeOK
BY OneShotAssumption
   DEF OneShotInit, OneShotTypeOK, RequestType, NoCookie, Cookie, NoKey, FlashKey

\* Whatever is thrown out to make room, nothing but the new key is added.
LEMMA StashAdds == ASSUME NEW key PROVE Stash(key) \subseteq results \cup {key}
BY DEF Stash

\* A response carries a session of the same type.
LEMMA RespondTypes ==
    ASSUME NEW t \in Tab, NEW session \in Cookie, request \in [Tab -> RequestType],
           RespondWith(t, session)
    PROVE  request' \in [Tab -> RequestType]
BY DEF RespondWith, RequestType

LEMMA AskedTypes ==
    ASSUME NEW t \in Tab, NEW op, OneShotTypeOK, Asked(t, op)
    PROVE  request[t].session \in Cookie
BY DEF Asked, OneShotTypeOK, RequestType, NoRequest

\* A cookie with one key replaced.
LEMMA CookieTypes ==
    ASSUME NEW session \in Cookie, NEW key \in FlashKey \cup {NoKey}
    PROVE  [session EXCEPT !.code = key] \in Cookie /\ [session EXCEPT !.result = key] \in Cookie
BY DEF Cookie

\* The next key to draw is a key.
LEMMA NextKey == ASSUME drawn \in 0..MaxKeys, drawn < MaxKeys PROVE drawn + 1 \in FlashKey \cup {NoKey}
BY OneShotAssumption DEF FlashKey

LEMMA OneShotTypesKept == OneShotTypeOK /\ [OneShotNext]_oneShotVars => OneShotTypeOK'
<1> SUFFICES ASSUME OneShotTypeOK, [OneShotNext]_oneShotVars PROVE OneShotTypeOK'
  OBVIOUS
<1> USE OneShotAssumption DEF FlashKey
<1>1. ASSUME NEW t \in Tab, NEW op \in Op, Open(t, op)
      PROVE  OneShotTypeOK'
  BY <1>1 DEF Open, OneShotTypeOK, RequestType
<1>2. ASSUME NEW t \in Tab, MintCode(t)
      PROVE  OneShotTypeOK'
  <2>0. request[t].session \in Cookie BY <1>2, AskedTypes DEF MintCode
  <2>1. [request[t].session EXCEPT !.code = drawn + 1] \in Cookie
    BY <1>2, <2>0, NextKey, CookieTypes DEF MintCode, OneShotTypeOK
  <2>2. request' \in [Tab -> RequestType]
    BY <1>2, <2>1, RespondTypes DEF MintCode, OneShotTypeOK
  <2> QED BY <1>2, <2>2 DEF MintCode, OneShotTypeOK
<1>3. ASSUME NEW t \in Tab, RunDiagnostic(t)
      PROVE  OneShotTypeOK'
  <2>0. request[t].session \in Cookie BY <1>3, AskedTypes DEF RunDiagnostic
  <2>1. [request[t].session EXCEPT !.result = drawn + 1] \in Cookie
    BY <1>3, <2>0, NextKey, CookieTypes DEF RunDiagnostic, OneShotTypeOK
  <2>2. request' \in [Tab -> RequestType]
    BY <1>3, <2>1, RespondTypes DEF RunDiagnostic, OneShotTypeOK
  <2>3. results' \subseteq 1..drawn'
    BY <1>3, StashAdds DEF RunDiagnostic, OneShotTypeOK
  <2> QED BY <1>3, <2>2, <2>3 DEF RunDiagnostic, OneShotTypeOK
<1>4. ASSUME NEW t \in Tab, ShowCode(t)
      PROVE  OneShotTypeOK'
  <2>0. request[t].session \in Cookie BY <1>4, AskedTypes DEF ShowCode
  <2>1. [request[t].session EXCEPT !.code = NoKey] \in Cookie
    BY <2>0, CookieTypes
  <2>2. request' \in [Tab -> RequestType]
    BY <1>4, <2>1, RespondTypes DEF ShowCode, OneShotTypeOK
  <2>3. pending' \subseteq pending /\ shown' \in [FlashKey -> Nat]
    BY <1>4 DEF ShowCode, TakeCode, OneShotTypeOK
  <2> QED BY <1>4, <2>2, <2>3 DEF ShowCode, OneShotTypeOK
<1>5. ASSUME NEW t \in Tab, ShowResult(t)
      PROVE  OneShotTypeOK'
  <2>1. [request[t].session EXCEPT !.result = NoKey] \in Cookie
    BY <1>5, AskedTypes, CookieTypes DEF ShowResult
  <2>2. request' \in [Tab -> RequestType]
    BY <1>5, <2>1, RespondTypes DEF ShowResult, OneShotTypeOK
  <2>3. results' \subseteq results /\ shown' \in [FlashKey -> Nat]
    BY <1>5 DEF ShowResult, OneShotTypeOK
  <2> QED BY <1>5, <2>2, <2>3 DEF ShowResult, OneShotTypeOK
<1>6. ASSUME NEW t \in Tab, OtherPage(t)
      PROVE  OneShotTypeOK'
  <2>1. request' \in [Tab -> RequestType]
    BY <1>6, AskedTypes, RespondTypes DEF OtherPage, OneShotTypeOK
  <2> QED BY <1>6, <2>1 DEF OtherPage, OneShotTypeOK
<1>7. ASSUME NEW t \in Tab, Deliver(t)
      PROVE  OneShotTypeOK'
  BY <1>7 DEF Deliver, OneShotTypeOK, RequestType, NoRequest
<1>8. CASE RestartWeb
  BY <1>8 DEF RestartWeb, OneShotTypeOK
<1>9. CASE UNCHANGED oneShotVars
  BY <1>9 DEF oneShotVars, OneShotTypeOK
<1> QED BY <1>1, <1>2, <1>3, <1>4, <1>5, <1>6, <1>7, <1>8, <1>9 DEF OneShotNext

\* The types hold in every behaviour.
THEOREM OneShotTypeCorrect == OneShotSpec => []OneShotTypeOK
BY OneShotTypesInit, OneShotTypesKept, PTL DEF OneShotSpec

------------------------------------------------------------------------------
\* Why it is shown once: what waits in memory, or is not drawn yet, has not been
\* shown, and nothing waits in both places.
Waiting == pending \cup results
Fresh ==
    /\ \A k \in FlashKey : shown[k] <= 1
    /\ \A k \in FlashKey : k \in Waiting \/ k > drawn => shown[k] = 0
    /\ pending \cap results = {}

\* A step that adds nothing but an undrawn key to one place, and shows nothing.
LEMMA DrawKeepsFresh ==
    ASSUME OneShotTypeOK, Fresh, drawn < MaxKeys, drawn' = drawn + 1, shown' = shown,
           \/ pending' = pending \cup {drawn + 1} /\ results' = results
           \/ pending' = pending /\ results' \subseteq results \cup {drawn + 1}
    PROVE  Fresh'
<1>1. /\ drawn \in Nat /\ FlashKey \subseteq Nat
      /\ pending \subseteq 1..drawn /\ results \subseteq 1..drawn
  BY OneShotAssumption DEF OneShotTypeOK, FlashKey
<1>2. drawn + 1 \notin Waiting
  BY <1>1 DEF Waiting
<1>3. ASSUME NEW k \in FlashKey, k \in Waiting' \/ k > drawn'
      PROVE  k \in Waiting \/ k > drawn
  BY <1>1, <1>3 DEF Waiting
<1>4. \A k \in FlashKey : k \in Waiting' \/ k > drawn' => shown'[k] = 0
  BY <1>3 DEF Fresh
<1>5. pending' \cap results' = {}
  BY <1>2 DEF Fresh, Waiting
<1> QED BY <1>4, <1>5 DEF Fresh

\* A step that takes one key from where it waits, and shows it.
LEMMA TakeKeepsFresh ==
    ASSUME OneShotTypeOK, Fresh, NEW key \in Waiting, drawn' = drawn,
           shown' = [shown EXCEPT ![key] = shown[key] + 1],
           pending' \subseteq pending, results' \subseteq results, key \notin Waiting'
    PROVE  Fresh'
<1>1. key \in FlashKey /\ shown[key] = 0 /\ key <= drawn
  BY OneShotAssumption DEF Fresh, Waiting, OneShotTypeOK, FlashKey
<1>2. \A k \in FlashKey : shown'[k] = IF k = key THEN 1 ELSE shown[k]
  BY <1>1 DEF OneShotTypeOK
<1> QED BY <1>1, <1>2 DEF Fresh, Waiting, OneShotTypeOK, FlashKey

LEMMA RestKeepsFresh ==
    ASSUME Fresh, drawn' = drawn, shown' = shown, pending' \subseteq pending,
           results' \subseteq results
    PROVE  Fresh'
BY DEF Fresh, Waiting

LEMMA FreshKept ==
    ASSUME OneShotTypeOK, Fresh, [OneShotNext]_oneShotVars
    PROVE  Fresh'
<1>1. ASSUME NEW t \in Tab, NEW op, Open(t, op) PROVE Fresh'
  BY <1>1, RestKeepsFresh DEF Open
<1>2. ASSUME NEW t \in Tab, MintCode(t) PROVE Fresh'
  BY <1>2, DrawKeepsFresh DEF MintCode
<1>3. ASSUME NEW t \in Tab, RunDiagnostic(t) PROVE Fresh'
  BY <1>3, StashAdds, DrawKeepsFresh DEF RunDiagnostic
<1>4. ASSUME NEW t \in Tab, ShowCode(t) PROVE Fresh'
  <2> DEFINE key == request[t].session.code
  <2>1. CASE key \in pending
    <3>1. key \notin results
      BY <2>1 DEF Fresh
    <3> QED BY <1>4, <2>1, <3>1, TakeKeepsFresh DEF ShowCode, TakeCode, Waiting
  <2>2. CASE key \notin pending
    BY <1>4, <2>2, RestKeepsFresh DEF ShowCode
  <2> QED BY <2>1, <2>2
<1>5. ASSUME NEW t \in Tab, ShowResult(t) PROVE Fresh'
  <2> DEFINE key == request[t].session.result
  <2>1. CASE key \in results
    <3>1. key \notin pending
      BY <2>1 DEF Fresh
    <3> QED BY <1>5, <2>1, <3>1, TakeKeepsFresh DEF ShowResult, Waiting
  <2>2. CASE key \notin results
    BY <1>5, <2>2, RestKeepsFresh DEF ShowResult
  <2> QED BY <2>1, <2>2
<1>6. ASSUME NEW t \in Tab, OtherPage(t) \/ Deliver(t) PROVE Fresh'
  BY <1>6, RestKeepsFresh DEF OtherPage, Deliver
<1>7. CASE RestartWeb
  BY <1>7, RestKeepsFresh DEF RestartWeb
<1>8. CASE UNCHANGED oneShotVars
  BY <1>8, RestKeepsFresh DEF oneShotVars
<1> QED BY <1>1, <1>2, <1>3, <1>4, <1>5, <1>6, <1>7, <1>8 DEF OneShotNext

\* A code, or a result, is rendered at most once, whichever tabs load its page, in
\* whatever order their responses reach the browser, and across restarts.
THEOREM ShownAtMostOnce == OneShotSpec => []ShownOnce
<1>1. OneShotInit => Fresh
  BY OneShotAssumption DEF OneShotInit, Fresh, Waiting, FlashKey
<1>2. OneShotTypeOK /\ Fresh /\ [OneShotNext]_oneShotVars => Fresh'
  BY FreshKept
<1>3. Fresh => ShownOnce
  BY DEF Fresh, ShownOnce
<1> QED BY <1>1, <1>2, <1>3, OneShotTypesInit, OneShotTypesKept, PTL DEF OneShotSpec
=============================================================================
