------------------------------ MODULE Terminal ------------------------------
(***************************************************************************)
(* The terminal app (tui/internal/ui/app.go) over the API client: one      *)
(* event loop that handles a key or a message at a time, screens that keep *)
(* rows, at most one overlay, and calls whose answers come back as         *)
(* messages in any order.                                                  *)
(*                                                                         *)
(* A key pressed with an overlay open belongs to it; the rest go to the    *)
(* app and to the screen shown.  Every answer is handed to every screen    *)
(* and carries a tag, but neither the session nor the form it belongs to.  *)
(***************************************************************************)
EXTENDS Client, Screens

CONSTANTS
    Tours,         \* bound: the screens a user goes to, the one shown first, the
                   \* keys pressed and the faults met
    MaxFlight      \* bound: calls under way at once

\* A tour shows screens of the app, among them the one it starts at.
ASSUME ToursAssumption ==
    \A r \in Tours : r.screens \subseteq Screens /\ r.first \in r.screens

VARIABLES
    app,       \* signed in, screens built, the screen shown, sign-ins so far
    fresh,     \* screens whose freshAt is the current generation
    view,      \* per screen of the tour: pane, rows, what it has ready
    modal,     \* the overlay
    upload,    \* what became of the form last uploaded, if it is not the overlay
    login,     \* the sign-in screen
    known,     \* history: the newest write the app has heard of
    tour, keys

uiVars == <<app, fresh, view, modal, upload, login, known>>
termVars == <<clientVars, uiVars, tour, keys>>

-----------------------------------------------------------------------------
(* State.                                                                  *)

NoRows == [data |-> 0, how |-> "none", asked |-> 0]
Unopened(s) == [pane |-> FirstPane(s), rows |-> [t \in Rows(s) |-> NoRows], ready |-> {}]
NoView == [s \in tour.screens |-> Unopened(s)]
NewModal(kind, screen, runs, to) ==
    [kind |-> kind, screen |-> screen, runs |-> runs, to |-> to,
     jobs |-> {}, submitting |-> FALSE, released |-> FALSE]
NoModal == NewModal("none", "none", {}, "same")
NoLogin == [mode |-> "login", submitting |-> {}, failed |-> FALSE, done |-> FALSE]

SignInCommand == [Load("login") EXCEPT !.signsIn = TRUE]
RefData == Load("app.refdata")

-----------------------------------------------------------------------------
(* Commands become calls.                                                  *)

\* The n-th request for these rows, or any number that tells two calls apart.
Number(v, s, t) ==
    IF s \in tour.screens /\ t \in Rows(s) THEN v[s].rows[t].asked
    ELSE CHOOSE n \in 1 .. Cardinality(flight) + 1 :
            \A c \in flight : c.job.cmd.tag = t => c.job.n # n

Calls(v, s, cs) ==
    {Call([screen |-> s, cmd |-> c, n |-> Number(v, s, c.tag), visit |-> app.visit]) : c \in cs}

\* Two of the import screen's lookups count as missing while they are asked for.
Lapsing == {"import.extractors", "import.settings"}

Asked(v, s, cs) ==
    LET tags == {c.tag : c \in cs}
        ask(t, r) == IF t \in tags THEN [r EXCEPT !.asked = @ + 1, !.how = "asked"] ELSE r
    IN  IF s \notin tour.screens THEN v
        ELSE [v EXCEPT ![s].rows = [t \in Rows(s) |-> ask(t, v[s].rows[t])],
                       ![s].ready = @ \ (tags \cap Lapsing)]

\* Screen s runs commands; others is what else is under way.
Run(others, v, s, cs) ==
    /\ view' = Asked(v, s, cs)
    /\ flight' = others \cup Calls(view', s, cs)
    /\ Cardinality(flight') <= MaxFlight

SessionCall == Calls(view, "app", {RefData})
StartSession(others) == Run(others, view, "app", {RefData})

-----------------------------------------------------------------------------
(* Effects.                                                                *)

Sent(m) == m.kind = "upload" /\ m.jobs # {}
Shown(v, s, p) == IF p = "same" THEN v ELSE [v EXCEPT ![s].pane = p]

Overlay(s, e, m) ==
    IF e.opens = "none" THEN m
    ELSE NewModal(e.opens, s, e.runs, e.to)

\* What an effect does at once.  An overlay replaces the one that was open.
Perform(others, v, s, e, m) ==
    /\ IF e.opens \in {"none", "info"} THEN Run(others, Shown(v, s, e.to), s, e.runs)
                                       ELSE Run(others, v, s, {})
    /\ modal' = Overlay(s, e, m)
    /\ upload' = IF e.opens # "none" /\ Sent(m) THEN "orphan" ELSE upload

-----------------------------------------------------------------------------
(* Keys of an overlay.                                                     *)

Press == keys > 0 /\ keys' = keys - 1 /\ UNCHANGED <<server, faults, tour>>

AlwaysMaySubmit == TRUE          \* what if a submit under way did not ignore the key
MaySubmit == ~modal.submitting

SubmitForm ==
    /\ Press
    /\ modal.kind \in {"form", "upload"} /\ MaySubmit
    /\ Run(flight, view, modal.screen, modal.runs)
    /\ modal' = [modal EXCEPT !.submitting = TRUE,
                              !.jobs = @ \cup {c.job : c \in flight' \ flight}]
    /\ upload' = IF modal.kind = "upload" THEN "none" ELSE upload
    /\ UNCHANGED <<client, app, fresh, login, known>>

\* A local form closes itself; a confirmation and a picker always do.
Agree ==
    /\ Press
    /\ modal.kind \in {"local", "confirm", "picker"}
    /\ Perform(flight, view, modal.screen, [Now(modal.runs) EXCEPT !.to = modal.to], NoModal)
    /\ UNCHANGED <<client, app, fresh, login, known>>

Dismiss ==
    /\ Press
    /\ modal.kind # "none"
    /\ modal' = NoModal
    /\ upload' = IF Sent(modal) THEN "cancelled" ELSE upload
    /\ UNCHANGED <<client, flight, app, fresh, view, login, known>>

-----------------------------------------------------------------------------
(* Keys of the app and of the screen shown.                                *)

AtScreen == app.signedIn /\ app.built /\ modal.kind = "none"

ScreenKey ==
    /\ Press /\ AtScreen
    /\ \E e \in Keys(app.nav, view[app.nav].pane, view[app.nav].ready) \ {Nothing} :
          Perform(flight, view, app.nav, e, NoModal)
    /\ UNCHANGED <<client, app, fresh, login, known>>

Refreshed(others, s) ==
    /\ fresh' = fresh \cup {s}
    /\ Run(others, view, s, Refresh(s, view[s].pane))

RefreshKey ==
    /\ Press /\ AtScreen
    /\ Refreshed(flight, app.nav)
    /\ UNCHANGED <<client, app, modal, upload, login, known>>

\* Without screens the key tries the shared lookups again.
RetryKey ==
    /\ Press /\ app.signedIn /\ ~app.built
    /\ StartSession(flight)
    /\ UNCHANGED <<client, app, fresh, modal, upload, login, known>>

GoTo(s) ==
    /\ Press /\ AtScreen
    /\ s # app.nav
    /\ app' = [app EXCEPT !.nav = s]
    /\ IF s \in fresh THEN UNCHANGED <<flight, view, fresh>> ELSE Refreshed(flight, s)
    /\ UNCHANGED <<client, modal, upload, login, known>>

\* The calls under way go on.
SignOut ==
    /\ app' = [app EXCEPT !.signedIn = FALSE, !.built = FALSE]
    /\ ClearSession
    /\ fresh' = {} /\ view' = NoView
    /\ modal' = NoModal /\ upload' = "none"
    /\ login' = NoLogin
    /\ UNCHANGED known

SignOutKey ==
    /\ Press /\ app.signedIn /\ modal.kind = "none"
    /\ SignOut
    /\ UNCHANGED flight

-----------------------------------------------------------------------------
(* The sign-in screen.  A sign-in that is done completes at the next       *)
(* message that finds no error on the screen, dropping what that asked.    *)

AtLogin(l, others, cs) ==
    /\ ~app.signedIn
    /\ login' = l
    /\ IF l.done /\ ~l.failed
       THEN /\ app' = [app EXCEPT !.signedIn = TRUE, !.visit = @ + 1]
            /\ flight' = others \cup {[c EXCEPT !.job.visit = @ + 1] : c \in SessionCall}
       ELSE flight' = others \cup Calls(view, "login", cs) /\ UNCHANGED app
    /\ Cardinality(flight') <= MaxFlight
    /\ UNCHANGED <<client, fresh, view, modal, upload, known>>

SubmitLogin ==
    /\ Press
    /\ login.mode \notin login.submitting
    /\ AtLogin([login EXCEPT !.submitting = @ \cup {login.mode}, !.failed = FALSE],
               flight, {SignInCommand})

Other(mode) == IF mode = "login" THEN "register" ELSE "login"
SwitchMode == Press /\ AtLogin([login EXCEPT !.mode = Other(@), !.failed = FALSE], flight, {})

\* Escape builds the form anew; what it sent is still under way.
ClearLogin ==
    /\ Press
    /\ login.mode \in login.submitting
    /\ AtLogin([login EXCEPT !.submitting = @ \ {login.mode}], flight, {})

-----------------------------------------------------------------------------
(* Messages.                                                               *)

Deliver(c) == c.pc = "answered" /\ UNCHANGED <<server, faults, tour, keys>>
Tag(c) == c.job.cmd.tag
Ok(c) == c.result = "ok"
Others(c) == flight \ {c}
Drop(c) == flight' = Others(c) /\ UNCHANGED <<client, uiVars>>

\* Either form may have sent it, so an error releases both.
DeliverAtLogin(c) ==
    /\ Deliver(c)
    /\ AtLogin(CASE Tag(c) = "login" /\ Ok(c) -> [login EXCEPT !.done = TRUE]
                 [] Tag(c) = "login" /\ ~Ok(c) -> [login EXCEPT !.submitting = {}, !.failed = TRUE]
                 [] OTHER -> login,
               Others(c), {})

DeliverRefData(c) ==
    /\ Deliver(c) /\ app.signedIn /\ Tag(c) = RefData.tag
    /\ \/ /\ Ok(c)
          /\ app' = [app EXCEPT !.built = TRUE]
          /\ Refreshed(Others(c), app.nav)
          /\ UNCHANGED <<client, modal, upload, login, known>>
       \/ /\ c.result = "unauthorized"
          /\ SignOut
          /\ flight' = Others(c)
       \/ c.result = "failed" /\ Drop(c)

\* The form whose tag it is shows an error or closes.
ItsForm(c) == modal.kind = "form" /\ \E d \in modal.runs : d.tag = Tag(c)

SetError(m, c) == [m EXCEPT !.submitting = FALSE, !.released = @ \/ c.job \notin m.jobs]

\* A write that the open form sent, or that the form takes for its own.
DeliverRejection(c) ==
    /\ Deliver(c) /\ app.signedIn /\ c.job.cmd.kind = "done" /\ ~Ok(c)
    /\ modal' = IF ItsForm(c) THEN SetError(modal, c) ELSE modal
    /\ IF c.job.cmd.invalidate /\ ~ItsForm(c) THEN StartSession(Others(c))
       ELSE flight' = Others(c) /\ UNCHANGED view
    /\ UNCHANGED <<client, app, fresh, upload, login, known>>

OthersKept == fresh              \* what if only the screen that wrote were reloaded
\* Every screen counts as stale; the one that wrote reloads itself.
Staled == {}

DeliverDone(c) ==
    /\ Deliver(c) /\ app.signedIn /\ c.job.cmd.kind = "done" /\ Ok(c)
    /\ fresh' = Staled
    /\ known' = IF c.data > known THEN c.data ELSE known
    /\ LET s == c.job.screen
           others == Others(c) \cup (IF c.job.cmd.invalidate THEN SessionCall ELSE {})
           e == IF app.built THEN After(s, Tag(c), view[s].pane) ELSE Nothing
       IN  Perform(others, view, s, e, IF ItsForm(c) THEN NoModal ELSE modal)
    /\ UNCHANGED <<client, app, login>>

\* Only the ledger list asks whether the page is the one it asked for last.
Lands(c) == c.job.screen = "transactions" => c.job.n = view[c.job.screen].rows[Tag(c)].asked

How(c, r) ==
    CASE c.job.visit # app.visit -> "stray"
      [] c.job.visit = app.visit /\ c.job.n # r.asked -> "late"
      [] OTHER -> IF Ok(c) THEN "newest" ELSE "failed"

Landed(c) ==
    LET s == c.job.screen
        t == Tag(c)
        r == view[s].rows[t]
    IN  IF t \notin Rows(s) THEN view
        ELSE IF ~Lands(c) THEN view
        ELSE IF Ok(c) THEN [view EXCEPT ![s].rows[t] = [r EXCEPT !.data = c.data, !.how = How(c, r)],
                                        ![s].ready = @ \cup {t}]
        ELSE [view EXCEPT ![s].rows[t].how = IF How(c, r) = "failed" THEN "failed" ELSE @,
                          ![s].ready = @ \cup ({t} \cap Lapsing)]

Uploads == {"import.parse", "import.paperless"}

DeliverLoaded(c) ==
    /\ Deliver(c) /\ app.signedIn /\ c.job.cmd.kind = "load"
    /\ Tag(c) \notin Uploads \cup {RefData.tag}
    /\ \/ /\ app.built /\ Tag(c) # "login"
          /\ LET s == c.job.screen
                 v == Landed(c)
             IN  \E e \in Answers(s, Tag(c), view[s].pane, Ok(c)) :
                    Perform(Others(c), v, s, e, modal)
          /\ UNCHANGED <<client, app, fresh, login, known>>
       \/ (~app.built \/ Tag(c) = "login") /\ Drop(c)

\* A batch that was read belongs to the form uploaded last: dropped if that was
\* cancelled, else shown in the place of the form.
DeliverParse(c) ==
    /\ Deliver(c) /\ app.signedIn /\ Tag(c) \in Uploads
    /\ \/ /\ ~app.built \/ upload = "cancelled"
          /\ flight' = Others(c) /\ upload' = "none"
          /\ UNCHANGED <<view, modal>>
       \/ /\ app.built /\ upload # "cancelled" /\ ~Ok(c)
          /\ modal' = IF Sent(modal) THEN SetError(modal, c) ELSE modal
          /\ flight' = Others(c)
          /\ UNCHANGED <<view, upload>>
       \/ /\ app.built /\ upload # "cancelled" /\ Ok(c)
          /\ \E e \in ParseLanded(view["import"].pane) :
                view' = Shown(view, "import", e.to)
          /\ modal' = IF Sent(modal) THEN NoModal ELSE modal
          /\ flight' = Others(c) /\ upload' = "none"
    /\ UNCHANGED <<client, app, fresh, login, known>>

-----------------------------------------------------------------------------

\* A session may be at hand when the app starts, or none.
Init ==
    /\ tour \in Tours
    /\ keys = tour.keys /\ faults = tour.faults
    /\ \E door \in BOOLEAN :
          /\ client = IF door THEN [access |-> 1, refresh |-> 1, gen |-> 1]
                              ELSE [access |-> 0, refresh |-> 0, gen |-> 0]
          /\ server = [family |-> IF door THEN <<1>> ELSE <<>>, spent |-> {}, stale |-> {},
                       ended |-> {}, reused |-> {}, lost |-> {}, data |-> 0]
          /\ app = [signedIn |-> door, built |-> FALSE, nav |-> tour.first, visit |-> 0]
          /\ flight = IF door THEN {Call([screen |-> "app", cmd |-> RefData, n |-> 1, visit |-> 0])}
                              ELSE {}
    /\ fresh = {} /\ view = NoView
    /\ modal = NoModal /\ upload = "none"
    /\ login = NoLogin
    /\ known = 0

KeyNext ==
    \/ SubmitForm \/ Agree \/ Dismiss
    \/ ScreenKey \/ RefreshKey \/ RetryKey \/ SignOutKey
    \/ \E s \in tour.screens : GoTo(s)
    \/ SubmitLogin \/ SwitchMode \/ ClearLogin

MessageNext ==
    \E c \in flight :
        \/ DeliverAtLogin(c) \/ DeliverRefData(c) \/ DeliverRejection(c) \/ DeliverDone(c)
        \/ DeliverLoaded(c) \/ DeliverParse(c)

Transport == ClientNext /\ UNCHANGED <<uiVars, tour, keys>>

Next == KeyNext \/ MessageNext \/ Transport

Spec == Init /\ [][Next]_termVars

-----------------------------------------------------------------------------
(* Properties.                                                             *)

\* A screen marked fresh for the current generation has asked for its rows; once
\* the answers are in, rows answered in order are as new as the newest write the
\* app has heard of, and the ledger list never keeps an answer that came out of
\* order (selectScreen and update, app.go:265 and 397).  The import screen keeps
\* its lookups across its panes and is left out.
AwaitsRows(s, t) == \E c \in flight : c.job.screen = s /\ Tag(c) = t

FreshRowsAreCurrent ==
    \A s \in fresh \ {"import"} : \A c \in Refresh(s, view[s].pane) :
        LET r == view[s].rows[c.tag] IN
        \/ AwaitsRows(s, c.tag)
        \/ /\ r.how \notin {"none", "asked"}
           /\ r.how = "newest" => r.data >= known
           /\ s = "transactions" => r.how # "late"

\* A form waits for an answer only while a call of its own is under way, and does
\* not send a second one meanwhile, unless another form's error released it
\* (Form.commit and SetError, form.go:305 and 140).
Own == {c \in flight : c.job \in modal.jobs}

FormWaitsForItsCall ==
    modal.kind \in {"form", "upload"} =>
        /\ modal.submitting => Own # {}
        /\ ~modal.released => Cardinality(Own) = IF modal.submitting THEN 1 ELSE 0
=============================================================================
