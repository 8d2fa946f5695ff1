------------------------------- MODULE Screens -------------------------------
(***************************************************************************)
(* The screens of the terminal app (tui/internal/ui), each as tables: what *)
(* its Refresh loads, what a key does, what an answer and a finished write *)
(* lead to.  Terminal runs them.                                           *)
(*                                                                         *)
(* A command is a call made off the event loop: its answer comes back as a *)
(* loaded message (load) or as a done message (act).  An effect opens an   *)
(* overlay, issues commands (at once, or when the overlay is agreed to)    *)
(* and may show another pane.  A screen without panes shows "list".        *)
(* Cursors, scrolling, selections and searches in loaded rows are left out.*)
(***************************************************************************)
EXTENDS Naturals

(* Commands.                                                               *)
Load(t)      == [tag |-> t, kind |-> "load", writes |-> FALSE, invalidate |-> FALSE,
                 signsIn |-> FALSE]
Save(t)      == [Load(t) EXCEPT !.writes = TRUE]         \* a write answered as loaded
Act(t)       == [Load(t) EXCEPT !.kind = "done", !.writes = TRUE]
ActShared(t) == [Act(t) EXCEPT !.invalidate = TRUE]      \* the shared lookups are stale too
Fetch(t)     == [Act(t) EXCEPT !.writes = FALSE]         \* answered as done, writes no row

(* Effects.                                                                *)
Nothing      == [opens |-> "none", runs |-> {}, to |-> "same"]
Now(cs)      == [Nothing EXCEPT !.runs = cs]
Form(c)      == [Nothing EXCEPT !.opens = "form", !.runs = {c}]
Upload(c)    == [Nothing EXCEPT !.opens = "upload", !.runs = {c}]  \* a form answered by a load
Local(cs)    == [Nothing EXCEPT !.opens = "local", !.runs = cs]    \* a form that closes itself
Confirm(cs)  == [Nothing EXCEPT !.opens = "confirm", !.runs = cs]
Picker(cs)   == [Nothing EXCEPT !.opens = "picker", !.runs = cs]
Info         == [Nothing EXCEPT !.opens = "info"]
Show(p, cs)  == [Nothing EXCEPT !.to = p, !.runs = cs]

-----------------------------------------------------------------------------
(* accounts.go                                                             *)

AccountsRefresh == {Load("accounts.list")}

AccountEdits == {Form(ActShared("accounts.save")), Confirm({ActShared("accounts.delete")})}

\* An account without a billing day has its details at hand.
AccountLookups == {Info, Now({Load("accounts.detail")}), Now({Load("accounts.cycles")}),
                   Form(Fetch("accounts.export")), Now({Load("accounts.schedule")})}

ScheduleEdits == {Form(ActShared("accounts.schedule.save")),
                  Confirm({Act("accounts.schedule.delete")})}
AccountTransfer == {Form(ActShared("accounts.transfer"))}

AccountsKeys == AccountEdits \cup AccountLookups \cup ScheduleEdits \cup AccountTransfer
                \cup {Now({Load("accounts.disbursement")})}

\* The credit key first reads the loan, then offers to unlink the credit it
\* names, or looks for credits to choose from.
DisbursementAnswer == {Nothing, Confirm({Act("accounts.disbursement.unlink")}),
                       Now({Load("accounts.disbursement.credits")})}

CreditsAnswer == {Nothing, Picker({Save("accounts.disbursement.link")})}

AccountsAnswer(t) ==
    CASE t = "accounts.list" -> {Nothing}
      [] t = "accounts.disbursement" -> DisbursementAnswer
      [] t = "accounts.disbursement.credits" -> CreditsAnswer
      [] OTHER -> {Info}

AccountsAfter(t) ==
    CASE t \in {"accounts.export", "accounts.schedule.delete", "accounts.disbursement.unlink"} -> Nothing
      [] t = "accounts.schedule.save" -> Now({Load("accounts.schedule")})
      [] t = "accounts.transfer" -> Now(AccountsRefresh \cup {Load("accounts.schedule")})
      [] OTHER -> Now(AccountsRefresh)

(* calendar.go                                                             *)

CalendarRefresh == {Load("calendar.list")}
CalendarWindow == Local(CalendarRefresh)
CalendarKeys == {CalendarWindow, Info}
CalendarAnswer == {Nothing}

(* dashboard.go                                                            *)

DashboardRefresh == {Load("dashboard.summary")}
\* Both are declined, with a hint, where the view has no billing cycles.
DashboardFraming == {Now(DashboardRefresh), Nothing}
DashboardWindow == Local(DashboardRefresh)
DashboardKeys == DashboardFraming \cup {DashboardWindow, Info}
DashboardAnswer == {Nothing}

(* categories.go: the rows are those of the shared lookups.                *)

CategoryEdits == {Form(ActShared(t)) : t \in {"categories.group.create", "categories.group.update",
                                              "categories.category.create", "categories.category.update"}}

CategoryDelete == {Confirm({ActShared("categories.group.delete")}),
                   Now({Load("categories.impact")})}

GlobalEdits == {Form(ActShared(t)) : t \in {"categories.global.group", "categories.global.category.create",
                                            "categories.global.category.update"}}
               \cup {Confirm({ActShared("categories.global.category.delete")})}

CategoriesKeys == CategoryEdits \cup CategoryDelete \cup GlobalEdits
                  \cup {Now({Load("categories.catalog")})}

\* A probe that failed asks all the same.
ImpactAnswer == {Confirm({ActShared("categories.category.delete")})}

CategoriesAnswer(t) == IF t = "categories.impact" THEN ImpactAnswer ELSE {Info}

(* payees.go, rules.go, tags.go                                            *)

PayeesRefresh == {Load("payees.list")}
PayeesWrites == {Form(ActShared("payees.save")), Confirm({ActShared("payees.delete")})}
PayeesKeys == PayeesWrites \cup {Info}
PayeesAnswer == {Nothing}
PayeesAfter == Now(PayeesRefresh)

RulesRefresh == {Load("rules.list")}
RulesSaves == {Form(Act("rules.save"))}
RulesRuns == {Confirm({Act("rules.delete")}), Now({Load("rules.preview")}),
              Confirm({Act("rules.apply")})}
RulesKeys == RulesSaves \cup RulesRuns
RulesAnswer(t) == IF t = "rules.preview" THEN {Info} ELSE {Nothing}
RulesAfter(t) == IF t = "rules.apply" THEN [Info EXCEPT !.runs = RulesRefresh] ELSE Now(RulesRefresh)

TagsRefresh == {Load("tags.list")}
TagsRename == {Form(ActShared("tags.rename"))}
TagsKeys == TagsRename
TagsAnswer == {Nothing}
TagsAfter == Now(TagsRefresh)

(* links.go: three panes, each with its rows and its filter.               *)

LinksRefresh(p) ==
    CASE p = "list" -> {Load("links.list")}
      [] p = "suggestions" -> {Load("links.suggest")}
      [] OTHER -> {Load("links.cycles")}

LinksNext(p) ==
    LET n == CASE p = "list" -> "suggestions" [] p = "suggestions" -> "cycles" [] OTHER -> "list"
    IN  Show(n, LinksRefresh(n))

LinksWrites == {Form(Act("links.create")), Form(Act("links.bulk")), Confirm({Act("links.delete")})}
LinksType == Picker({Load("links.list")})
\* Linking a suggestion asks nothing; the other keys change what is suggested.
LinksConfirm == {Now({Act("links.confirm")})}
LinksSuggestions == {Now({Load("links.suggest")})}
LinksWindow == Local({Load("links.cycles")})

LinksKeys(p) ==
    {LinksNext(p)} \cup
    (CASE p = "list" -> LinksWrites \cup {LinksType, Info}
       [] p = "suggestions" -> LinksConfirm \cup LinksSuggestions
       [] OTHER -> {LinksWindow})

LinksAnswer == {Nothing}
LinksAfter(p) == Now(LinksRefresh(p))

(* moneyflow.go: nothing here writes.                                      *)

FlowGraph == {Load("moneyflow.graph")}
FlowTimeline == {Load("moneyflow.timeline")}
FlowRefresh == FlowGraph \cup FlowTimeline
\* Scrubbing to a period narrows the graph; the framing is the strip's.
FlowScrub == {Now(FlowGraph), Nothing}
FlowFraming == {Now(FlowTimeline), Nothing}
FlowForms == {Local(FlowGraph), Local(FlowTimeline), Local(FlowRefresh)}
FlowKeys == FlowScrub \cup FlowFraming \cup FlowForms \cup {Info}
FlowAnswer == {Nothing}

-----------------------------------------------------------------------------
(* recurring.go: the series, or a pane about one of them.                  *)

RecurringPane(p) ==
    CASE p = "terms" -> {Load("recurring.terms")}
      [] p = "suggestions" -> {Load("recurring.suggestions")}
      [] p = "attached" -> {Load("recurring.transactions")}
      [] OTHER -> {}

RecurringRefresh(p) == {Load("recurring.list")} \cup RecurringPane(p)

SeriesWrites == {Form(Act("recurring.save")), Confirm({Act("recurring.delete")})}
SeriesForecast == Local({Load("recurring.forecast")})
SeriesPanes == {Show("terms", RecurringPane("terms")), Show("attached", RecurringPane("attached")),
                [Local(RecurringPane("suggestions")) EXCEPT !.to = "suggestions"]}
TermWrites == {Form(Act("recurring.term.save")), Confirm({Act("recurring.term.delete")})}
\* Attaching a suggestion asks nothing.
AttachWrites(p) == IF p = "suggestions" THEN Now({Act("recurring.attach")})
                                        ELSE Confirm({Act("recurring.detach")})

RecurringKeys(p) ==
    CASE p = "list" -> SeriesWrites \cup SeriesPanes \cup {SeriesForecast}
      [] p = "terms" -> TermWrites \cup {Show("list", {})}
      [] OTHER -> {AttachWrites(p), Show("list", {})}

RecurringAnswer(t) == IF t = "recurring.forecast" THEN {Info} ELSE {Nothing}
RecurringAfter(t, p) == IF t = "recurring.delete" THEN Show("list", RecurringRefresh("list"))
                                                  ELSE Now(RecurringRefresh(p))

(* settings.go, as an administrator sees it.                               *)

SettingsPaperless == {Load("settings.paperless.list")}
SettingsTypes == {Load("settings.types.list")}
SettingsRefresh == SettingsPaperless \cup SettingsTypes

SettingsForms == {Form(Act("settings.paperless")), Form(Fetch("settings.export"))}
\* The path is asked for first, then the restore is spelled out.
SettingsRestore == Confirm({ActShared("settings.import")})
TypeCreate == Form(ActShared("settings.types"))
TypeEdits == {Form(ActShared("settings.types")), Confirm({ActShared("settings.types")})}

\* The catalog opens only on types that have been loaded.
SettingsKeys(p, ready) ==
    IF p = "catalog" THEN TypeEdits \cup {TypeCreate, Show("overview", {})}
    ELSE SettingsForms \cup {SettingsRestore, TypeCreate}
         \cup (IF "settings.types.list" \in ready THEN {Show("catalog", {})} ELSE {})

SettingsAnswer == {Nothing}
SettingsAfter(t) ==
    CASE t = "settings.paperless" -> Now(SettingsPaperless)
      [] t = "settings.types" -> Now(SettingsTypes)
      [] t = "settings.import" -> Info
      [] OTHER -> Nothing

(* import.go: a source per pane; a batch that was read is staged over the  *)
(* pane it came from until it is committed or discarded.                   *)

Sources == {"statement", "paperless", "csv"}
Staged == [statement |-> "statement batch", paperless |-> "paperless batch", csv |-> "csv batch"]
IsStaged(p) == \E q \in Sources : Staged[q] = p
Source(p) == IF IsStaged(p) THEN CHOOSE q \in Sources : Staged[q] = p ELSE p

ImportRefresh(p) ==
    CASE Source(p) = "statement" -> {Load("import.extractors")}
      [] Source(p) = "paperless" -> {Load("import.settings")}
      [] OTHER -> {}

\* ensurePane: what was loaded before is not asked for again.
ImportNext(p, ready) ==
    LET n == CASE p = "statement" -> "paperless" [] p = "paperless" -> "csv" [] OTHER -> "statement"
    IN  Show(n, {c \in ImportRefresh(n) : c.tag \notin ready})

ImportDocs == {Load("import.docs")}
StatementUpload == Upload(Load("import.parse"))
PaperlessUpload == Upload(Load("import.paperless"))
\* A search and a page are asked for at once, a filter is a form.
PaperlessSearch == {Now(ImportDocs), Local(ImportDocs)}
\* The file is read and its columns mapped on this machine.
CsvMapping == [Local({}) EXCEPT !.to = Staged["csv"]]
ImportTarget == Local({Load("import.cycles")})
Discard(p) == Show(Source(p), {})

ImportKeys(p, ready) ==
    IF IsStaged(p) THEN {ImportTarget, Discard(p)}
    ELSE {ImportNext(p, ready)} \cup
         (CASE p = "statement" -> {StatementUpload}
            [] p = "paperless" -> PaperlessSearch \cup
                                  (IF "import.docs" \in ready THEN {PaperlessUpload} ELSE {})
            [] OTHER -> {CsvMapping})

\* Without a token there are no documents to ask for.
SettingsLanded(ok) == IF ok THEN {Nothing, Now(ImportDocs)} ELSE {Nothing}
ImportCheck(p) == IF IsStaged(p) THEN Now({Load("import.check")}) ELSE Nothing
\* A cycle is offered where there are cycles; a failure goes on without one.
CyclesLanded(p, ok) == {ImportCheck(p)} \cup (IF ok THEN {Local(ImportCheck(p).runs)} ELSE {})
CheckLanded(p, ok) == IF ok /\ IsStaged(p) THEN {Confirm({Save("import.commit")})} ELSE {Nothing}
\* Only a batch of a Paperless document asks for the documents again.
CommitLanded(p, ok) ==
    IF ok THEN {[Info EXCEPT !.to = Source(p), !.runs = d] : d \in {{}, ImportDocs}} ELSE {Nothing}
\* A parse without rows stages nothing.
ParseLanded(p) == {Show(Staged[Source(p)], {}), Nothing}

ImportAnswer(t, p, ok) ==
    CASE t = "import.settings" -> SettingsLanded(ok)
      [] t = "import.cycles" -> CyclesLanded(p, ok)
      [] t = "import.check" -> CheckLanded(p, ok)
      [] t = "import.commit" -> CommitLanded(p, ok)
      [] OTHER -> {Nothing}

(* transactions.go                                                         *)

TxnRefresh == {Load("txn.list")}
TxnFilter == Local(TxnRefresh)
\* A search, the sort order and the page all ask again.
TxnPaging == Now(TxnRefresh)
TxnSaves == {Form(ActShared("txn.save")), Form(Act("txn.save"))}
TxnDelete == Confirm({Act("txn.delete")})
TxnBulk == {Form(ActShared("txn.bulk")), Confirm({ActShared("txn.bulk")})}
TxnExport == Form(Fetch("txn.export"))
TxnKeys == TxnSaves \cup TxnBulk \cup {TxnFilter, TxnPaging, TxnDelete, TxnExport}
           \cup {Now({Load("txn.links")}), Now({Load("txn.cycles")})}

\* The cycles of the selection's account are offered, if there are any.
TxnAnswer(t) ==
    CASE t = "txn.links" -> {Info, Nothing}
      [] t = "txn.cycles" -> {Form(ActShared("txn.bulk")), Nothing}
      [] OTHER -> {Nothing}

TxnAfter(t) == IF t = "txn.export" THEN Nothing ELSE Now(TxnRefresh)

-----------------------------------------------------------------------------
(* All of them.                                                            *)

Screens == {"dashboard", "transactions", "accounts", "categories", "payees", "tags", "rules",
            "links", "recurring", "moneyflow", "calendar", "import", "settings"}

Panes(s) ==
    CASE s = "links" -> {"list", "suggestions", "cycles"}
      [] s = "recurring" -> {"list", "terms", "suggestions", "attached"}
      [] s = "settings" -> {"overview", "catalog"}
      [] s = "import" -> Sources \cup {Staged[q] : q \in Sources}
      [] OTHER -> {"list"}

FirstPane(s) == CASE s = "settings" -> "overview" [] s = "import" -> "statement" [] OTHER -> "list"

Refresh(s, p) ==
    CASE s = "dashboard" -> DashboardRefresh
      [] s = "transactions" -> TxnRefresh
      [] s = "accounts" -> AccountsRefresh
      [] s = "categories" -> {}
      [] s = "payees" -> PayeesRefresh
      [] s = "tags" -> TagsRefresh
      [] s = "rules" -> RulesRefresh
      [] s = "links" -> LinksRefresh(p)
      [] s = "recurring" -> RecurringRefresh(p)
      [] s = "moneyflow" -> FlowRefresh
      [] s = "calendar" -> CalendarRefresh
      [] s = "import" -> ImportRefresh(p)
      [] s = "settings" -> SettingsRefresh

\* The loads whose rows a screen keeps.
Rows(s) == {c.tag : c \in UNION {Refresh(s, p) : p \in Panes(s)}}
           \cup (IF s = "import" THEN {"import.docs"} ELSE {})

Keys(s, p, ready) ==
    CASE s = "dashboard" -> DashboardKeys
      [] s = "transactions" -> TxnKeys
      [] s = "accounts" -> AccountsKeys
      [] s = "categories" -> CategoriesKeys
      [] s = "payees" -> PayeesKeys
      [] s = "tags" -> TagsKeys
      [] s = "rules" -> RulesKeys
      [] s = "links" -> LinksKeys(p)
      [] s = "recurring" -> RecurringKeys(p)
      [] s = "moneyflow" -> FlowKeys
      [] s = "calendar" -> CalendarKeys
      [] s = "import" -> ImportKeys(p, ready)
      [] s = "settings" -> SettingsKeys(p, ready)

\* What the answer to a load may lead to.  One that failed is reported, and a
\* few questions go on regardless.
Answers(s, t, p, ok) ==
    CASE s = "import" -> ImportAnswer(t, p, ok)
      [] t = "categories.impact" -> ImpactAnswer
      [] ~ok \/ t \in Rows(s) -> {Nothing}
      [] s = "accounts" -> AccountsAnswer(t)
      [] s = "categories" -> CategoriesAnswer(t)
      [] s = "rules" -> RulesAnswer(t)
      [] s = "recurring" -> RecurringAnswer(t)
      [] s = "transactions" -> TxnAnswer(t)
      [] OTHER -> {Nothing}

\* What a screen does once a write of its own went through.
After(s, t, p) ==
    CASE s = "transactions" -> TxnAfter(t)
      [] s = "accounts" -> AccountsAfter(t)
      [] s = "payees" -> PayeesAfter
      [] s = "tags" -> TagsAfter
      [] s = "rules" -> RulesAfter(t)
      [] s = "links" -> LinksAfter(p)
      [] s = "recurring" -> RecurringAfter(t, p)
      [] s = "settings" -> SettingsAfter(t)
      [] OTHER -> Nothing
=============================================================================
