--------------------------- MODULE RecurringTerms ---------------------------
(***************************************************************************)
(* The ranges of one user's recurring series: recurring_series_terms as    *)
(* the handlers of backend/handlers/recurring.go, and DeleteAccount in     *)
(* account.go, read and write it.  A range applies over [start, end); a    *)
(* range with no end is written with the end Open, a day after every date  *)
(* a request may carry.                                                    *)
(*                                                                         *)
(* A handler reads the series and its ranges (Load), decides on what it    *)
(* read, and writes in one transaction (the action named after it).  The   *)
(* decision depends on nothing but what was read and the request's body,   *)
(* so it is part of the writing step; between the two, any other request   *)
(* may commit.  Transactions are READ COMMITTED: a statement sees what was *)
(* committed when the statement began, which matters twice, for the DELETE *)
(* of a whole range list and for the DELETE of the series that an account  *)
(* takes with it.                                                          *)
(***************************************************************************)
EXTENDS Integers, FiniteSets

CONSTANTS
    Series,       \* ids a series may get
    Ids,          \* ids a range may get (an id nobody refers to is reused)
    Accounts,     \* ids an account may get
    Amounts,      \* amounts a request may carry, all positive
    Horizon,      \* number of days; also the end of an open-ended range
    Today,        \* the day the handlers read from the clock
    Ranges,       \* ranges a request may carry, well-formed or not
    Lists,        \* range lists a request may carry, well-formed or not
    Values,       \* amount and account a change may carry, either left out
    Requests,     \* slots for requests in progress
    NoSeries, NoAccount, Omitted

Days == 0 .. (Horizon - 1)
Ends == 1 .. Horizon
Open == Horizon

Editors == {"add", "edit", "change", "replace"}
Ops == Editors \cup {"remove", "deleteAccount"}

\* What a request says of a range, and a stored range.
Body == [start : Days, end : Ends, amount : Amounts, account : Accounts]
Row == [id : Ids, series : Series, start : Days, end : Ends,
        amount : Amounts \cup {0}, account : Accounts]

ASSUME HorizonAssumption == Horizon \in Nat \ {0} /\ Today \in Days
ASSUME AmountsAssumption == Amounts \subseteq Nat \ {0}
ASSUME RangesAssumption == Ranges \subseteq Body
ASSUME ListsAssumption == Lists \subseteq SUBSET Body
ASSUME ValuesAssumption ==
    Values \subseteq [amount : Amounts \cup {Omitted}, account : Accounts \cup {Omitted}]
ASSUME NoValuesAssumption ==
    NoSeries \notin Series /\ NoAccount \notin Accounts
    /\ Omitted \notin Amounts \cup Accounts

VARIABLES
    accounts,     \* the accounts that exist
    series,       \* the series that exist
    terms,        \* rows of recurring_series_terms
    req           \* per slot: operation, its series, the rows it has read

vars == <<accounts, series, terms, req>>

Idle == [op |-> "none", series |-> NoSeries, seen |-> {}]

TypeOK ==
    /\ accounts \subseteq Accounts
    /\ series \subseteq Series
    /\ terms \subseteq Row
    /\ req \in [Requests -> [op : Ops \cup {"none"},
                             series : Series \cup {NoSeries},
                             seen : SUBSET Row]]

-----------------------------------------------------------------------------
(* Reading ranges. *)

Of(rows, s) == {t \in rows : t.series = s}
IdsOf(rows) == {t.id : t \in rows}
Earliest(rows) == CHOOSE t \in rows : \A u \in rows : t.start <= u.start
Latest(rows) == CHOOSE t \in rows : \A u \in rows : u.start <= t.start

\* Ends are exclusive, so two ranges that meet do not overlap.
Overlap(a, b) == a.start < b.end /\ b.start < a.end

Covering(rows, d) == {t \in rows : t.start <= d /\ d < t.end}
UpTo(rows, d) == {t \in rows : t.start <= d}
After(rows, d) == {t \in rows : d < t.start}

EndIncluded(rows, d) ==       \* what if a range covered the day it ends
    LET on == {t \in rows : t.start <= d /\ d <= t.end} IN
    IF on # {} THEN Earliest(on)
    ELSE IF UpTo(rows, d) # {} THEN Latest(UpTo(rows, d))
    ELSE Earliest(rows)

\* The range in effect on day d for display: the one that covers it, else the
\* last one before it, else the first.
TermAt(rows, d) ==
    IF Covering(rows, d) # {} THEN Earliest(Covering(rows, d))
    ELSE IF UpTo(rows, d) # {} THEN Latest(UpTo(rows, d))
    ELSE Earliest(rows)

\* What a series says of itself, derived from its ranges in Go.
Derived(rows) ==
    [start |-> Earliest(rows).start, end |-> Latest(rows).end,
     amount |-> TermAt(rows, Today).amount,
     account |-> TermAt(rows, Today).account]

\* The same, computed by the SQL of GET /recurring.
Listed(rows) ==
    LET effective == IF UpTo(rows, Today) # {} THEN Latest(UpTo(rows, Today))
                     ELSE Earliest(rows)
    IN [start |-> Earliest(rows).start,
        end |-> CHOOSE e \in Ends : (\E t \in rows : t.end = e)
                                    /\ \A t \in rows : t.end <= e,
        amount |-> effective.amount, account |-> effective.account]

\* What day d is charged: nothing in a gap.
Pays(rows, d) ==
    IF Covering(rows, d) = {} THEN Omitted
    ELSE LET t == Earliest(Covering(rows, d))
         IN [amount |-> t.amount, account |-> t.account]

-----------------------------------------------------------------------------
(* Requests and the transactions they end with. *)

Answer(r) == req' = [req EXCEPT ![r] = Idle]

Referred == terms \cup UNION {req[q].seen : q \in Requests}
FreeIds == Ids \ IdsOf(Referred)

\* INSERT of a row or UPDATE of a start: UNIQUE (user_id, series_id, start_date).
StartsFree(rows, s, starts) == \A t \in Of(rows, s) : t.start \notin starts

ToRow(i, s, g) == [id |-> i, series |-> s, start |-> g.start, end |-> g.end,
                   amount |-> g.amount, account |-> g.account]

\* Rows for a list of ranges, each with an id of its own.
RowsFor(G, s) ==
    {{ToRow(f[g], s, g) : g \in G} :
        f \in {h \in [G -> FreeIds] : \A a, b \in G : a # b => h[a] # h[b]}}

\* A list of ranges a request may store: not empty, every range non-empty, no
\* two overlapping.
ValidList(G) ==
    /\ G # {}
    /\ \A g \in G : g.start < g.end
    /\ \A g, h \in G : g # h => ~Overlap(g, h)

\* The range a request asks for overlaps one of those it read.
Clashes(rows, g) == \E t \in rows : Overlap(t, g)

\* The handler reads the series and its ranges.  For "replace" this is what
\* the DELETE of the old list sees when it begins.
Load(r, o, s) ==
    /\ req[r] = Idle
    /\ s \in series
    /\ req' = [req EXCEPT ![r] = [op |-> o, series |-> s, seen |-> Of(terms, s)]]
    /\ UNCHANGED <<accounts, series, terms>>

\* Every early return, and every transaction that rolls back.
Fail(r) ==
    /\ req[r] # Idle
    /\ Answer(r)
    /\ UNCHANGED <<accounts, series, terms>>

CreateSeries(s, G) ==
    /\ s \notin series /\ Of(Referred, s) = {} /\ \A q \in Requests : req[q].series # s
    /\ ValidList(G)
    /\ \A g \in G : g.account \in accounts
    /\ \E rows \in RowsFor(G, s) : terms' = terms \cup rows
    /\ series' = series \cup {s}
    /\ UNCHANGED <<accounts, req>>

DeleteSeries(s) ==
    /\ s \in series
    /\ series' = series \ {s}
    /\ terms' = terms \ Of(terms, s)
    /\ UNCHANGED <<accounts, req>>

CreateRecurringTerm(r, g) ==
    LET s == req[r].series IN
    /\ req[r].op = "add"
    /\ g.start < g.end
    /\ ~Clashes(req[r].seen, g)
    /\ s \in series /\ g.account \in accounts
    /\ StartsFree(terms, s, {g.start})
    /\ \E i \in FreeIds : terms' = terms \cup {ToRow(i, s, g)}
    /\ Answer(r)
    /\ UNCHANGED <<accounts, series>>

\* g is the stored range as read, with the request's fields over it.
UpdateRecurringTerm(r, i, g) ==
    LET s == req[r].series
        others == {t \in terms : t.id # i}
    IN
    /\ req[r].op = "edit"
    /\ i \in IdsOf(req[r].seen)
    /\ g.start < g.end
    /\ ~Clashes({t \in req[r].seen : t.id # i}, g)
    /\ i \in IdsOf(Of(terms, s)) /\ g.account \in accounts
    /\ StartsFree(others, s, {g.start})
    /\ terms' = others \cup {ToRow(i, s, g)}
    /\ Answer(r)
    /\ UNCHANGED <<accounts, series>>

DeleteRecurringTerm(r, i) ==
    /\ req[r].op = "remove"
    /\ i \in IdsOf(req[r].seen)
    /\ Cardinality(req[r].seen) # 1
    /\ terms' = {t \in terms : t.id # i}
    /\ Answer(r)
    /\ UNCHANGED <<accounts, series>>

\* The rows that the DELETE of the old list did not see.
Kept(r) == {t \in terms : t.id \notin IdsOf(req[r].seen)}

\* The form edit of UpdateRecurringSeries: the rows the DELETE saw go, the
\* list comes in their place.
ReplaceRanges(r, G) ==
    LET s == req[r].series IN
    /\ req[r].op = "replace"
    /\ ValidList(G)
    /\ s \in series /\ \A g \in G : g.account \in accounts
    /\ StartsFree(Kept(r), s, {g.start : g \in G})
    /\ \E rows \in RowsFor(G, s) : terms' = Kept(r) \cup rows
    /\ Answer(r)
    /\ UNCHANGED <<accounts, series>>

\* The amount and account the series has today: zero values without a range.
Current(rows) ==
    IF rows = {} THEN [amount |-> 0, account |-> NoAccount]
    ELSE [amount |-> Derived(rows).amount, account |-> Derived(rows).account]

\* The request's fields over the series as it is today.
Merged(rows, v) ==
    [amount |-> IF v.amount = Omitted THEN Current(rows).amount ELSE v.amount,
     account |-> IF v.account = Omitted THEN Current(rows).account ELSE v.account]

\* The lightweight edit of UpdateRecurringSeries is a change of value, from a
\* day of the series on, to an account of the user.
Changes(r, eff, new) ==
    LET seen == req[r].seen IN
    /\ req[r].op = "change"
    /\ new # Current(seen)
    /\ seen # {} => Derived(seen).start <= eff
    /\ req[r].series \in series /\ new.account \in accounts

LastStarted(rows, eff) ==         \* what if it may have ended
    IF UpTo(rows, eff) = {} THEN {} ELSE {Latest(UpTo(rows, eff))}

ForGood(rows, eff) == Open        \* what if later ranges were not looked at

\* The range a change from eff cuts or overwrites, if one covers eff, and where
\* the change ends.
Covered(rows, eff) ==
    IF Covering(rows, eff) = {} THEN {} ELSE {Latest(Covering(rows, eff))}
Until(rows, eff) ==
    IF After(rows, eff) = {} THEN Open ELSE Earliest(After(rows, eff)).start

\* applyRecurringChange where a range starts on eff: its value is overwritten.
ChangeInPlace(r, eff, v) ==
    LET new == Merged(req[r].seen, v) IN
    /\ Changes(r, eff, new)
    /\ \E c \in Covered(req[r].seen, eff) :
          /\ c.start = eff
          /\ c.id \in IdsOf(terms)
          /\ terms' = {IF t.id = c.id
                       THEN [t EXCEPT !.amount = new.amount, !.account = new.account]
                       ELSE t : t \in terms}
    /\ Answer(r)
    /\ UNCHANGED <<accounts, series>>

\* applyRecurringChange elsewhere: the range that covers eff is closed there,
\* if it is still stored, and a new one runs to the next range that was read.
ChangeFrom(r, eff, v) ==
    LET s == req[r].series
        seen == req[r].seen
        new == Merged(seen, v)
        closed == {IF t.id \in IdsOf(Covered(seen, eff)) THEN [t EXCEPT !.end = eff]
                   ELSE t : t \in terms}
        g == [start |-> eff, end |-> Until(seen, eff),
              amount |-> new.amount, account |-> new.account]
    IN
    /\ Changes(r, eff, new)
    /\ \A c \in Covered(seen, eff) : c.start # eff
    /\ StartsFree(terms, s, {eff})
    /\ \E i \in FreeIds : terms' = closed \cup {ToRow(i, s, g)}
    /\ Answer(r)
    /\ UNCHANGED <<accounts, series>>

\* DeleteAccount decides which series go with the account on what its third
\* statement sees.
StartDeleteAccount(r) ==
    /\ req[r] = Idle
    /\ req' = [req EXCEPT ![r] = [op |-> "deleteAccount", series |-> NoSeries,
                                  seen |-> terms]]
    /\ UNCHANGED <<accounts, series, terms>>

NoSeriesGoes(rows, a) == {}       \* what if only the ranges went

\* The series with every range on a, among the rows read.
OnlyOn(rows, a) ==
    {s \in Series : Of(rows, s) # {} /\ \A t \in Of(rows, s) : t.account = a}

\* ... and the account's row takes its remaining ranges with it.
DeleteAccount(r, a) ==
    LET gone == OnlyOn(req[r].seen, a) IN
    /\ req[r].op = "deleteAccount"
    /\ a \in accounts
    /\ accounts' = accounts \ {a}
    /\ series' = series \ gone
    /\ terms' = {t \in terms : t.series \notin gone /\ t.account # a}
    /\ Answer(r)

\* A fresh account: no stored or read row refers to it.
CreateAccount(a) ==
    /\ a \notin accounts /\ \A t \in Referred : t.account # a
    /\ accounts' = accounts \cup {a}
    /\ UNCHANGED <<series, terms, req>>

-----------------------------------------------------------------------------
Init ==
    /\ accounts = {} /\ series = {} /\ terms = {}
    /\ req = [r \in Requests |-> Idle]

Handle(r) ==
    \/ \E o \in Ops \ {"deleteAccount"}, s \in Series : Load(r, o, s)
    \/ StartDeleteAccount(r)
    \/ Fail(r)
    \/ \E g \in Ranges : CreateRecurringTerm(r, g)
    \/ \E i \in Ids, g \in Ranges : UpdateRecurringTerm(r, i, g)
    \/ \E i \in Ids : DeleteRecurringTerm(r, i)
    \/ \E G \in Lists : ReplaceRanges(r, G)
    \/ \E eff \in Days, v \in Values :
          ChangeInPlace(r, eff, v) \/ ChangeFrom(r, eff, v)
    \/ \E a \in Accounts : DeleteAccount(r, a)

Next ==
    \/ \E r \in Requests : Handle(r)
    \/ \E s \in Series, G \in Lists : CreateSeries(s, G)
    \/ \E s \in Series : DeleteSeries(s)
    \/ \E a \in Accounts : CreateAccount(a)

Spec == Init /\ [][Next]_vars

-----------------------------------------------------------------------------
(* Properties. *)

\* The request of slot r answers in this step.
Answered(r) == req[r] # Idle /\ req'[r] = Idle

\* No range is empty or inverted and no day is claimed by two of them.
Apart(rows) ==
    /\ \A t \in rows : t.start < t.end
    /\ \A t, u \in rows : t.id # u.id => ~Overlap(t, u)

\* The list r read has every range of its series as it is stored now, so that
\* none was added or edited since (one may have been removed), and was sound.
Knows(r) == Of(terms, req[r].series) \subseteq req[r].seen /\ Apart(req[r].seen)

\* The ranges of a series come to overlap only through a handler that decided
\* on a list another request has added to or edited since: the rule every
\* handler checks on the list it read, no constraint of the schema states and
\* no lock protects.  A range removed meanwhile breaks nothing.
NoNewOverlap ==
    [][\A s \in Series :
         Apart(Of(terms, s)) /\ ~Apart(Of(terms', s)) =>
           \E r \in Requests : Answered(r) /\ req[r].series = s /\ ~Knows(r)]_vars

\* A series loses its last range and stays only through a handler that counted
\* ranges which have changed since: DeleteRecurringTerm refuses to remove the
\* last one it read, and DeleteAccount takes a series with the last one it
\* read.  A series without any disappears from GET /recurring with its
\* attachments in place.
KeepsARange ==
    [][\A s \in series \cap series' :
         Of(terms, s) # {} /\ Of(terms', s) = {} =>
           \E r \in Requests :
              Answered(r) /\ Of(req[r].seen, s) # Of(terms, s)]_vars

\* GET /recurring and the handlers that answer with one series derive its
\* period, amount and account from the same ranges by different rules, in SQL
\* and in Go, and give the same answer for every list without an overlap.
TwoViewsAgree ==
    \A s \in series :
       Of(terms, s) # {} /\ Apart(Of(terms, s)) =>
         Derived(Of(terms, s)) = Listed(Of(terms, s))

\* A change of value from eff rewrites no day before eff, and day eff is then
\* charged the new value, whatever range was removed, and whatever account
\* deleted, after the handler read the list.
ChangeFromEff ==
    [][\A r \in Requests : req[r].op = "change" /\ Knows(r) =>
         \A eff \in Days, v \in Values :
            ChangeInPlace(r, eff, v) \/ ChangeFrom(r, eff, v) =>
              LET s == req[r].series
                  before == Of(terms, s)
                  after == Of(terms', s)
              IN /\ \A d \in Days : d < eff => Pays(after, d) = Pays(before, d)
                 /\ Pays(after, eff) = Merged(req[r].seen, v)]_vars
=============================================================================
