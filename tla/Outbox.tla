------------------------------- MODULE Outbox -------------------------------
(***************************************************************************)
(* The offline outbox of the web app (frontend/src/api/outbox.ts), the     *)
(* calls that fill it (client.ts) and the ones that answer its questions   *)
(* (context/OfflineContext.tsx).                                           *)
(*                                                                         *)
(* The queue lives in localStorage and is shared by the user's tabs.       *)
(* JavaScript runs one handler at a time, so what the code does between    *)
(* two awaits is one step: reading the server's row, sending a write, and  *)
(* recording the answer are steps of their own, and everything else may    *)
(* happen between them: another tab's flush, the user answering a dialog,  *)
(* another device writing the row.  A flush walks the entries it read when *)
(* it started, not the queue as it stands.                                 *)
(***************************************************************************)
EXTENDS Merge, Naturals, Sequences

CONSTANTS
    Rows,           \* rows of the server the user's edits name
    Keys,           \* keys of queued writes, one per write the user makes
    Tabs,           \* tabs of the app, which share the queue
    Kinds,          \* the kinds of write the user makes
    Original,       \* what every field holds at first
    Entered,        \* what the user may enter in a field of this instance
    MaxEntries,     \* MAX_ENTRIES: a full queue refuses
    MaxOthers,      \* bound of the instance: writes of other devices
    NetworkFaults,  \* TRUE iff a read or a write may get no answer
    StorageFaults,  \* TRUE iff the browser may refuse to write the queue
    Refusals        \* TRUE iff the server may refuse a payload

ASSUME KindsType == Kinds \subseteq {"create", "edit", "bulk"}
ASSUME OriginalType == Original \in RowValues
ASSUME EnteredType == Entered \subseteq Values \cup {Cleared}
ASSUME BoundsType == MaxEntries \in Nat /\ MaxOthers \in Nat

VARIABLES
    server,    \* the rows as the server would answer them
    deleted,   \* rows the server no longer has
    created,   \* how many rows the server made for a client key
    view,      \* the rows as the pages show them: the base of the next edit
    queue,     \* the queue in localStorage
    tab,       \* the flush each tab is running
    remaking,  \* keys whose re-creation has been sent and not settled
    \* History.
    promised,  \* <<key, row>>: writes the user was told are queued
    sent,      \* <<key, row>>: writes the server has taken
    waived,    \* keys the user gave up, wholly or in some field
    others     \* how many writes other devices made

vars == <<server, deleted, created, view, queue, tab, remaking,
          promised, sent, waived, others>>

history == <<promised, sent, waived, others>>

-----------------------------------------------------------------------------
(* Entries of the queue.  An edit names one row and carries a patch; a bulk*)
(* write carries a patch of one field for many rows, with a base per row.  *)

NewRow     == "new row"                \* stands for the row a create makes
ASSUME NewRowApart == NewRow \notin Rows

Unanswered == [f \in Fields |-> "none"]

Entry == [key : Keys, kind : {"create", "edit", "bulk"}, rows : SUBSET Rows,
          base : [Rows -> Patch], patch : Patch,
          error : BOOLEAN, gone : BOOLEAN, conflict : SUBSET (Rows \X Fields),
          answer : [Fields -> {"none", "mine", "theirs"}]]

NewEntry(k, kind, rows, base, patch) ==
    [key |-> k, kind |-> kind, rows |-> rows, base |-> base, patch |-> patch,
     error |-> FALSE, gone |-> FALSE, conflict |-> {}, answer |-> Unanswered]

Targets(e)  == IF e.kind = "create" THEN {NewRow} ELSE e.rows
Decided(e)  == e.answer # Unanswered
Held(e)     == e.gone \/ e.conflict # {}

Queued(k)   == \E i \in 1..Len(queue) : queue[i].key = k
EntryOf(k)  == queue[CHOOSE i \in 1..Len(queue) : queue[i].key = k]

(* What `filter` leaves of an array: the elements at the positions given.  *)
Selected(s, at) ==
    LET upto[n \in 0..Len(s)] ==
            IF n = 0 THEN <<>>
            ELSE IF n \in at THEN Append(upto[n - 1], s[n]) ELSE upto[n - 1]
    IN  upto[Len(s)]

(* removeEntry, and the mutators: an entry that is not there stays so.     *)
Without(k)  == Selected(queue, {i \in 1..Len(queue) : queue[i].key # k})
Mutated(k, Change(_)) ==
    [i \in 1..Len(queue) |-> IF queue[i].key = k THEN Change(queue[i]) ELSE queue[i]]

(* `hold` clears what it supersedes; markRejected and resolveConflict set  *)
(* their own field only.                                                   *)
HeldForConflict(e, units) == [e EXCEPT !.conflict = units, !.error = FALSE, !.gone = FALSE]
HeldAsGone(e)             == [e EXCEPT !.gone = TRUE, !.error = FALSE, !.conflict = {}]
MarkedRejected(e)         == [e EXCEPT !.error = TRUE]
Resolved(e, answer)       == [e EXCEPT !.answer = answer, !.conflict = {}]
Answered(k, answer)       == Mutated(k, LAMBDA e : Resolved(e, answer))

-----------------------------------------------------------------------------
(* A tab's flush: the entries it has still to go through and, for the      *)
(* first of them, what the reads have decided so far.                      *)

NoFlush == [pc |-> "idle", todo |-> <<>>, clean |-> {}, units |-> {}, lost |-> {},
            skipped |-> {}, moved |-> {}]

PCs == {"idle", "plan", "answered"}

Flush == [pc : PCs, todo : Seq(Entry), clean : SUBSET Rows,
          units : SUBSET (Rows \X Fields), lost : SUBSET Rows,
          skipped : SUBSET Rows,
          moved : SUBSET (Rows \X Fields)]   \* history: written since it was read

TypeOK ==
    /\ server \in [Rows -> Row]
    /\ deleted \in SUBSET Rows
    /\ created \in [Keys -> Nat]
    /\ view \in [Rows -> Row]
    /\ queue \in Seq(Entry) /\ Len(queue) <= MaxEntries
    /\ tab \in [Tabs -> Flush]
    /\ remaking \in SUBSET Keys
    /\ promised \in SUBSET (Keys \X (Rows \cup {NewRow}))
    /\ sent \in SUBSET (Keys \X (Rows \cup {NewRow}))
    /\ waived \in SUBSET Keys
    /\ others \in 0..MaxOthers

Init ==
    /\ server = [r \in Rows |-> [f \in Fields |-> Original]]
    /\ deleted = {}
    /\ created = [k \in Keys |-> 0]
    /\ view = server
    /\ queue = <<>>
    /\ tab = [t \in Tabs |-> NoFlush]
    /\ remaking = {}
    /\ promised = {} /\ sent = {} /\ waived = {} /\ others = 0

-----------------------------------------------------------------------------
(* Recording a write: the request got no answer, so it goes into the queue.*)
(* It may have reached the server all the same (reached).                  *)

(* The user makes each write once; a full queue refuses it.                *)
MayRecord(k, kind) ==
    /\ kind \in Kinds
    /\ \A p \in promised : p[1] # k
    /\ Len(queue) < MaxEntries

(* History: what a step writes moves under the flushes of the other tabs.  *)
Changing == {u \in Rows \X Fields : server'[u[1]][u[2]] # server[u[1]][u[2]]}

MovedUnder(t) ==
    IF tab[t].pc = "idle" THEN tab[t] ELSE [tab[t] EXCEPT !.moved = @ \cup Changing]

Record(e, reached) ==
    /\ queue' = Append(queue, e)
    /\ promised' = promised \cup ({e.key} \X Targets(e))
    /\ sent' = IF reached THEN sent \cup ({e.key} \X Targets(e)) ELSE sent
    /\ reached => NetworkFaults
    /\ tab' = [t \in Tabs |-> MovedUnder(t)]
    /\ UNCHANGED <<deleted, view, remaking, waived, others>>

(* The endpoints.  POST /transactions answers the row it already made for  *)
(* the client key; PATCH writes the fields the body names; the bulk        *)
(* endpoints pass over the rows they do not find.                          *)
Inserted(made, k) == [made EXCEPT ![k] = IF @ = 0 THEN 1 ELSE @]

Patched(rows, patch) ==
    [r \in Rows |-> IF r \in rows \ deleted THEN Overlay(server[r], patch) ELSE server[r]]

QueueCreate(k) ==
    /\ MayRecord(k, "create")
    /\ UNCHANGED server
    /\ \E reached \in BOOLEAN :
          /\ created' = IF reached THEN Inserted(created, k) ELSE created
          /\ Record(NewEntry(k, "create", {}, [r \in Rows |-> NoPatch], NoPatch), reached)

(* pendingWrites: the last value the queue will put on a field, or Absent. *)
Pending(r, f) ==
    LET writers == {i \in 1..Len(queue) : r \in queue[i].rows
                                          /\ queue[i].patch[f] # Absent}
    IN  IF writers = {} THEN Absent
        ELSE queue[CHOOSE i \in writers : \A j \in writers : j <= i].patch[f]

(* enqueueEdit advances the form's base by what the queue will write.      *)
Projected(r) ==
    [f \in Fields |-> IF Pending(r, f) = Absent THEN view[r][f] ELSE Pending(r, f)]

QueueEdit(k, r, patch) ==
    /\ MayRecord(k, "edit")
    /\ patch # NoPatch /\ DiffAgainstBase(view[r], patch) = patch
    /\ \E reached \in (IF r \in deleted THEN {FALSE} ELSE BOOLEAN) :
          /\ server' = IF reached THEN Patched({r}, patch) ELSE server
          /\ Record(NewEntry(k, "edit", {r},
                             [x \in Rows |-> IF x = r THEN Projected(r) ELSE NoPatch],
                             patch), reached)
    /\ UNCHANGED created

(* bulkCategorize and its siblings: the rows that do not hold the value,   *)
(* each against the value its page showed.                                 *)
QueueBulk(k, chosen, f, v) ==
    /\ MayRecord(k, "bulk")
    /\ LET rows  == {r \in chosen : view[r][f] # v}
           patch == [NoPatch EXCEPT ![f] = v]
           base  == [r \in Rows |-> IF r \in rows THEN [NoPatch EXCEPT ![f] = view[r][f]]
                                                  ELSE NoPatch]
       IN  /\ rows # {}
           /\ \E reached \in BOOLEAN :
                 /\ server' = IF reached THEN Patched(rows, patch) ELSE server
                 /\ Record(NewEntry(k, "bulk", rows, base, patch), reached)
    /\ UNCHANGED created

Queue(k) ==
    \/ QueueCreate(k)
    \/ \E r \in Rows, patch \in [Fields -> Entered \cup {Absent}] : QueueEdit(k, r, patch)
    \/ \E chosen \in SUBSET Rows, f \in Fields, v \in Entered :
          QueueBulk(k, chosen, f, v)

-----------------------------------------------------------------------------
(* flushOutbox.                                                            *)

Current(t) == Head(tab[t].todo)
Unread(t)  == Current(t).rows \ (tab[t].clean \cup tab[t].lost \cup tab[t].skipped
                                 \cup {u[1] : u \in tab[t].units})
Planned(t) == tab[t].pc = "plan" /\ Unread(t) = {}

EntriesLeft(todo) ==
    IF todo = <<>> THEN NoFlush ELSE [NoFlush EXCEPT !.pc = "plan", !.todo = todo]

Break(t)    == tab' = [tab EXCEPT ![t] = NoFlush]
Continue(t) == tab' = [tab EXCEPT ![t] = EntriesLeft(Tail(tab[t].todo))]

(* A sync passes over rejected entries; a retry takes them up.             *)
Attempted(retry) == Selected(queue, {i \in 1..Len(queue) : retry \/ ~queue[i].error})

StartSync(t, retry) ==
    /\ tab[t].pc = "idle"
    /\ Attempted(retry) # <<>>
    /\ tab' = [tab EXCEPT ![t] = EntriesLeft(Attempted(retry))]
    /\ UNCHANGED <<server, deleted, created, view, queue, remaking>>
    /\ UNCHANGED history

(* planEdit and planBulk read the server's row, one row at a time, and     *)
(* decide it: lost, decided already, or merged.                            *)
ReadRow(t, r) ==
    /\ tab[t].pc = "plan" /\ r \in Unread(t)
    /\ LET e     == Current(t)
           units == {r} \X Conflicts(e.base[r], e.patch, server[r])
           keeps == e.kind = "bulk" /\ \A f \in Carried(e.patch) : e.answer[f] = "theirs"
           gone  == r \in deleted
           only(rows, when) == IF when THEN rows ELSE {}
       IN  tab' = [tab EXCEPT ![t] =
             [pc      |-> "plan",
              todo    |-> tab[t].todo,
              moved   |-> tab[t].moved \ ({r} \X Fields),
              lost    |-> tab[t].lost \cup only({r}, gone),
              skipped |-> tab[t].skipped \cup only({r}, ~gone /\ Decided(e) /\ keeps),
              units   |-> tab[t].units \cup only(units, ~gone /\ ~Decided(e)),
              clean   |-> tab[t].clean
                            \cup only({r}, ~gone /\ IF Decided(e) THEN ~keeps
                                                               ELSE units = {})]]
    /\ UNCHANGED <<server, deleted, created, view, queue, remaking>>
    /\ UNCHANGED history

(* What goes out for the rows that merged clean: the user's own patch, the *)
(* fields answered "theirs" left unnamed.                                  *)
Outgoing(t, r) ==
    LET e == Current(t)
    IN  [f \in Fields |-> IF e.answer[f] = "theirs" THEN Absent ELSE e.patch[f]]

SomethingToSend(t) ==
    \/ Current(t).kind = "create"
    \/ \E r \in tab[t].clean : Outgoing(t, r) # NoPatch

(* The server takes the write; an edit of a row it no longer has is a 404. *)
Deliver(t) ==
    /\ Planned(t) /\ SomethingToSend(t)
    /\ LET e == Current(t) IN
       /\ e.kind = "edit" => e.rows \cap deleted = {}
       /\ created' = IF e.kind = "create" THEN Inserted(created, e.key) ELSE created
       /\ server' = [r \in Rows |-> IF r \in tab[t].clean \ deleted
                                    THEN Overlay(server[r], Outgoing(t, r))
                                    ELSE server[r]]
       /\ sent' = sent \cup ({e.key} \X (IF e.kind = "create" THEN {NewRow}
                                                              ELSE tab[t].clean))
    /\ tab' = [u \in Tabs |-> IF u = t THEN [tab[t] EXCEPT !.pc = "answered"]
                                      ELSE MovedUnder(u)]
    /\ UNCHANGED <<deleted, view, queue, remaking, promised, waived, others>>

(* A 4xx is a definite answer about the entry: it is marked, and the flush *)
(* goes on.                                                                *)
Reject(t) ==
    /\ Planned(t) /\ SomethingToSend(t)
    /\ Refusals \/ (Current(t).kind = "edit" /\ Current(t).rows \cap deleted # {})
    /\ \/ /\ queue' = Mutated(Current(t).key, MarkedRejected)
          /\ Continue(t)
       \/ StorageFaults /\ Break(t) /\ UNCHANGED queue
    /\ UNCHANGED <<server, deleted, created, view, remaking>>
    /\ UNCHANGED history

(* No answer, a session problem or a server error stops the flush, whether *)
(* it was a read, a write that never arrived, or one that did.             *)
NoAnswer(t) ==
    /\ NetworkFaults
    /\ tab[t].pc # "idle"
    /\ tab[t].pc = "plan" => Unread(t) # {} \/ SomethingToSend(t)
    /\ Break(t)
    /\ UNCHANGED <<server, deleted, created, view, queue, remaking>>
    /\ UNCHANGED history

SnapshotWins(t) ==                     \* what if the flush wrote its own copy back
    LET e == Current(t) IN
    IF tab[t].units # {}
    THEN Append(Without(e.key), HeldForConflict(e, tab[t].units))
    ELSE IF tab[t].lost # {} /\ tab[t].pc # "answered"
    THEN Append(Without(e.key), HeldAsGone(e))
    ELSE Without(e.key)

PartIsWhole(t) ==                      \* what if a part of a batch settled it
    LET e == Current(t) IN
    IF tab[t].pc = "answered" THEN Without(e.key)
    ELSE IF tab[t].units # {} THEN Mutated(e.key, LAMBDA x : HeldForConflict(x, tab[t].units))
    ELSE IF tab[t].lost # {} THEN Mutated(e.key, HeldAsGone)
    ELSE Without(e.key)

Settled(t) ==
    LET e == Current(t) IN
    IF tab[t].units # {} THEN Mutated(e.key, LAMBDA x : HeldForConflict(x, tab[t].units))
    ELSE IF tab[t].lost # {} /\ tab[t].pc # "answered" THEN Mutated(e.key, HeldAsGone)
    ELSE Without(e.key)

Settle(t) ==
    /\ tab[t].pc = "answered" \/ (Planned(t) /\ ~SomethingToSend(t))
    /\ \/ queue' = Settled(t) /\ Continue(t)
       \/ StorageFaults /\ Break(t) /\ UNCHANGED queue
    /\ UNCHANGED <<server, deleted, created, view, remaking>>
    /\ UNCHANGED history

-----------------------------------------------------------------------------
(* The user's answers.  A storage that refuses leaves everything as it was.*)

DiscardFailed ==
    /\ \E i \in 1..Len(queue) : queue[i].error
    /\ queue' = Selected(queue, {i \in 1..Len(queue) : ~queue[i].error})
    /\ waived' = waived \cup {queue[i].key : i \in {j \in 1..Len(queue) : queue[j].error}}
    /\ UNCHANGED <<server, deleted, created, view, tab, remaking, promised, sent,
                   others>>

DiscardConflicts ==
    /\ \E i \in 1..Len(queue) : Held(queue[i])
    /\ queue' = Selected(queue, {i \in 1..Len(queue) : ~Held(queue[i])})
    /\ waived' = waived \cup {queue[i].key : i \in {j \in 1..Len(queue) : Held(queue[j])}}
    /\ UNCHANGED <<server, deleted, created, view, tab, remaking, promised, sent,
                   others>>

DiscardConflict(k) ==
    /\ Queued(k) /\ Held(EntryOf(k))
    /\ queue' = Without(k)
    /\ waived' = waived \cup {k}
    /\ UNCHANGED <<server, deleted, created, view, tab, remaking, promised, sent,
                   others>>

(* The dialog asks for every field in conflict.                            *)
ResolveConflict(k) ==
    /\ Queued(k) /\ EntryOf(k).conflict # {} /\ ~EntryOf(k).gone
    /\ \E side \in [{u[2] : u \in EntryOf(k).conflict} -> {"mine", "theirs"}] :
          LET answer == [f \in Fields |-> IF f \in DOMAIN side THEN side[f] ELSE "none"]
          IN  /\ queue' = Answered(k, answer)
              /\ waived' = IF \E f \in DOMAIN side : side[f] = "theirs"
                           THEN waived \cup {k} ELSE waived
    /\ UNCHANGED <<server, deleted, created, view, tab, remaking, promised, sent,
                   others>>

(* reCreate: only for a row the server no longer has, and under the        *)
(* entry's own key, as often as the user clicks; the entry leaves the queue*)
(* once the row is there.                                                  *)
AnyHeld(e)      == Held(e)             \* what if a conflict could be re-created
MayReCreate(e)  == e.kind = "edit" /\ e.gone

ReCreate(k) ==
    /\ Queued(k) /\ MayReCreate(EntryOf(k))
    /\ remaking' = remaking \cup {k}
    /\ \/ created' = Inserted(created, k)
       \/ (NetworkFaults \/ Refusals) /\ UNCHANGED created
    /\ UNCHANGED <<server, deleted, view, queue, tab>>
    /\ UNCHANGED history

ReCreateAnswered(k) ==
    /\ k \in remaking
    /\ remaking' = remaking \ {k}
    /\ \/ /\ created[k] > 0
          /\ queue' = Without(k)
          /\ sent' = sent \cup {p \in promised : p[1] = k}
       \/ /\ NetworkFaults \/ StorageFaults \/ created[k] = 0
          /\ UNCHANGED <<queue, sent>>
    /\ UNCHANGED <<server, deleted, created, view, tab, promised, waived, others>>

(* The pages load the rows again.                                          *)
Reload ==
    /\ view # server
    /\ view' = server
    /\ UNCHANGED <<server, deleted, created, queue, tab, remaking>>
    /\ UNCHANGED history

-----------------------------------------------------------------------------
(* Other devices of the user, and the other users of a shared row.         *)

OtherWrites(r, f, v) ==
    /\ others < MaxOthers /\ r \notin deleted /\ server[r][f] # v
    /\ server' = [server EXCEPT ![r][f] = v]
    /\ others' = others + 1
    /\ tab' = [t \in Tabs |-> MovedUnder(t)]
    /\ UNCHANGED <<deleted, created, view, queue, remaking, promised, sent, waived>>

OtherDeletes(r) ==
    /\ others < MaxOthers /\ r \notin deleted
    /\ deleted' = deleted \cup {r}
    /\ others' = others + 1
    /\ UNCHANGED <<server, created, view, queue, tab, remaking, promised, sent,
                   waived>>

-----------------------------------------------------------------------------
FlushStep(t) ==
    \/ \E r \in Rows : ReadRow(t, r)
    \/ Deliver(t) \/ Reject(t) \/ Settle(t)

UserStep ==
    \/ \E k \in Keys : Queue(k) \/ DiscardConflict(k) \/ ResolveConflict(k)
                       \/ ReCreate(k) \/ ReCreateAnswered(k)
    \/ DiscardFailed \/ DiscardConflicts \/ Reload

Next ==
    \/ UserStep
    \/ \E t \in Tabs : FlushStep(t) \/ NoAnswer(t)
                       \/ \E retry \in BOOLEAN : StartSync(t, retry)
    \/ \E r \in Rows : OtherDeletes(r) \/ \E f \in Fields, v \in RowValues : OtherWrites(r, f, v)

Spec == Init /\ [][Next]_vars

-----------------------------------------------------------------------------
(* Properties.                                                             *)

(* No promised write is lost: until the server has taken it, or its row is *)
(* gone, or the user gave it up, it is in the queue.  (A flush that sends  *)
(* part of a batch must keep the rest; discards must take what they name.) *)
NoWriteLost ==
    \A p \in promised : Queued(p[1]) \/ p \in sent \/ p[1] \in waived \/ p[2] \in deleted

(* Re-creating a row never duplicates one: the edited row is gone.         *)
ReCreatedIfGone ==
    \A p \in promised : p[2] \in Rows /\ created[p[1]] > 0 => p[2] \in deleted

(* The entry a delivery writes, and the fields it changes.                 *)
Delivering(t) == tab[t].pc = "plan" /\ tab'[t].pc = "answered"

(* Nothing unseen is overwritten: an entry the user was not asked about    *)
(* replaces only the value its edit was made against, or one written after *)
(* the flush read the row.  An edit that repeats a queued value (base and  *)
(* patch agree) is left out: the merge takes it for no change at all.      *)
ReplacesKnown ==
    [][\A t \in Tabs : Delivering(t) /\ ~Decided(Current(t)) =>
          \A u \in Changing \ tab[t].moved :
             LET base == Current(t).base[u[1]][u[2]] IN
             \/ server[u[1]][u[2]] = Project(base)
             \/ base = Current(t).patch[u[2]]]_vars

(* An entry that has left the queue never comes back: a flush that still   *)
(* walks an entry the user discarded, or another tab sent, records what it *)
(* learns on no entry at all (mutateEntry).                                *)
LeavesForGood ==
    [][\A p \in promised : ~Queued(p[1]) => ~Queued(p[1])']_vars
=============================================================================
