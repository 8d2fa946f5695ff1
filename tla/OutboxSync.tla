----------------------------- MODULE OutboxSync -----------------------------
(***************************************************************************)
(* When the outbox is flushed: the effect of OfflineContext.tsx that sends *)
(* what is waiting once there is a connection, in the one tab the user has *)
(* open.                                                                   *)
(*                                                                         *)
(* The effect runs when one of its dependencies has changed: the browser's *)
(* connection flag, the length of the queue, the number of entries the     *)
(* user has answered.  React runs it right after the handler that changed  *)
(* one, before the tab's next handler.  It does nothing while a flush is   *)
(* running (syncingRef), and nothing runs it again when the flush ends.    *)
(*                                                                         *)
(* A request that is in the air when the connection drops gets no answer;  *)
(* one that is sent over a connection that stays gets one, and the server  *)
(* takes it or refuses it for good.                                        *)
(***************************************************************************)
EXTENDS Outbox, FiniteSets

ASSUME OneTab == \E t \in Tabs : Tabs = {t}

VARIABLES
    online,    \* navigator.onLine
    due,       \* TRUE iff the effect is to run
    hung,      \* TRUE iff the flush waits for an answer that will not come
    owed       \* history: keys the page is to send without being told to

link == <<online, due, hung, owed>>

-----------------------------------------------------------------------------
TheTab  == CHOOSE t \in Tabs : TRUE
Idle    == tab[TheTab].pc = "idle"
Answers == online /\ ~hung               \* what the tab has sent is answered

(* A flush waits for an answer, of a read or of the write it has sent; or  *)
(* it has nothing to ask, and what it does next is between two awaits.     *)
Waits == \/ tab[TheTab].pc = "answered"
         \/ tab[TheTab].pc = "plan" /\ (Unread(TheTab) # {} \/ SomethingToSend(TheTab))

Watched    == <<Len(queue), Cardinality({i \in 1..Len(queue) : Decided(queue[i])})>>

(* A queued write reaches an outcome: taken, refused, or held for the user.*)
Outcome(k) == ~Queued(k) \/ Held(EntryOf(k)) \/ EntryOf(k).error

(* A write that waits for a flush, and not for the user.                   *)
Waiting == {k \in Keys : Queued(k) /\ ~Outcome(k)}

Started == Waiting' \ Waiting

(* Answered once and held again: a second answer leaves `decided` as it is.*)
AnsweredBefore == {k \in Keys : Queued(k) /\ Decided(EntryOf(k))}

SyncInit ==
    /\ Init
    /\ online = TRUE /\ due = FALSE /\ hung = FALSE /\ owed = {}

-----------------------------------------------------------------------------
(* The tab's handlers, one at a time, the effect before any other.         *)

Effect ==
    /\ due /\ due' = FALSE
    /\ IF Attempted(FALSE) = <<>> THEN UNCHANGED vars ELSE StartSync(TheTab, FALSE)
    /\ UNCHANGED <<online, hung, owed>>

(* "Sync now" and "Retry": there is something to send, or to send again.   *)
SyncNow ==
    /\ ~due /\ online
    /\ \/ Waiting # {} /\ StartSync(TheTab, FALSE)
       \/ (\E i \in 1..Len(queue) : queue[i].error) /\ StartSync(TheTab, TRUE)
    /\ UNCHANGED link

UserHandler ==
    /\ ~due
    /\ UserStep
    /\ due' = (Watched' # Watched /\ online /\ Idle /\ queue' # <<>>)
    /\ owed' = IF online /\ Idle THEN Waiting' \cap (owed \cup (Started \ AnsweredBefore))
                                 ELSE owed \cap Waiting'
    /\ UNCHANGED <<online, hung>>

(* The last step of a flush changes the queue too; the effect that follows *)
(* still finds syncingRef set.                                             *)
FlushHandler ==
    /\ ~due
    /\ FlushStep(TheTab) /\ (Answers \/ ~Waits)
    /\ hung' = (hung /\ ~Idle')
    /\ owed' = IF StorageFaults /\ Idle' /\ queue' = queue THEN {} ELSE owed \cap Waiting'
    /\ UNCHANGED <<online, due>>

FlushStops ==
    /\ ~due
    /\ ~Answers /\ NoAnswer(TheTab)
    /\ hung' = FALSE
    /\ UNCHANGED <<online, due, owed>>

-----------------------------------------------------------------------------
(* The connection, and the page.                                           *)

GoOffline ==
    /\ online /\ ~due
    /\ online' = FALSE
    /\ hung' = ~Idle
    /\ owed' = {}
    /\ UNCHANGED due /\ UNCHANGED vars

(* "on mount (a queue left over from a previous session) and on every      *)
(* reconnect"                                                              *)
GoOnline ==
    /\ ~online
    /\ online' = TRUE
    /\ due' = (Idle /\ queue # <<>>)
    /\ owed' = IF Idle THEN Waiting ELSE {}
    /\ UNCHANGED hung /\ UNCHANGED vars

(* The page is closed, or loaded again: what it had begun is gone.  One    *)
(* that opens with a connection opens and then comes online.               *)
Launch ==
    /\ online' = FALSE
    /\ due' = FALSE /\ hung' = FALSE /\ owed' = {}
    /\ tab' = [tab EXCEPT ![TheTab] = NoFlush]
    /\ remaking' = {}
    /\ UNCHANGED <<server, deleted, created, view, queue>>
    /\ UNCHANGED history

Elsewhere ==
    /\ \E r \in Rows : \/ OtherDeletes(r)
                       \/ \E f \in Fields, v \in RowValues : OtherWrites(r, f, v)
    /\ UNCHANGED link

SyncNext ==
    \/ Effect \/ SyncNow \/ UserHandler \/ FlushHandler \/ FlushStops
    \/ GoOffline \/ GoOnline \/ Launch \/ Elsewhere

(* React runs an effect that is due, and a flush the tab has begun goes on *)
(* as long as it is answered.  Nobody need press a button, and the         *)
(* connection need not come back.                                          *)
SyncSpec ==
    /\ SyncInit /\ [][SyncNext]_<<vars, link>>
    /\ WF_<<vars, link>>(Effect)
    /\ WF_<<vars, link>>(FlushHandler)

-----------------------------------------------------------------------------
(* Properties.                                                             *)


(* An answer is itself a reason to send: one that is given on a connected  *)
(* page, with no flush running, makes the effect run.                      *)
EveryAnswerIsSent ==
    [][\A k \in Keys : online /\ Idle /\ Queued(k) /\ k \notin Waiting /\ k \in Waiting'
         => due']_<<vars, link>>
=============================================================================
