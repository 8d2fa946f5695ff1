------------------------------ MODULE Sessions ------------------------------
(***************************************************************************)
(* Server-side sessions of the FinTrak backend: login, refresh-token       *)
(* rotation with reuse detection, logout, and the revocation routes        *)
(* (backend/handlers/auth.go, backend/handlers/session.go and RequireAuth  *)
(* in backend/auth/auth.go), over the tables `sessions` and                *)
(* `refresh_tokens`.                                                       *)
(*                                                                         *)
(* A session row's id IS the family id of its refresh tokens, so one value *)
(* of Families names both.  Every HTTP request runs as a process of its    *)
(* own (Requests) and takes one step per SQL statement: PostgreSQL runs    *)
(* READ COMMITTED, so each statement sees what had committed when it       *)
(* started, an UPDATE waits for the row locks of an open transaction and   *)
(* then checks its WHERE clause again on the rows it had found.  Cookies   *)
(* live in a jar per device and are shared by the requests of the device's *)
(* tabs; a response may be lost after the server has acted.                *)
(***************************************************************************)
EXTENDS Naturals, FiniteSets

CONSTANTS
    Families,        \* ids of sessions, which are the ids of token families
    Tokens,          \* refresh tokens (rows of refresh_tokens)
    Devices,         \* browsers, one cookie jar each
    Users,
    UserOf,          \* the user who signs in on a device
    Requests,        \* requests the server can be handling at once
    MaxPerDevice,    \* requests one device has in flight at once (its tabs)
    LossyNetwork,    \* TRUE iff a response may never reach the device
    DBFaults,        \* TRUE iff a statement or a commit may fail
    Enabled,         \* the operations the clients of the instance use
    None

ASSUME UserOfType == UserOf \in [Devices -> Users]

ASSUME NoneIsFresh ==
    None \notin Families \cup Tokens \cup Devices \cup Users \cup Requests

VARIABLES
    sessions,   \* rows of sessions: the owner, and whether revoked_at is set
    tokens,     \* rows of refresh_tokens, as committed
    rowLock,    \* the request whose open transaction has updated a token row
    expired,    \* families past their absolute deadline
    jar,        \* the cookies of each device
    req,        \* the requests being handled
    cause       \* history: why a family may have been ended

vars == <<sessions, tokens, rowLock, expired, jar, req, cause>>

-----------------------------------------------------------------------------
(* State.                                                                  *)

NoSession == [user |-> None, revoked |-> FALSE]
NoToken   == [family |-> None, revoked |-> FALSE, replacedBy |-> None]
NoCookies == [refresh |-> None, access |-> None]
IdleReq   == [pc |-> "idle", op |-> "none", device |-> None, token |-> None,
              sid |-> None, family |-> None, snapshot |-> {}, batch |-> {}]

BulkOps == {"revokeAll", "revokeOthers"}
Ops     == {"none", "login", "refresh", "logout", "revoke"} \cup BulkOps
PCs     == {"idle", "family", "lookup", "authed", "rotate", "successor",
            "endFamily", "endFamilyRun", "endSession", "drain", "reply", "clear"}

(* Rows and requests, by what they are.                                    *)
Recorded(f) == sessions[f].user # None
Issued(t)   == tokens[t].family # None
Live(t)     == Issued(t) /\ ~tokens[t].revoked
Busy(r)     == req[r].pc # "idle"

SessionRow == [user : Users \cup {None}, revoked : BOOLEAN]
TokenRow   == [family : Families \cup {None}, revoked : BOOLEAN,
               replacedBy : Tokens \cup {None}]
Jar        == [refresh : Tokens \cup {None}, access : Families \cup {None}]
Request    == [pc : PCs, op : Ops, device : Devices \cup {None},
               token : Tokens \cup {None}, sid : Families \cup {None},
               family : Families \cup {None}, snapshot : SUBSET Tokens,
               batch : SUBSET Families]

TypeOK ==
    /\ sessions \in [Families -> SessionRow]
    /\ tokens \in [Tokens -> TokenRow]
    /\ rowLock \in [Tokens -> Requests \cup {None}]
    /\ expired \in SUBSET Families
    /\ jar \in [Devices -> Jar]
    /\ req \in [Requests -> Request]
    /\ cause \in [Families -> SUBSET {"asked", "replay"}]

Init ==
    /\ sessions = [f \in Families |-> NoSession]
    /\ tokens = [t \in Tokens |-> NoToken]
    /\ rowLock = [t \in Tokens |-> None]
    /\ expired = {}
    /\ jar = [d \in Devices |-> NoCookies]
    /\ req = [r \in Requests |-> IdleReq]
    /\ cause = [f \in Families |-> {}]

-----------------------------------------------------------------------------
(* Requests.  A request carries the cookies the jar held when it was sent. *)

(* Bound of the instance: a tab waits its turn, and a request that may     *)
(* need a fresh token is sent only while one is left for it.               *)
MaySend(r, d, op) ==
    /\ op \in Enabled
    /\ ~Busy(r)
    /\ Cardinality({q \in Requests : Busy(q) /\ req[q].device = d}) < MaxPerDevice

TokenLeft ==
    Cardinality({q \in Requests : Busy(q) /\ req[q].op \in {"login", "refresh"}})
        < Cardinality({t \in Tokens : ~Issued(t)})

Received(op, pc, d, f) ==
    [IdleReq EXCEPT !.pc = pc, !.op = op, !.device = d, !.family = f,
                    !.token = jar[d].refresh, !.sid = jar[d].access]

Goto(r, pc) == req' = [req EXCEPT ![r].pc = pc]
Done(r)     == req' = [req EXCEPT ![r] = IdleReq]

SendRefresh(r, d) ==
    /\ MaySend(r, d, "refresh") /\ TokenLeft
    /\ jar[d].refresh # None
    /\ req' = [req EXCEPT ![r] = Received("refresh", "lookup", d, None)]
    /\ UNCHANGED <<sessions, tokens, rowLock, expired, jar, cause>>

SendLogout(r, d) ==
    /\ MaySend(r, d, "logout")
    /\ req' = [req EXCEPT ![r] = Received("logout", "lookup", d, None)]
    /\ UNCHANGED <<sessions, tokens, rowLock, expired, jar, cause>>

SendRevoke(r, d, f) ==
    /\ MaySend(r, d, "revoke")
    /\ jar[d].access # None
    /\ req' = [req EXCEPT ![r] = Received("revoke", "lookup", d, f)]
    /\ UNCHANGED <<sessions, tokens, rowLock, expired, jar, cause>>

SendBulkRevoke(r, d, op) ==
    /\ MaySend(r, d, op)
    /\ jar[d].access # None
    /\ req' = [req EXCEPT ![r] = Received(op, "lookup", d, None)]
    /\ UNCHANGED <<sessions, tokens, rowLock, expired, jar, cause>>

-----------------------------------------------------------------------------
(* Login: the session row, then the first token of its family, in two      *)
(* statements of their own; the cookies are set only after both.           *)

NoRowWritten(d)  == NoSession          \* what if recordSession were skipped
NewSession(d)    == [user |-> UserOf[d], revoked |-> FALSE]

RecordSession(r, d) ==
    /\ MaySend(r, d, "login") /\ TokenLeft
    /\ \E f \in Families :
          /\ ~Recorded(f)
          /\ sessions' = [sessions EXCEPT ![f] = NewSession(d)]
          /\ req' = [req EXCEPT ![r] = Received("login", "family", d, f)]
    /\ UNCHANGED <<tokens, rowLock, expired, jar, cause>>

StartRefreshFamily(r) ==
    /\ req[r].pc = "family"
    /\ \E t \in Tokens :
          /\ ~Issued(t)
          /\ tokens' = [tokens EXCEPT ![t].family = req[r].family]
          /\ req' = [req EXCEPT ![r].pc = "reply", ![r].token = t]
    /\ UNCHANGED <<sessions, rowLock, expired, jar, cause>>

-----------------------------------------------------------------------------
(* Refresh.                                                                *)

(* The lookup by token hash.  A token past its deadline does not parse; a  *)
(* revoked row is a replay, which ends the whole session.                  *)
RefreshLookup(r) ==
    /\ req[r].pc = "lookup" /\ req[r].op = "refresh"
    /\ LET row == tokens[req[r].token] IN
       \/ /\ row.family \in expired
          /\ Goto(r, "clear")
          /\ UNCHANGED cause
       \/ /\ row.family \notin expired /\ ~row.revoked
          /\ req' = [req EXCEPT ![r].pc = "rotate", ![r].family = row.family]
          /\ UNCHANGED cause
       \/ /\ row.family \notin expired /\ row.revoked
          /\ req' = [req EXCEPT ![r].pc = "endFamily", ![r].family = row.family]
          /\ cause' = [cause EXCEPT ![row.family] = @ \cup {"replay"}]
    /\ UNCHANGED <<sessions, tokens, rowLock, expired, jar>>

(* RenewAccess refuses past the absolute deadline.                         *)
RenewRefused(r) ==
    /\ req[r].pc = "rotate"
    /\ req[r].family \in expired
    /\ Goto(r, "clear")
    /\ UNCHANGED <<sessions, tokens, rowLock, expired, jar, cause>>

(* rotateRefreshToken, first statement: the UPDATE that spends the token   *)
(* waits for another rotation of the same row, and matches only a live one.*)
SpendAnything(t) == TRUE     \* what if the UPDATE did not ask revoked_at IS NULL
Spendable(t)     == ~tokens[t].revoked

RotateSpend(r) ==
    /\ req[r].pc = "rotate"
    /\ rowLock[req[r].token] = None
    /\ Spendable(req[r].token)
    /\ rowLock' = [rowLock EXCEPT ![req[r].token] = r]
    /\ Goto(r, "successor")
    /\ UNCHANGED <<sessions, tokens, expired, jar, cause>>

(* No row matched: errRefreshReused, the loser of a race ends the session. *)
RotateReused(r) ==
    /\ req[r].pc = "rotate"
    /\ rowLock[req[r].token] = None
    /\ ~Spendable(req[r].token)
    /\ Goto(r, "endFamily")
    /\ cause' = [cause EXCEPT ![req[r].family] = @ \cup {"replay"}]
    /\ UNCHANGED <<sessions, tokens, rowLock, expired, jar>>

(* The successor row, the link to it and the commit, which others see as   *)
(* one step.                                                               *)
KeepLock(r) == UNCHANGED rowLock     \* what if the transaction were left open
Unlock(r)   == rowLock' = [t \in Tokens |-> IF rowLock[t] = r THEN None ELSE rowLock[t]]

RotateCommit(r) ==
    /\ req[r].pc = "successor"
    /\ \E n \in Tokens :
          /\ ~Issued(n)
          /\ tokens' = [tokens EXCEPT
                ![req[r].token].revoked = TRUE,
                ![req[r].token].replacedBy = n,
                ![n].family = req[r].family]
          /\ req' = [req EXCEPT ![r].pc = "reply", ![r].token = n]
    /\ Unlock(r)
    /\ UNCHANGED <<sessions, expired, jar, cause>>

-----------------------------------------------------------------------------
(* Ending a session: the two halves, family first.                         *)

(* UPDATE refresh_tokens ... WHERE family_id = f AND revoked_at IS NULL.   *)
(* The rows it will touch are the ones live when the statement starts.     *)
RevokeFamilyStart(r) ==
    /\ req[r].pc = "endFamily"
    /\ req' = [req EXCEPT ![r].pc = "endFamilyRun",
          ![r].snapshot = {t \in Tokens : tokens[t].family = req[r].family
                                          /\ ~tokens[t].revoked}]
    /\ UNCHANGED <<sessions, tokens, rowLock, expired, jar, cause>>

AfterFamily(r) ==
    req' = [req EXCEPT ![r].snapshot = {},
              ![r].pc = IF req[r].op \in BulkOps THEN "drain" ELSE "endSession"]

(* ... and it ends once no open rotation holds one of those rows.          *)
RevokeFamilyFinish(r) ==
    /\ req[r].pc = "endFamilyRun"
    /\ \A t \in req[r].snapshot : rowLock[t] = None
    /\ tokens' = [t \in Tokens |->
                    IF t \in req[r].snapshot THEN [tokens[t] EXCEPT !.revoked = TRUE]
                                             ELSE tokens[t]]
    /\ AfterFamily(r)
    /\ UNCHANGED <<sessions, rowLock, expired, jar, cause>>

(* revokeSession, and the owner-scoped UPDATE of RevokeSession.            *)
RevokeRow(r) ==
    /\ req[r].pc = "endSession"
    /\ sessions' = [sessions EXCEPT ![req[r].family].revoked = TRUE]
    /\ IF req[r].op = "revoke" THEN Done(r) ELSE Goto(r, "clear")
    /\ UNCHANGED <<tokens, rowLock, expired, jar, cause>>

-----------------------------------------------------------------------------
(* Logout and the revocation routes.                                       *)

LogoutLookup(r) ==
    /\ req[r].pc = "lookup" /\ req[r].op = "logout"
    /\ \/ /\ req[r].token = None
          /\ Goto(r, "clear")
          /\ UNCHANGED cause
       \/ /\ req[r].token # None
          /\ LET f == tokens[req[r].token].family IN
             /\ req' = [req EXCEPT ![r].pc = "endFamily", ![r].family = f]
             /\ cause' = [cause EXCEPT ![f] = @ \cup {"asked"}]
    /\ UNCHANGED <<sessions, tokens, rowLock, expired, jar>>

(* RequireAuth: only a live session admits the access token that names it. *)
Admit(r) ==
    /\ req[r].pc = "lookup" /\ req[r].op \in BulkOps \cup {"revoke"}
    /\ IF ~sessions[req[r].sid].revoked /\ req[r].sid \notin expired
          THEN Goto(r, "authed") ELSE Done(r)
    /\ UNCHANGED <<sessions, tokens, rowLock, expired, jar, cause>>

(* RevokeSession reads the ownership first: a stranger's session is a 404. *)
RevokeTarget(r) ==
    /\ req[r].pc = "authed" /\ req[r].op = "revoke"
    /\ IF sessions[req[r].family].user = UserOf[req[r].device]
          THEN /\ Goto(r, "endFamily")
               /\ cause' = [cause EXCEPT ![req[r].family] = @ \cup {"asked"}]
          ELSE Done(r) /\ UNCHANGED cause
    /\ UNCHANGED <<sessions, tokens, rowLock, expired, jar>>

(* The families a bulk route is asked to end, and the rows its UPDATE      *)
(* finds: neither revoked nor expired.                                     *)
BulkTargets(r) ==
    {f \in Families : /\ sessions[f].user = UserOf[req[r].device]
                      /\ req[r].op = "revokeOthers" => f # req[r].sid}

EveryonesRows(r) ==          \* what if the UPDATE were not scoped to the user
    {f \in Families : /\ Recorded(f) /\ ~sessions[f].revoked /\ f \notin expired
                      /\ req[r].op = "revokeOthers" => f # req[r].sid}

NeverOwnRow(r) ==            \* what if "everywhere" spared the caller's session
    {f \in Families : /\ sessions[f].user = UserOf[req[r].device]
                      /\ ~sessions[f].revoked /\ f \notin expired
                      /\ f # req[r].sid}

BulkRows(r) ==
    {f \in Families : /\ sessions[f].user = UserOf[req[r].device]
                      /\ ~sessions[f].revoked /\ f \notin expired
                      /\ req[r].op = "revokeOthers" => f # req[r].sid}

RevokeRows(fs) ==
    sessions' = [f \in Families |->
                   IF f \in fs THEN [sessions[f] EXCEPT !.revoked = TRUE]
                               ELSE sessions[f]]

RevokeBulk(r) ==
    /\ req[r].pc = "authed" /\ req[r].op \in BulkOps
    /\ RevokeRows(BulkRows(r))
    /\ cause' = [f \in Families |->
                   cause[f] \cup (IF f \in BulkTargets(r) THEN {"asked"} ELSE {})]
    /\ req' = [req EXCEPT ![r].pc = "drain", ![r].batch = BulkRows(r)]
    /\ UNCHANGED <<tokens, rowLock, expired, jar>>

DrainBatch(r) ==
    /\ req[r].pc = "drain"
    /\ \/ req[r].batch = {} /\ Done(r)
       \/ \E f \in req[r].batch :
             req' = [req EXCEPT ![r].pc = "endFamily", ![r].family = f,
                                ![r].batch = @ \ {f}]
    /\ UNCHANGED <<sessions, tokens, rowLock, expired, jar, cause>>

-----------------------------------------------------------------------------
(* Responses, faults and time.                                             *)

AccessCookieOnly(r) ==       \* what if rotation did not replace the refresh cookie
    IF req[r].pc = "clear" THEN NoCookies
    ELSE IF req[r].op = "login"
         THEN [refresh |-> req[r].token, access |-> req[r].family]
         ELSE [jar[req[r].device] EXCEPT !.access = req[r].family]

Cookies(r) ==
    IF req[r].pc = "clear" THEN NoCookies
    ELSE [refresh |-> req[r].token, access |-> req[r].family]

(* The response reaches the jar: the new cookies, or the cleared ones.     *)
Respond(r) ==
    /\ req[r].pc \in {"reply", "clear"}
    /\ jar' = [jar EXCEPT ![req[r].device] = Cookies(r)]
    /\ Done(r)
    /\ UNCHANGED <<sessions, tokens, rowLock, expired, cause>>

LoseResponse(r) ==
    /\ LossyNetwork
    /\ req[r].pc \in {"reply", "clear"}
    /\ Done(r)
    /\ UNCHANGED <<sessions, tokens, rowLock, expired, jar, cause>>

(* A statement fails.  Reads and inserts answer 500 and leave the cookies  *)
(* alone; a rotation rolls back and releases its row.                      *)
FaultAnswered(r) ==
    /\ DBFaults
    /\ \/ req[r].pc \in {"family", "authed", "rotate", "successor"}
       \/ req[r].pc = "lookup" /\ req[r].op # "logout"
       \/ req[r].pc \in {"endFamilyRun", "endSession"} /\ req[r].op = "revoke"
    /\ Unlock(r)
    /\ Done(r)
    /\ UNCHANGED <<sessions, tokens, expired, jar, cause>>

(* The bulk UPDATE commits and reading its ids fails: rows gone, families  *)
(* never reached.                                                          *)
FaultCutsBulk(r) ==
    /\ DBFaults
    /\ req[r].pc = "authed" /\ req[r].op \in BulkOps
    /\ RevokeRows(BulkRows(r))
    /\ cause' = [f \in Families |->
                   cause[f] \cup (IF f \in BulkTargets(r) THEN {"asked"} ELSE {})]
    /\ Done(r)
    /\ UNCHANGED <<tokens, rowLock, expired, jar>>

(* endSession, Logout's lookup and the bulk routes only log a failure.     *)
FaultLogged(r) ==
    /\ DBFaults
    /\ req[r].op # "revoke"
    /\ \/ req[r].pc = "endFamilyRun" /\ AfterFamily(r)
       \/ req[r].pc = "endSession" /\ Goto(r, "clear")
       \/ req[r].pc = "lookup" /\ req[r].op = "logout" /\ Goto(r, "clear")
    /\ UNCHANGED <<sessions, tokens, rowLock, expired, jar, cause>>

(* The absolute deadline of a session passes.                              *)
Expire(f) ==
    /\ Recorded(f) /\ f \notin expired
    /\ expired' = expired \cup {f}
    /\ UNCHANGED <<sessions, tokens, rowLock, jar, req, cause>>

-----------------------------------------------------------------------------
Send(r, d) ==
    \/ SendRefresh(r, d) \/ SendLogout(r, d) \/ RecordSession(r, d)
    \/ \E f \in Families : SendRevoke(r, d, f)
    \/ \E op \in BulkOps : SendBulkRevoke(r, d, op)

Serve(r) ==
    \/ StartRefreshFamily(r)
    \/ RefreshLookup(r) \/ RenewRefused(r)
    \/ RotateSpend(r) \/ RotateReused(r) \/ RotateCommit(r)
    \/ RevokeFamilyStart(r) \/ RevokeFamilyFinish(r) \/ RevokeRow(r)
    \/ LogoutLookup(r) \/ Admit(r) \/ RevokeTarget(r)
    \/ RevokeBulk(r) \/ DrainBatch(r)
    \/ Respond(r)

Next ==
    \/ \E r \in Requests, d \in Devices : Send(r, d)
    \/ \E r \in Requests : Serve(r) \/ LoseResponse(r)
                           \/ FaultAnswered(r) \/ FaultCutsBulk(r) \/ FaultLogged(r)
    \/ \E f \in Families : Expire(f)

(* A request the server has taken up is served to its end: a goroutine     *)
(* runs it, and PostgreSQL queues the waiters for a row, so one that waits *)
(* is not passed over for ever (strong fairness of the two locked steps).  *)
Spec     == Init /\ [][Next]_vars

FairSpec ==
    /\ Spec
    /\ \A r \in Requests :
          /\ WF_vars(Serve(r))
          /\ SF_vars(RotateSpend(r) \/ RotateReused(r))
          /\ SF_vars(RevokeFamilyFinish(r))

-----------------------------------------------------------------------------
(* Properties.                                                             *)

(* A family never holds two tokens that could both be spent, whatever the  *)
(* tabs race: the rotation transaction of auth.go lets one of them through.*)
OneLiveToken ==
    \A s, t \in Tokens :
        Live(s) /\ Live(t) /\ tokens[s].family = tokens[t].family => s = t

(* A spent token has one successor for good: rotation is linear, so a      *)
(* second use of it can be told from the first.                            *)
SpentOnce ==
    [][\A t \in Tokens : tokens[t].replacedBy # None
          => tokens'[t].replacedBy = tokens[t].replacedBy]_vars

(* Both cookies of a jar name one session, and it has a row: "a credential *)
(* naming a session the server has no row for could never be listed or     *)
(* revoked" (the order of recordSession and startRefreshFamily).           *)
CredentialsNameSession ==
    /\ \A t \in Tokens : Issued(t) => Recorded(tokens[t].family)
    /\ \A d \in Devices : jar[d].refresh # None =>
          /\ Issued(jar[d].refresh)
          /\ tokens[jar[d].refresh].family = jar[d].access
          /\ sessions[jar[d].access].user = UserOf[d]

(* A session is revoked only because its own user asked for that, or       *)
(* because one of its spent tokens came back.                              *)
RevokedForCause == \A f \in Families : sessions[f].revoked => cause[f] # {}

(* While nothing is lost and a device sends one request at a time, no      *)
(* rotation mistakes the legitimate client for a replay: a session ends    *)
(* only when its user asks.                                                *)
NoSpuriousSignOut ==
    \A f \in Families : sessions[f].revoked => "asked" \in cause[f]

(* A request is still working on ending the family.                        *)
BeingEnded(f) ==
    \E r \in Requests :
        \/ /\ req[r].family = f
           /\ req[r].pc \in {"endFamily", "endFamilyRun", "endSession"}
        \/ f \in req[r].batch

(* Without a database fault whatever should end a session does: a logout,  *)
(* a revocation or a replay leaves a row that RequireAuth refuses.         *)
CausedSessionsEnd ==
    \A f \in Families : cause[f] # {} /\ ~BeingEnded(f) =>
        sessions[f].revoked \/ f \in expired

(* The statements of every interleaving add up to the operations of        *)
(* SessionStore, each done at once: a session keeps its owner, a revoked   *)
(* one stays revoked, and its tokens form one line, the last of them live. *)
LiveToken(f) ==
    IF \E t \in Tokens : Live(t) /\ tokens[t].family = f
    THEN CHOOSE t \in Tokens : Live(t) /\ tokens[t].family = f
    ELSE None

Store == INSTANCE SessionStore WITH
    owner  <- [f \in Families |-> sessions[f].user],
    over   <- {f \in Families : sessions[f].revoked},
    family <- [t \in Tokens |-> tokens[t].family],
    heir   <- [t \in Tokens |-> tokens[t].replacedBy],
    live   <- [f \in Families |-> LiveToken(f)]

StoreImplemented == Store!Spec

(* A request is answered: waiting for a row lock ends.                     *)
Finishes(r) == Busy(r) ~> ~Busy(r)
=============================================================================
