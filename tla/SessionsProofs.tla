--------------------------- MODULE SessionsProofs ---------------------------
(* Proofs about Sessions, for every set of devices, families, tokens and   *)
(* requests, and whatever may fail: its types, an inductive invariant, the *)
(* safety of refresh-token rotation that follows from it, why sessions end *)
(* and that they do, and that Sessions implements SessionStore.            *)
EXTENDS Sessions, FiniteSetTheorems, TLAPS

-----------------------------------------------------------------------------
(* Typing.                                                                 *)

LEMMA InitType == Init => TypeOK
BY DEF Init, TypeOK, NoSession, NoToken, NoCookies, IdleReq, SessionRow, TokenRow,
       Jar, Request, PCs, Ops, BulkOps

LEMMA IdleType == IdleReq \in Request
BY DEF IdleReq, Request, PCs, Ops, BulkOps

(* A request picks up the cookies of a jar.                                *)
LEMMA ReceivedType ==
    ASSUME TypeOK, NEW op \in Ops, NEW pc \in PCs, NEW d \in Devices,
           NEW f \in Families \cup {None}
    PROVE  Received(op, pc, d, f) \in Request
<1>1. jar[d] \in Jar
    BY DEF TypeOK
<1> QED
    BY <1>1, IdleType DEF Received, Request, Jar, IdleReq

(* Every change of req that a step makes to one request r: its pc alone,   *)
(* back to idle, or to fields of the right types.                          *)
LEMMA GotoType ==
    ASSUME TypeOK, NEW r \in Requests, NEW pc \in PCs, Goto(r, pc)
    PROVE  req' \in [Requests -> Request]
<1>1. req \in [Requests -> Request] /\ req[r] \in Request
    BY DEF TypeOK
<1>2. [req[r] EXCEPT !.pc = pc] \in Request
    BY <1>1 DEF Request
<1>3. req' = [req EXCEPT ![r] = [req[r] EXCEPT !.pc = pc]]
    BY DEF Goto
<1> QED
    BY <1>1, <1>2, <1>3

LEMMA DoneType ==
    ASSUME TypeOK, NEW r \in Requests, Done(r)
    PROVE  req' \in [Requests -> Request]
BY IdleType DEF TypeOK, Done

LEMMA UnlockType ==
    ASSUME TypeOK, NEW r \in Requests, Unlock(r)
    PROVE  rowLock' \in [Tokens -> Requests \cup {None}]
BY DEF TypeOK, Unlock

LEMMA RevokeRowsType ==
    ASSUME TypeOK, NEW fs, RevokeRows(fs)
    PROVE  sessions' \in [Families -> SessionRow]
BY DEF TypeOK, RevokeRows, SessionRow

LEMMA AfterFamilyType ==
    ASSUME TypeOK, NEW r \in Requests, AfterFamily(r)
    PROVE  req' \in [Requests -> Request]
<1>1. PICK pc \in PCs : req' = [req EXCEPT ![r].snapshot = {}, ![r].pc = pc]
    BY DEF AfterFamily, PCs
<1>2. req[r] \in Request
    BY DEF TypeOK
<1> QED
    BY <1>1, <1>2 DEF TypeOK, Request

(* The steps that send a request.                                          *)
LEMMA SendType ==
    ASSUME TypeOK, NEW r \in Requests, NEW d \in Devices, Send(r, d)
    PROVE  TypeOK'
<1>1. CASE SendRefresh(r, d)
  <2>1. Received("refresh", "lookup", d, None) \in Request
      BY ReceivedType DEF Ops, PCs
  <2> QED
      BY <1>1, <2>1 DEF SendRefresh, TypeOK
<1>2. CASE SendLogout(r, d)
  <2>1. Received("logout", "lookup", d, None) \in Request
      BY ReceivedType DEF Ops, PCs
  <2> QED
      BY <1>2, <2>1 DEF SendLogout, TypeOK
<1>3. CASE RecordSession(r, d)
  <2>1. PICK f \in Families :
           /\ sessions' = [sessions EXCEPT ![f] = NewSession(d)]
           /\ req' = [req EXCEPT ![r] = Received("login", "family", d, f)]
      BY <1>3 DEF RecordSession
  <2>2. Received("login", "family", d, f) \in Request
      BY ReceivedType DEF Ops, PCs
  <2>3. NewSession(d) \in SessionRow
      BY UserOfType DEF NewSession, SessionRow
  <2> QED
      BY <1>3, <2>1, <2>2, <2>3 DEF RecordSession, TypeOK
<1>4. ASSUME NEW f \in Families, SendRevoke(r, d, f)
      PROVE  TypeOK'
  <2>1. Received("revoke", "lookup", d, f) \in Request
      BY ReceivedType DEF Ops, PCs
  <2> QED
      BY <1>4, <2>1 DEF SendRevoke, TypeOK
<1>5. ASSUME NEW op \in BulkOps, SendBulkRevoke(r, d, op)
      PROVE  TypeOK'
  <2>1. Received(op, "lookup", d, None) \in Request
      BY ReceivedType DEF Ops, PCs
  <2> QED
      BY <1>5, <2>1 DEF SendBulkRevoke, TypeOK
<1> QED
    BY <1>1, <1>2, <1>3, <1>4, <1>5 DEF Send

(* Typing alone is not inductive: a refresh looks its token up because the *)
(* jar it was sent with held one.                                          *)
HasToken ==
    \A r \in Requests : req[r].pc = "lookup" /\ req[r].op = "refresh"
                          => req[r].token \in Tokens

LEMMA FirstTokenType ==
    ASSUME TypeOK, NEW t \in Tokens, NEW f \in Families \cup {None},
           tokens' = [tokens EXCEPT ![t].family = f]
    PROVE  tokens' \in [Tokens -> TokenRow]
<1>1. tokens \in [Tokens -> TokenRow] /\ tokens[t] \in TokenRow
    BY DEF TypeOK
<1>2. [tokens[t] EXCEPT !.family = f] \in TokenRow
    BY <1>1 DEF TokenRow
<1>3. tokens' = [tokens EXCEPT ![t] = [tokens[t] EXCEPT !.family = f]]
    OBVIOUS
<1> QED
    BY <1>1, <1>2, <1>3

(* The steps that answer one.                                              *)
LEMMA LoginRefreshType ==
    ASSUME TypeOK, HasToken, NEW r \in Requests,
           \/ StartRefreshFamily(r) \/ RefreshLookup(r) \/ RenewRefused(r)
           \/ RotateSpend(r) \/ RotateReused(r) \/ RotateCommit(r)
    PROVE  TypeOK'
<1>0. req[r] \in Request
    BY DEF TypeOK
<1>1. CASE StartRefreshFamily(r)
  <2>1. PICK t \in Tokens :
           /\ tokens' = [tokens EXCEPT ![t].family = req[r].family]
           /\ req' = [req EXCEPT ![r].pc = "reply", ![r].token = t]
      BY <1>1 DEF StartRefreshFamily
  <2>2. req' \in [Requests -> Request]
      BY <1>0, <2>1 DEF TypeOK, Request, PCs
  <2>3. req[r].family \in Families \cup {None}
      BY <1>0 DEF Request
  <2>4. tokens' \in [Tokens -> TokenRow]
      BY <2>1, <2>3, FirstTokenType
  <2> QED
      BY <1>1, <2>2, <2>4 DEF StartRefreshFamily, TypeOK
<1>2. CASE RefreshLookup(r)
  <2> DEFINE row == tokens[req[r].token]
  <2>1. CASE Goto(r, "clear") /\ UNCHANGED cause
    <3>1. req' \in [Requests -> Request]
        BY <2>1, GotoType DEF PCs
    <3> QED
        BY <1>2, <2>1, <3>1 DEF RefreshLookup, TypeOK
  <2>2. ASSUME NEW pc \in {"rotate", "endFamily"},
               row.family \notin expired,
               req' = [req EXCEPT ![r].pc = pc, ![r].family = row.family],
               \/ UNCHANGED cause
               \/ cause' = [cause EXCEPT ![row.family] = @ \cup {"replay"}]
        PROVE  TypeOK'
    <3>0. row.family \in Families \cup {None}
        BY <1>2 DEF RefreshLookup, HasToken, TypeOK, TokenRow
    <3>1. req' \in [Requests -> Request]
      <4>1. [req[r] EXCEPT !.pc = pc, !.family = row.family] \in Request
          BY <1>0, <2>2, <3>0 DEF Request, PCs
      <4>2. req' = [req EXCEPT ![r] = [req[r] EXCEPT !.pc = pc, !.family = row.family]]
          BY <2>2
      <4> QED
          BY <4>1, <4>2 DEF TypeOK
    <3>2. cause' \in [Families -> SUBSET {"asked", "replay"}]
        BY <2>2 DEF TypeOK
    <3> QED
        BY <1>2, <3>1, <3>2 DEF RefreshLookup, TypeOK
  <2> QED
      BY <1>2, <2>1, <2>2 DEF RefreshLookup
<1>3. CASE RenewRefused(r)
  <2>1. req' \in [Requests -> Request]
      BY <1>3, GotoType DEF RenewRefused, PCs
  <2> QED
      BY <1>3, <2>1 DEF RenewRefused, TypeOK
<1>4. CASE RotateSpend(r)
  <2>1. req' \in [Requests -> Request]
      BY <1>4, GotoType DEF RotateSpend, PCs
  <2> QED
      BY <1>4, <2>1 DEF RotateSpend, TypeOK
<1>5. CASE RotateReused(r)
  <2>1. req' \in [Requests -> Request]
      BY <1>5, GotoType DEF RotateReused, PCs
  <2>2. cause' \in [Families -> SUBSET {"asked", "replay"}]
      BY <1>5 DEF RotateReused, TypeOK
  <2> QED
      BY <1>5, <2>1, <2>2 DEF RotateReused, TypeOK
<1>6. CASE RotateCommit(r)
  <2>1. PICK n \in Tokens :
           /\ tokens' = [tokens EXCEPT ![req[r].token].revoked = TRUE,
                                       ![req[r].token].replacedBy = n,
                                       ![n].family = req[r].family]
           /\ req' = [req EXCEPT ![r].pc = "reply", ![r].token = n]
      BY <1>6 DEF RotateCommit
  <2>2. req' \in [Requests -> Request]
    <3>1. [req[r] EXCEPT !.pc = "reply", !.token = n] \in Request
        BY <1>0, <2>1 DEF Request, PCs
    <3>2. req' = [req EXCEPT ![r] = [req[r] EXCEPT !.pc = "reply", !.token = n]]
        BY <2>1
    <3> QED
        BY <3>1, <3>2 DEF TypeOK
  <2> DEFINE spent  == [tokens EXCEPT ![req[r].token].revoked = TRUE]
             linked == [spent EXCEPT ![req[r].token].replacedBy = n]
  <2>a. spent \in [Tokens -> TokenRow]
      BY DEF TypeOK, TokenRow
  <2>b. linked \in [Tokens -> TokenRow]
    <3>0. n \in Tokens \cup {None}
        BY <2>1
    <3>1. ASSUME NEW row \in TokenRow
          PROVE  [row EXCEPT !.replacedBy = n] \in TokenRow
        BY <3>0 DEF TokenRow
    <3>2. linked = [spent EXCEPT ![req[r].token] =
                      [spent[req[r].token] EXCEPT !.replacedBy = n]]
        BY Zenon
    <3>3. ASSUME req[r].token \in Tokens
          PROVE  linked \in [Tokens -> TokenRow]
      <4> HIDE DEF spent
      <4>1. [spent[req[r].token] EXCEPT !.replacedBy = n] \in TokenRow
          BY <2>a, <3>1, <3>3
      <4> HIDE DEF linked
      <4> QED
          BY <2>a, <3>2, <4>1
    <3>4. CASE req[r].token \notin Tokens
      <4> HIDE DEF spent
      <4>1. linked = spent
          BY <2>a, <3>4
      <4> QED
          BY <2>a, <4>1
    <3> QED
        BY <3>3, <3>4
  <2>c. req[r].family \in Families \cup {None}
      BY <1>0 DEF Request
  <2>d. tokens' = [linked EXCEPT ![n].family = req[r].family]
      BY <2>1
  <2> HIDE DEF spent, linked
  <2>3. tokens' \in [Tokens -> TokenRow]
    <3>1. [linked[n] EXCEPT !.family = req[r].family] \in TokenRow
        BY <2>b, <2>c DEF TokenRow
    <3>2. tokens' = [linked EXCEPT ![n] = [linked[n] EXCEPT !.family = req[r].family]]
        BY <2>d
    <3> QED
        BY <2>b, <3>1, <3>2
  <2>4. rowLock' \in [Tokens -> Requests \cup {None}]
      BY <1>6, UnlockType DEF RotateCommit
  <2> QED
      BY <1>6, <2>2, <2>3, <2>4 DEF RotateCommit, TypeOK
<1> QED
    BY <1>1, <1>2, <1>3, <1>4, <1>5, <1>6

LEMMA EndingType ==
    ASSUME TypeOK, NEW r \in Requests,
           \/ RevokeFamilyStart(r) \/ RevokeFamilyFinish(r) \/ RevokeRow(r)
           \/ LogoutLookup(r) \/ Admit(r) \/ RevokeTarget(r)
           \/ RevokeBulk(r) \/ DrainBatch(r)
    PROVE  TypeOK'
<1>0. req[r] \in Request
    BY DEF TypeOK
<1>1. CASE RevokeFamilyStart(r)
  <2>1. req' \in [Requests -> Request]
      BY <1>0, <1>1 DEF RevokeFamilyStart, TypeOK, Request, PCs
  <2> QED
      BY <1>1, <2>1 DEF RevokeFamilyStart, TypeOK
<1>2. CASE RevokeFamilyFinish(r)
  <2>1. req' \in [Requests -> Request]
      BY <1>2, AfterFamilyType DEF RevokeFamilyFinish
  <2>2. ASSUME NEW t \in Tokens
        PROVE  [tokens[t] EXCEPT !.revoked = TRUE] \in TokenRow
      BY DEF TypeOK, TokenRow
  <2>3. tokens' \in [Tokens -> TokenRow]
      BY <1>2, <2>2 DEF RevokeFamilyFinish, TypeOK
  <2> QED
      BY <1>2, <2>1, <2>3 DEF RevokeFamilyFinish, TypeOK
<1>3. CASE RevokeRow(r)
  <2>1. req' \in [Requests -> Request]
      BY <1>3, GotoType, DoneType DEF RevokeRow, PCs
  <2>2. sessions' \in [Families -> SessionRow]
      BY <1>3 DEF RevokeRow, TypeOK, SessionRow
  <2> QED
      BY <1>3, <2>1, <2>2 DEF RevokeRow, TypeOK
<1>4. CASE LogoutLookup(r)
  <2>1. CASE Goto(r, "clear") /\ UNCHANGED cause
    <3>1. req' \in [Requests -> Request]
        BY <2>1, GotoType DEF PCs
    <3> QED
        BY <1>4, <2>1, <3>1 DEF LogoutLookup, TypeOK
  <2>2. CASE req[r].token # None
    <3> DEFINE f == tokens[req[r].token].family
    <3>1. f \in Families \cup {None}
        BY <1>0, <2>2 DEF TypeOK, TokenRow, Request
    <3>2. req' = [req EXCEPT ![r].pc = "endFamily", ![r].family = f]
          /\ cause' = [cause EXCEPT ![f] = @ \cup {"asked"}]
        BY <1>4, <2>2 DEF LogoutLookup
    <3>3. req' \in [Requests -> Request]
        BY <1>0, <3>1, <3>2 DEF TypeOK, Request, PCs
    <3>4. cause' \in [Families -> SUBSET {"asked", "replay"}]
        BY <3>2 DEF TypeOK
    <3> QED
        BY <1>4, <3>3, <3>4 DEF LogoutLookup, TypeOK
  <2> QED
      BY <1>4, <2>1, <2>2 DEF LogoutLookup
<1>5. CASE Admit(r)
  <2>1. req' \in [Requests -> Request]
      BY <1>5, GotoType, DoneType DEF Admit, PCs
  <2> QED
      BY <1>5, <2>1 DEF Admit, TypeOK
<1>6. CASE RevokeTarget(r)
  <2>1. req' \in [Requests -> Request]
      BY <1>6, GotoType, DoneType DEF RevokeTarget, PCs
  <2>2. cause' \in [Families -> SUBSET {"asked", "replay"}]
      BY <1>6 DEF RevokeTarget, TypeOK
  <2> QED
      BY <1>6, <2>1, <2>2 DEF RevokeTarget, TypeOK
<1>7. CASE RevokeBulk(r)
  <2>1. BulkRows(r) \in SUBSET Families
      BY DEF BulkRows
  <2>2. req' \in [Requests -> Request]
      BY <1>0, <1>7, <2>1 DEF RevokeBulk, TypeOK, Request, PCs
  <2>3. sessions' \in [Families -> SessionRow]
      BY <1>7, RevokeRowsType DEF RevokeBulk
  <2>4. cause' \in [Families -> SUBSET {"asked", "replay"}]
      BY <1>7 DEF RevokeBulk, TypeOK
  <2> QED
      BY <1>7, <2>2, <2>3, <2>4 DEF RevokeBulk, TypeOK
<1>8. CASE DrainBatch(r)
  <2>1. req' \in [Requests -> Request]
    <3>1. CASE Done(r)
        BY <3>1, DoneType
    <3>2. ASSUME NEW f \in req[r].batch,
                 req' = [req EXCEPT ![r].pc = "endFamily", ![r].family = f,
                                    ![r].batch = @ \ {f}]
          PROVE  req' \in [Requests -> Request]
        BY <1>0, <3>2 DEF TypeOK, Request, PCs
    <3> QED
        BY <1>8, <3>1, <3>2 DEF DrainBatch
  <2> QED
      BY <1>8, <2>1 DEF DrainBatch, TypeOK
<1> QED
    BY <1>1, <1>2, <1>3, <1>4, <1>5, <1>6, <1>7, <1>8

(* Responses, faults and the clock.                                        *)
LEMMA RestType ==
    ASSUME TypeOK, NEW r \in Requests,
           \/ Respond(r) \/ LoseResponse(r)
           \/ FaultAnswered(r) \/ FaultCutsBulk(r) \/ FaultLogged(r)
    PROVE  TypeOK'
<1>0. req[r] \in Request
    BY DEF TypeOK
<1>1. CASE Respond(r)
  <2>1. Cookies(r) \in Jar
      BY <1>0 DEF Cookies, Jar, Request, NoCookies
  <2>2. req' \in [Requests -> Request]
      BY <1>1, DoneType DEF Respond
  <2> QED
      BY <1>1, <2>1, <2>2 DEF Respond, TypeOK
<1>2. CASE LoseResponse(r)
  <2>1. req' \in [Requests -> Request]
      BY <1>2, DoneType DEF LoseResponse
  <2> QED
      BY <1>2, <2>1 DEF LoseResponse, TypeOK
<1>3. CASE FaultAnswered(r)
  <2>1. req' \in [Requests -> Request]
      BY <1>3, DoneType DEF FaultAnswered
  <2>2. rowLock' \in [Tokens -> Requests \cup {None}]
      BY <1>3, UnlockType DEF FaultAnswered
  <2> QED
      BY <1>3, <2>1, <2>2 DEF FaultAnswered, TypeOK
<1>4. CASE FaultCutsBulk(r)
  <2>1. req' \in [Requests -> Request]
      BY <1>4, DoneType DEF FaultCutsBulk
  <2>2. sessions' \in [Families -> SessionRow]
      BY <1>4, RevokeRowsType DEF FaultCutsBulk
  <2>3. cause' \in [Families -> SUBSET {"asked", "replay"}]
      BY <1>4 DEF FaultCutsBulk, TypeOK
  <2> QED
      BY <1>4, <2>1, <2>2, <2>3 DEF FaultCutsBulk, TypeOK
<1>5. CASE FaultLogged(r)
  <2>1. req' \in [Requests -> Request]
      BY <1>5, GotoType, AfterFamilyType DEF FaultLogged, PCs
  <2> QED
      BY <1>5, <2>1 DEF FaultLogged, TypeOK
<1> QED
    BY <1>1, <1>2, <1>3, <1>4, <1>5

(* Serving a request changes it alone, and takes it past its lookup.       *)
LEMMA ServedPastLookup ==
    ASSUME TypeOK, NEW r \in Requests,
           Serve(r) \/ LoseResponse(r)
           \/ FaultAnswered(r) \/ FaultCutsBulk(r) \/ FaultLogged(r)
    PROVE  /\ \A q \in Requests \ {r} : req'[q] = req[q]
           /\ req'[r].pc # "lookup"
<1> DEFINE Past == /\ \A q \in Requests \ {r} : req'[q] = req[q]
                   /\ req'[r].pc # "lookup"
<1>0. SUFFICES Past
    OBVIOUS
<1>1. req \in [Requests -> Request] /\ req[r] \in Request
    BY DEF TypeOK
<1>2. ASSUME NEW pc \in PCs \ {"lookup"}, Goto(r, pc)
      PROVE  Past
    BY <1>1, <1>2 DEF Goto, Request
<1>3. Done(r) => Past
    BY <1>1 DEF Done, IdleReq
<1>4. AfterFamily(r) => Past
  <2>1. ASSUME NEW pc \in {"drain", "endSession"},
               req' = [req EXCEPT ![r].snapshot = {}, ![r].pc = pc]
        PROVE  Past
      BY <1>1, <2>1 DEF Request
  <2> QED
      BY <2>1 DEF AfterFamily
<1>5. ASSUME NEW pc \in PCs \ {"lookup"}, NEW t,
             req' = [req EXCEPT ![r].pc = pc, ![r].token = t]
      PROVE  Past
    BY <1>1, <1>5 DEF Request
<1>6. ASSUME NEW pc \in PCs \ {"lookup"}, NEW f,
             req' = [req EXCEPT ![r].pc = pc, ![r].family = f]
      PROVE  Past
    BY <1>1, <1>6 DEF Request
<1> HIDE DEF Past
<1>7. CASE StartRefreshFamily(r)
    BY <1>5, <1>7 DEF StartRefreshFamily, PCs
<1>8. CASE RefreshLookup(r)
    BY <1>2, <1>6, <1>8 DEF RefreshLookup, PCs
<1>9. CASE RenewRefused(r) \/ RotateSpend(r) \/ RotateReused(r)
    BY <1>2, <1>9 DEF RenewRefused, RotateSpend, RotateReused, PCs
<1>10. CASE RotateCommit(r)
    BY <1>5, <1>10 DEF RotateCommit, PCs
<1>11. CASE RevokeFamilyStart(r)
    BY <1>1, <1>11 DEF RevokeFamilyStart, Request, Past
<1>12. CASE RevokeFamilyFinish(r) \/ RevokeRow(r)
    BY <1>2, <1>3, <1>4, <1>12 DEF RevokeFamilyFinish, RevokeRow, PCs
<1>13. CASE LogoutLookup(r)
    BY <1>2, <1>6, <1>13 DEF LogoutLookup, PCs
<1>14. CASE Admit(r) \/ RevokeTarget(r) \/ Respond(r)
    BY <1>2, <1>3, <1>14 DEF Admit, RevokeTarget, Respond, PCs
<1>15. CASE RevokeBulk(r)
    BY <1>1, <1>15 DEF RevokeBulk, Request, Past
<1>16. CASE DrainBatch(r)
  <2>1. ASSUME NEW f, NEW b,
               req' = [req EXCEPT ![r].pc = "endFamily", ![r].family = f, ![r].batch = b]
        PROVE  Past
    <3>1. req'[r] = [req[r] EXCEPT !.pc = "endFamily", !.family = f, !.batch = b]
        BY <1>1, <2>1
    <3>2. req'[r].pc = "endFamily"
        BY <1>1, <3>1 DEF Request
    <3>3. \A q \in Requests \ {r} : req'[q] = req[q]
        BY <1>1, <2>1
    <3> QED
        BY <3>2, <3>3 DEF Past
  <2> QED
      BY <1>3, <1>16, <2>1 DEF DrainBatch
<1>17. CASE LoseResponse(r) \/ FaultAnswered(r) \/ FaultCutsBulk(r) \/ FaultLogged(r)
    BY <1>2, <1>3, <1>4, <1>17
    DEF LoseResponse, FaultAnswered, FaultCutsBulk, FaultLogged, PCs
<1> QED
    BY <1>7, <1>8, <1>9, <1>10, <1>11, <1>12, <1>13, <1>14, <1>15, <1>16, <1>17
    DEF Serve

LEMMA StepKeepsHasToken ==
    ASSUME TypeOK, HasToken, NEW r \in Requests,
           (\E d \in Devices : Send(r, d)) \/ Serve(r) \/ LoseResponse(r)
           \/ FaultAnswered(r) \/ FaultCutsBulk(r) \/ FaultLogged(r)
    PROVE  HasToken'
<1>1. SUFFICES ASSUME NEW q \in Requests,
                      req'[q].pc = "lookup", req'[q].op = "refresh"
               PROVE  req'[q].token \in Tokens
    BY DEF HasToken
<1>2. CASE req'[q] = req[q]
    BY <1>1, <1>2 DEF HasToken
<1>3. ASSUME NEW d \in Devices, Send(r, d)
      PROVE  req'[q].token \in Tokens
  <2>1. CASE SendRefresh(r, d)
    <3>1. jar[d].refresh \in Tokens
        BY <2>1 DEF SendRefresh, TypeOK, Jar
    <3> QED
        BY <1>2, <2>1, <3>1 DEF SendRefresh, TypeOK, Received, IdleReq
  <2>2. ASSUME NEW op \in Ops \ {"refresh"}, NEW pc, NEW f,
               req' = [req EXCEPT ![r] = Received(op, pc, d, f)]
        PROVE  req'[q].token \in Tokens
    <3>1. Received(op, pc, d, f).op = op
        BY DEF Received, IdleReq
    <3> QED
        BY <1>1, <1>2, <2>2, <3>1 DEF TypeOK
  <2>3. CASE SendLogout(r, d) \/ RecordSession(r, d)
      BY <2>2, <2>3 DEF SendLogout, RecordSession, Ops
  <2>4. CASE (\E f \in Families : SendRevoke(r, d, f))
             \/ (\E op \in BulkOps : SendBulkRevoke(r, d, op))
      BY <2>2, <2>4 DEF SendRevoke, SendBulkRevoke, Ops, BulkOps
  <2> QED
      BY <1>3, <2>1, <2>3, <2>4 DEF Send
<1>4. CASE Serve(r) \/ LoseResponse(r)
           \/ FaultAnswered(r) \/ FaultCutsBulk(r) \/ FaultLogged(r)
    BY <1>1, <1>2, <1>4, ServedPastLookup
<1> QED
    BY <1>3, <1>4

(* Type correctness of the session core, for every instance.               *)
LEMMA TypeInduction ==
    ASSUME TypeOK, HasToken, [Next]_vars
    PROVE  TypeOK' /\ HasToken'
<1>1. ASSUME NEW r \in Requests, NEW d \in Devices, Send(r, d)
      PROVE  TypeOK' /\ HasToken'
    BY <1>1, SendType, StepKeepsHasToken
<1>2. ASSUME NEW r \in Requests, Serve(r)
      PROVE  TypeOK' /\ HasToken'
  <2>1. TypeOK'
      BY <1>2, LoginRefreshType, EndingType, RestType DEF Serve
  <2> QED
      BY <1>2, <2>1, StepKeepsHasToken
<1>3. ASSUME NEW r \in Requests,
             LoseResponse(r) \/ FaultAnswered(r) \/ FaultCutsBulk(r) \/ FaultLogged(r)
      PROVE  TypeOK' /\ HasToken'
    BY <1>3, RestType, StepKeepsHasToken
<1>4. ASSUME NEW f \in Families, Expire(f)
      PROVE  TypeOK' /\ HasToken'
    BY <1>4 DEF Expire, TypeOK, HasToken
<1>5. CASE UNCHANGED vars
    BY <1>5 DEF vars, TypeOK, HasToken
<1> QED
    BY <1>1, <1>2, <1>3, <1>4, <1>5 DEF Next

THEOREM TypeCorrect == Spec => []TypeOK
<1>1. Init => TypeOK /\ HasToken
    BY InitType DEF Init, HasToken, IdleReq
<1>2. TypeOK /\ HasToken /\ [Next]_vars => (TypeOK /\ HasToken)'
    BY TypeInduction
<1> QED
    BY <1>1, <1>2, PTL DEF Spec

-----------------------------------------------------------------------------
(* The inductive invariant.  A request between two statements relies on    *)
(* rows it read or wrote earlier: Claim says what it relies on.            *)

Owns(f, d) == d \in Devices /\ f \in Families /\ sessions[f].user = UserOf[d]

(* A login that has recorded its session has it for itself.                *)
ClaimFamily(r) ==
    req[r].pc = "family" =>
        /\ Owns(req[r].family, req[r].device)
        /\ \A t \in Tokens : tokens[t].family # req[r].family
        /\ \A q \in Requests :
              req[q].pc = "family" /\ req[q].family = req[r].family => q = r

(* A refresh looks up a token of its device's own user.                    *)
ClaimCookie(r) ==
    req[r].pc = "lookup" /\ req[r].op = "refresh" =>
        /\ req[r].token \in Tokens
        /\ Owns(tokens[req[r].token].family, req[r].device)

(* The token to be spent, or to be answered, is of the request's family.   *)
ClaimToken(r) ==
    req[r].pc \in {"rotate", "successor", "reply"} =>
        /\ req[r].token \in Tokens
        /\ tokens[req[r].token].family = req[r].family
        /\ Owns(req[r].family, req[r].device)

(* An open rotation holds the lock of its row, and the row is live.        *)
ClaimLock(r) ==
    req[r].pc = "successor" =>
        rowLock[req[r].token] = r /\ ~tokens[req[r].token].revoked

Claim(r) == ClaimFamily(r) /\ ClaimCookie(r) /\ ClaimToken(r) /\ ClaimLock(r)

SpentAreRevoked == \A t \in Tokens : tokens[t].replacedBy # None => tokens[t].revoked

IInv ==
    /\ TypeOK
    /\ OneLiveToken
    /\ CredentialsNameSession
    /\ SpentAreRevoked
    /\ \A r \in Requests : Claim(r)

LEMMA InitSafe == Init => IInv
<1> SUFFICES ASSUME Init PROVE IInv
    OBVIOUS
<1>1. OneLiveToken /\ CredentialsNameSession /\ SpentAreRevoked
    BY DEF Init, NoToken, NoCookies, OneLiveToken, CredentialsNameSession,
           SpentAreRevoked, Live, Issued
<1>2. ASSUME NEW r \in Requests
      PROVE  Claim(r)
    BY DEF Init, IdleReq, Claim, ClaimFamily, ClaimCookie, ClaimToken, ClaimLock
<1> QED
    BY <1>1, <1>2, InitType DEF IInv

LEMMA ClaimsHasToken == IInv => HasToken
BY DEF IInv, Claim, ClaimCookie, HasToken

-----------------------------------------------------------------------------
(* What a step leaves alone.                                               *)

UsersKept    == \A f \in Families : Recorded(f) => sessions'[f].user = sessions[f].user
FamiliesKept == \A t \in Tokens : Issued(t) => tokens'[t].family = tokens[t].family

(* Owners are users, so an owned session is a recorded one.                *)
LEMMA OwnedIsRecorded ==
    ASSUME NEW f, NEW d, Owns(f, d)
    PROVE  Recorded(f)
BY UserOfType, NoneIsFresh DEF Owns, Recorded

LEMMA OwnsKept ==
    ASSUME UsersKept, NEW f, NEW d, Owns(f, d)
    PROVE  d \in Devices /\ f \in Families /\ sessions'[f].user = UserOf[d]
BY OwnedIsRecorded DEF UsersKept, Owns

(* The claim of a request that the step does not move survives, if nobody  *)
(* else starts its family and nobody touches the row it has locked.        *)
LEMMA ClaimKept ==
    ASSUME IInv, UsersKept, FamiliesKept, NEW q \in Requests,
           req'[q] = req[q],
           req[q].pc = "family" =>
              /\ \A t \in Tokens : tokens'[t].family # req[q].family
              /\ \A p \in Requests :
                    req'[p].pc = "family" /\ req'[p].family = req[q].family => p = q,
           req[q].pc = "successor" =>
              rowLock'[req[q].token] = q /\ ~tokens'[req[q].token].revoked
    PROVE  Claim(q)'
<1>1. ClaimFamily(q)'
    BY OwnsKept DEF IInv, Claim, ClaimFamily, Owns
<1>2. ClaimCookie(q)'
  <2> DEFINE f == tokens[req[q].token].family
  <2>1. SUFFICES ASSUME req[q].pc = "lookup", req[q].op = "refresh"
                 PROVE  /\ req[q].token \in Tokens
                        /\ tokens'[req[q].token].family = f
                        /\ req[q].device \in Devices
                        /\ f \in Families
                        /\ sessions'[f].user = UserOf[req[q].device]
      BY DEF ClaimCookie, Owns
  <2>2. req[q].token \in Tokens /\ Owns(f, req[q].device)
      BY <2>1 DEF IInv, Claim, ClaimCookie
  <2>3. Issued(req[q].token)
      BY <2>2, NoneIsFresh DEF Owns, Issued
  <2> QED
      BY <2>2, <2>3, OwnsKept DEF FamiliesKept
<1>3. ClaimToken(q)'
  <2>1. SUFFICES ASSUME req[q].pc \in {"rotate", "successor", "reply"}
                 PROVE  /\ req[q].token \in Tokens
                        /\ tokens'[req[q].token].family = req[q].family
                        /\ req[q].device \in Devices
                        /\ req[q].family \in Families
                        /\ sessions'[req[q].family].user = UserOf[req[q].device]
      BY DEF ClaimToken, Owns
  <2>2. /\ req[q].token \in Tokens
        /\ tokens[req[q].token].family = req[q].family
        /\ Owns(req[q].family, req[q].device)
      BY <2>1 DEF IInv, Claim, ClaimToken
  <2>3. Issued(req[q].token)
      BY <2>2, NoneIsFresh DEF Owns, Issued
  <2> QED
      BY <2>2, <2>3, OwnsKept DEF FamiliesKept
<1>4. ClaimLock(q)'
    BY DEF ClaimLock
<1> QED
    BY <1>1, <1>2, <1>3, <1>4 DEF Claim

(* A request that is not waiting on anything claims nothing.               *)
LEMMA NoClaim ==
    ASSUME NEW r \in Requests,
           req'[r].pc \notin {"family", "lookup", "rotate", "successor", "reply"}
    PROVE  Claim(r)'
BY DEF Claim, ClaimFamily, ClaimCookie, ClaimToken, ClaimLock

(* The statements of CredentialsNameSession, kept where tokens and jars are.*)
LEMMA CredentialsKept ==
    ASSUME IInv, UNCHANGED <<tokens, jar>>,
           \A f \in Families : sessions'[f].user = sessions[f].user
    PROVE  CredentialsNameSession'
<1>1. ASSUME NEW t \in Tokens, Issued(t)'
      PROVE  Recorded(tokens[t].family)'
  <2>1. tokens[t].family \in Families
      BY <1>1 DEF IInv, TypeOK, TokenRow, Issued
  <2>2. Recorded(tokens[t].family)
      BY <1>1 DEF IInv, CredentialsNameSession, Issued
  <2> QED
      BY <2>1, <2>2 DEF Recorded
<1>2. ASSUME NEW d \in Devices, jar[d].refresh # None
      PROVE  /\ tokens[jar[d].refresh].family # None
             /\ tokens[jar[d].refresh].family = jar[d].access
             /\ sessions'[jar[d].access].user = UserOf[d]
  <2>1. /\ tokens[jar[d].refresh].family # None
        /\ tokens[jar[d].refresh].family = jar[d].access
        /\ sessions[jar[d].access].user = UserOf[d]
      BY <1>2 DEF IInv, CredentialsNameSession, Issued
  <2>2. jar[d] \in Jar
      BY DEF IInv, TypeOK
  <2>3. jar[d].access \in Families
      BY <2>1, <2>2 DEF Jar
  <2> QED
      BY <2>1, <2>3
<1> QED
    BY <1>1, <1>2 DEF CredentialsNameSession, Issued

(* A step that leaves tokens, locks, jars and owners alone.                *)
LEMMA QuietStep ==
    ASSUME IInv, TypeOK', NEW r \in Requests,
           UNCHANGED <<tokens, rowLock, jar>>,
           \A f \in Families : sessions'[f].user = sessions[f].user,
           \A q \in Requests \ {r} : req'[q] = req[q],
           req'[r].pc # "family",
           Claim(r)'
    PROVE  IInv'
<1>1. OneLiveToken' /\ SpentAreRevoked'
    BY DEF IInv, OneLiveToken, SpentAreRevoked, Live, Issued
<1>2. CredentialsNameSession'
    BY CredentialsKept
<1>3. UsersKept /\ FamiliesKept
    BY DEF UsersKept, FamiliesKept
<1>4. ASSUME NEW q \in Requests, q # r
      PROVE  Claim(q)'
  <2>1. req'[q] = req[q]
      BY <1>4
  <2>2. req[q].pc = "family" =>
           /\ \A t \in Tokens : tokens'[t].family # req[q].family
           /\ \A p \in Requests :
                 req'[p].pc = "family" /\ req'[p].family = req[q].family => p = q
      BY DEF IInv, Claim, ClaimFamily
  <2>3. req[q].pc = "successor" =>
           rowLock'[req[q].token] = q /\ ~tokens'[req[q].token].revoked
      BY DEF IInv, Claim, ClaimLock
  <2> QED
      BY <1>3, <2>1, <2>2, <2>3, ClaimKept
<1> QED
    BY <1>1, <1>2, <1>4 DEF IInv

(* Where a request goes.                                                   *)
LEMMA NextPc ==
    ASSUME TypeOK, NEW r \in Requests
    PROVE  /\ \A pc : Goto(r, pc) => req'[r].pc = pc
           /\ Done(r) => req'[r].pc = "idle"
           /\ AfterFamily(r) => req'[r].pc \in {"drain", "endSession"}
<1>1. req \in [Requests -> Request] /\ req[r] \in Request
    BY DEF TypeOK
<1>2. ASSUME NEW pc, Goto(r, pc)
      PROVE  req'[r].pc = pc
    BY <1>1, <1>2 DEF Goto, Request
<1>3. Done(r) => req'[r].pc = "idle"
    BY <1>1 DEF Done, IdleReq
<1>4. ASSUME NEW pc, req' = [req EXCEPT ![r].snapshot = {}, ![r].pc = pc]
      PROVE  req'[r].pc = pc
    BY <1>1, <1>4 DEF Request
<1>5. AfterFamily(r) => req'[r].pc \in {"drain", "endSession"}
    BY <1>4 DEF AfterFamily
<1> QED
    BY <1>2, <1>3, <1>5

LEMMA RevokeRowsKeepsUsers ==
    ASSUME TypeOK, NEW fs, RevokeRows(fs), NEW f \in Families
    PROVE  sessions'[f].user = sessions[f].user
BY DEF TypeOK, RevokeRows, SessionRow

(* The steps that end sessions, and those that only read or give up.       *)
LEMMA QuietServed ==
    ASSUME IInv, TypeOK', NEW r \in Requests,
           \/ RefreshLookup(r) \/ RenewRefused(r) \/ RotateReused(r)
           \/ RevokeFamilyStart(r) \/ RevokeRow(r) \/ LogoutLookup(r)
           \/ Admit(r) \/ RevokeTarget(r) \/ RevokeBulk(r) \/ DrainBatch(r)
           \/ LoseResponse(r) \/ FaultCutsBulk(r) \/ FaultLogged(r)
    PROVE  IInv'
<1>0. TypeOK /\ req[r] \in Request
    BY DEF IInv, TypeOK
<1>1. \A q \in Requests \ {r} : req'[q] = req[q]
    BY <1>0, ServedPastLookup DEF Serve
<1>2. UNCHANGED <<tokens, rowLock, jar>>
    BY DEF RefreshLookup, RenewRefused, RotateReused, RevokeFamilyStart, RevokeRow,
           LogoutLookup, Admit, RevokeTarget, RevokeBulk, DrainBatch, LoseResponse,
           FaultCutsBulk, FaultLogged
<1>3. ASSUME NEW f \in Families
      PROVE  sessions'[f].user = sessions[f].user
  <2>1. CASE RevokeRow(r)
      BY <1>0, <2>1 DEF RevokeRow, TypeOK, SessionRow
  <2>2. CASE RevokeBulk(r) \/ FaultCutsBulk(r)
      BY <1>0, <2>2, RevokeRowsKeepsUsers DEF RevokeBulk, FaultCutsBulk
  <2>3. CASE ~(RevokeRow(r) \/ RevokeBulk(r) \/ FaultCutsBulk(r))
    <3>1. UNCHANGED sessions
        BY <2>3 DEF RefreshLookup, RenewRefused, RotateReused, RevokeFamilyStart,
                    LogoutLookup, Admit, RevokeTarget, DrainBatch, LoseResponse,
                    FaultLogged
    <3> QED
        BY <3>1
  <2> QED
      BY <2>1, <2>2, <2>3
<1> DEFINE Quiet == req'[r].pc \notin {"family", "lookup", "rotate", "successor", "reply"}
<1>4. CASE RefreshLookup(r) /\ req'[r].pc = "rotate"
  <2>1. ~Goto(r, "clear")
      BY <1>0, <1>4, NextPc
  <2>2. ASSUME NEW pc \in {"rotate", "endFamily"},
               req' = [req EXCEPT ![r].pc = pc,
                                  ![r].family = tokens[req[r].token].family]
        PROVE  Claim(r)'
    <3>1. /\ req[r].token \in Tokens
          /\ Owns(tokens[req[r].token].family, req[r].device)
        BY <1>4 DEF RefreshLookup, IInv, Claim, ClaimCookie
    <3>2. /\ req'[r].token = req[r].token /\ req'[r].device = req[r].device
          /\ req'[r].family = tokens[req[r].token].family
        BY <1>0, <2>2 DEF TypeOK, Request
    <3>3. ClaimToken(r)'
        BY <1>2, <1>3, <3>1, <3>2 DEF ClaimToken, Owns
    <3> QED
        BY <1>4, <3>3 DEF Claim, ClaimFamily, ClaimCookie, ClaimLock
  <2>3. Claim(r)'
      BY <1>4, <2>1, <2>2 DEF RefreshLookup
  <2> QED
      BY <1>1, <1>2, <1>3, <1>4, <2>3, QuietStep
<1>5. ASSUME NEW pc \in PCs \ {"family", "lookup", "rotate", "successor", "reply"},
             NEW f, req' = [req EXCEPT ![r].pc = pc, ![r].family = f]
      PROVE  Quiet
    BY <1>0, <1>5 DEF TypeOK, Request
<1>6. Quiet \/ (RefreshLookup(r) /\ req'[r].pc = "rotate")
  <2>1. CASE RefreshLookup(r)
    <3> DEFINE f == tokens[req[r].token].family
    <3>1. CASE Goto(r, "clear")
        BY <1>0, <3>1, NextPc
    <3>2. CASE req' = [req EXCEPT ![r].pc = "rotate", ![r].family = f]
        BY <1>0, <2>1, <3>2 DEF TypeOK, Request
    <3>3. CASE req' = [req EXCEPT ![r].pc = "endFamily", ![r].family = f]
        BY <1>0, <1>5, <3>3 DEF PCs
    <3> QED
        BY <2>1, <3>1, <3>2, <3>3 DEF RefreshLookup
  <2>2. CASE LogoutLookup(r)
    <3>1. Goto(r, "clear") \/ \E f : req' = [req EXCEPT ![r].pc = "endFamily", ![r].family = f]
        BY <2>2 DEF LogoutLookup
    <3>2. Goto(r, "clear") => Quiet
        BY <1>0, NextPc
    <3> QED
        BY <1>5, <3>1, <3>2 DEF PCs
  <2>3. CASE RenewRefused(r) \/ RotateReused(r) \/ RevokeRow(r) \/ Admit(r)
             \/ RevokeTarget(r) \/ LoseResponse(r) \/ FaultCutsBulk(r)
      BY <1>0, <2>3, NextPc
      DEF RenewRefused, RotateReused, RevokeRow, Admit, RevokeTarget, LoseResponse,
          FaultCutsBulk
  <2>4. CASE FaultLogged(r)
      BY <1>0, <2>4, NextPc DEF FaultLogged
  <2>5. CASE RevokeFamilyStart(r)
      BY <1>0, <2>5 DEF RevokeFamilyStart, TypeOK, Request
  <2>6. CASE RevokeBulk(r)
      BY <1>0, <2>6 DEF RevokeBulk, TypeOK, Request
  <2>7. CASE DrainBatch(r)
    <3>1. ASSUME NEW f, req' = [req EXCEPT ![r].pc = "endFamily", ![r].family = f,
                                           ![r].batch = @ \ {f}]
          PROVE  Quiet
        BY <1>0, <3>1 DEF TypeOK, Request
    <3> QED
        BY <1>0, <2>7, <3>1, NextPc DEF DrainBatch
  <2> QED
      BY <2>1, <2>2, <2>3, <2>4, <2>5, <2>6, <2>7
<1> QED
    BY <1>1, <1>2, <1>3, <1>4, <1>6, NoClaim, QuietStep

-----------------------------------------------------------------------------
(* The steps that send a request.                                          *)

LEMMA ReceivedFields ==
    ASSUME NEW op, NEW pc, NEW d, NEW f
    PROVE  LET q == Received(op, pc, d, f) IN
           /\ q.pc = pc /\ q.op = op /\ q.device = d /\ q.family = f
           /\ q.token = jar[d].refresh
BY DEF Received, IdleReq

LEMMA SentQuietly ==
    ASSUME IInv, TypeOK', NEW r \in Requests, NEW d \in Devices,
           UNCHANGED <<sessions, tokens, rowLock, jar>>,
           NEW op, NEW f, op = "refresh" => jar[d].refresh # None,
           req' = [req EXCEPT ![r] = Received(op, "lookup", d, f)]
    PROVE  IInv'
<1>1. req'[r] = Received(op, "lookup", d, f)
      /\ \A q \in Requests \ {r} : req'[q] = req[q]
    BY DEF IInv, TypeOK
<1>2. /\ req'[r].pc = "lookup" /\ req'[r].op = op /\ req'[r].device = d
      /\ req'[r].token = jar[d].refresh
    BY <1>1, ReceivedFields
<1>3. ClaimCookie(r)'
  <2>1. SUFFICES ASSUME op = "refresh"
                 PROVE  /\ jar[d].refresh \in Tokens
                        /\ Owns(tokens[jar[d].refresh].family, d)
      BY <1>2 DEF ClaimCookie, Owns
  <2>2. jar[d] \in Jar /\ jar[d].refresh \in Tokens
      BY <2>1 DEF IInv, TypeOK, Jar
  <2>3. /\ Issued(jar[d].refresh)
        /\ tokens[jar[d].refresh].family = jar[d].access
        /\ sessions[jar[d].access].user = UserOf[d]
      BY <2>1 DEF IInv, CredentialsNameSession
  <2>4. jar[d].access \in Families
      BY <2>2, <2>3 DEF Jar, Issued
  <2> QED
      BY <2>2, <2>3, <2>4 DEF Owns
<1>4. Claim(r)'
    BY <1>2, <1>3 DEF Claim, ClaimFamily, ClaimToken, ClaimLock
<1> QED
    BY <1>1, <1>2, <1>4, QuietStep

(* A login takes a family nobody has recorded, so nobody has claimed it    *)
(* and no token or jar names it.                                           *)
LEMMA RecordSessionSafe ==
    ASSUME IInv, TypeOK', NEW r \in Requests, NEW d \in Devices,
           RecordSession(r, d)
    PROVE  IInv'
<1>1. PICK f \in Families :
         /\ ~Recorded(f)
         /\ sessions' = [sessions EXCEPT ![f] = NewSession(d)]
         /\ req' = [req EXCEPT ![r] = Received("login", "family", d, f)]
    BY DEF RecordSession
<1>2. UNCHANGED <<tokens, rowLock, jar>>
    BY DEF RecordSession
<1>3. UsersKept /\ FamiliesKept
    BY <1>1, <1>2 DEF IInv, TypeOK, UsersKept, FamiliesKept
<1>4. /\ req'[r].pc = "family" /\ req'[r].family = f /\ req'[r].device = d
      /\ \A q \in Requests \ {r} : req'[q] = req[q]
    BY <1>1, ReceivedFields DEF IInv, TypeOK
<1>5. sessions'[f].user = UserOf[d]
    BY <1>1 DEF IInv, TypeOK, NewSession
<1>6. \A t \in Tokens : tokens[t].family # f
    BY <1>1, NoneIsFresh DEF IInv, CredentialsNameSession, Issued
<1>7. ASSUME NEW q \in Requests, req[q].pc = "family"
      PROVE  req[q].family # f
    BY <1>1, <1>7, OwnedIsRecorded DEF IInv, Claim, ClaimFamily
<1>8. OneLiveToken' /\ SpentAreRevoked'
    BY <1>2 DEF IInv, OneLiveToken, SpentAreRevoked, Live, Issued
<1>9. CredentialsNameSession'
  <2>1. ASSUME NEW t \in Tokens, tokens[t].family # None
        PROVE  sessions'[tokens[t].family].user # None
    <3>1. Recorded(tokens[t].family) /\ tokens[t].family \in Families
        BY <2>1 DEF IInv, TypeOK, TokenRow, CredentialsNameSession, Issued
    <3> QED
        BY <1>3, <3>1 DEF UsersKept, Recorded
  <2>2. ASSUME NEW c \in Devices, jar[c].refresh # None
        PROVE  /\ tokens[jar[c].refresh].family # None
               /\ tokens[jar[c].refresh].family = jar[c].access
               /\ sessions'[jar[c].access].user = UserOf[c]
    <3>1. /\ tokens[jar[c].refresh].family # None
          /\ tokens[jar[c].refresh].family = jar[c].access
          /\ sessions[jar[c].access].user = UserOf[c]
        BY <2>2 DEF IInv, CredentialsNameSession, Issued
    <3>2. jar[c] \in Jar
        BY DEF IInv, TypeOK
    <3>3. Owns(jar[c].access, c)
        BY <3>1, <3>2 DEF Jar, Owns
    <3> QED
        BY <1>3, <3>1, <3>3, OwnsKept
  <2> QED
      BY <1>2, <2>1, <2>2 DEF CredentialsNameSession, Issued, Recorded
<1>10. ASSUME NEW q \in Requests, q # r
       PROVE  Claim(q)'
  <2>1. req'[q] = req[q]
      BY <1>4, <1>10
  <2>2. req[q].pc = "family" =>
           /\ \A t \in Tokens : tokens'[t].family # req[q].family
           /\ \A p \in Requests :
                 req'[p].pc = "family" /\ req'[p].family = req[q].family => p = q
      BY <1>2, <1>4, <1>7 DEF IInv, Claim, ClaimFamily
  <2>3. req[q].pc = "successor" =>
           rowLock'[req[q].token] = q /\ ~tokens'[req[q].token].revoked
      BY <1>2 DEF IInv, Claim, ClaimLock
  <2> QED
      BY <1>3, <2>1, <2>2, <2>3, ClaimKept
<1>11. Claim(r)'
  <2>1. ClaimFamily(r)'
      BY <1>2, <1>4, <1>5, <1>6, <1>7 DEF ClaimFamily, Owns
  <2> QED
      BY <1>4, <2>1 DEF Claim, ClaimCookie, ClaimToken, ClaimLock
<1> QED
    BY <1>8, <1>9, <1>10, <1>11 DEF IInv

-----------------------------------------------------------------------------
(* The steps that write tokens, take and release their locks, or set       *)
(* cookies.                                                                *)

(* The credentials survive a step that changes no owner and no issued      *)
(* token's family, and whose new tokens are of recorded families.          *)
LEMMA CredentialsGrow ==
    ASSUME IInv, UsersKept, FamiliesKept, UNCHANGED jar,
           \A t \in Tokens : tokens'[t].family \in Families \cup {None},
           \A t \in Tokens : ~Issued(t) /\ tokens'[t].family # None
                                => Recorded(tokens'[t].family)
    PROVE  CredentialsNameSession'
<1>1. ASSUME NEW t \in Tokens, tokens'[t].family # None
      PROVE  sessions'[tokens'[t].family].user # None
  <2>1. Recorded(tokens'[t].family)
      BY <1>1 DEF IInv, CredentialsNameSession, FamiliesKept
  <2>2. tokens'[t].family \in Families
      BY <1>1
  <2> QED
      BY <2>1, <2>2 DEF UsersKept, Recorded
<1>2. ASSUME NEW d \in Devices, jar[d].refresh # None
      PROVE  /\ tokens'[jar[d].refresh].family # None
             /\ tokens'[jar[d].refresh].family = jar[d].access
             /\ sessions'[jar[d].access].user = UserOf[d]
  <2>1. /\ Issued(jar[d].refresh)
        /\ tokens[jar[d].refresh].family = jar[d].access
        /\ sessions[jar[d].access].user = UserOf[d]
      BY <1>2 DEF IInv, CredentialsNameSession
  <2>2. jar[d] \in Jar /\ jar[d].refresh \in Tokens
      BY <1>2 DEF IInv, TypeOK, Jar
  <2>3. Owns(jar[d].access, d)
      BY <2>1, <2>2 DEF Jar, Issued, Owns
  <2>4. tokens'[jar[d].refresh].family = tokens[jar[d].refresh].family
      BY <2>1, <2>2 DEF FamiliesKept
  <2> QED
      BY <2>1, <2>3, <2>4, OwnsKept DEF Issued
<1> QED
    BY <1>1, <1>2 DEF CredentialsNameSession, Issued, Recorded

(* The first token of a family: no other token is of it.                   *)
LEMMA StartRefreshFamilySafe ==
    ASSUME IInv, TypeOK', NEW r \in Requests, StartRefreshFamily(r)
    PROVE  IInv'
<1>0. TypeOK /\ req[r] \in Request /\ tokens \in [Tokens -> TokenRow]
    BY DEF IInv, TypeOK
<1>1. PICK n \in Tokens :
         /\ ~Issued(n)
         /\ tokens' = [tokens EXCEPT ![n].family = req[r].family]
         /\ req' = [req EXCEPT ![r].pc = "reply", ![r].token = n]
    BY DEF StartRefreshFamily
<1>2. UNCHANGED <<sessions, rowLock, jar>> /\ req[r].pc = "family"
    BY DEF StartRefreshFamily
<1>3. /\ Owns(req[r].family, req[r].device)
      /\ \A t \in Tokens : tokens[t].family # req[r].family
    BY <1>2 DEF IInv, Claim, ClaimFamily
<1>4. /\ tokens'[n].family = req[r].family
      /\ \A t \in Tokens \ {n} : tokens'[t] = tokens[t]
      /\ \A t \in Tokens : /\ tokens'[t].revoked = tokens[t].revoked
                            /\ tokens'[t].replacedBy = tokens[t].replacedBy
    BY <1>0, <1>1 DEF TokenRow
<1>5. UsersKept /\ FamiliesKept
    BY <1>1, <1>2, <1>4 DEF UsersKept, FamiliesKept
<1>6. /\ req'[r].pc = "reply" /\ req'[r].token = n
      /\ req'[r].family = req[r].family /\ req'[r].device = req[r].device
      /\ \A q \in Requests \ {r} : req'[q] = req[q]
    BY <1>0, <1>1 DEF TypeOK, Request
<1>7. OneLiveToken'
  <2>1. SUFFICES ASSUME NEW s \in Tokens, NEW t \in Tokens, s # t,
                        tokens'[s].family # None, ~tokens'[s].revoked,
                        tokens'[t].family # None, ~tokens'[t].revoked,
                        tokens'[s].family = tokens'[t].family
                 PROVE  FALSE
      BY DEF OneLiveToken, Live, Issued
  <2>2. CASE s = n \/ t = n
      BY <1>3, <1>4, <2>1, <2>2
  <2>3. CASE s # n /\ t # n
      BY <1>4, <2>1, <2>3 DEF IInv, OneLiveToken, Live, Issued
  <2> QED
      BY <2>2, <2>3
<1>8. SpentAreRevoked'
    BY <1>4 DEF IInv, SpentAreRevoked
<1>9. CredentialsNameSession'
  <2>1. Recorded(req[r].family)
      BY <1>3, OwnedIsRecorded
  <2>2. \A t \in Tokens : tokens'[t].family \in Families \cup {None}
      BY DEF TypeOK, TokenRow
  <2> QED
      BY <1>2, <1>4, <1>5, <2>1, <2>2, CredentialsGrow DEF Issued
<1>10. ASSUME NEW q \in Requests, q # r
       PROVE  Claim(q)'
  <2>1. req'[q] = req[q]
      BY <1>6, <1>10
  <2>2. req[q].pc = "family" =>
           /\ \A t \in Tokens : tokens'[t].family # req[q].family
           /\ \A p \in Requests :
                 req'[p].pc = "family" /\ req'[p].family = req[q].family => p = q
      BY <1>2, <1>4, <1>6, <1>10 DEF IInv, Claim, ClaimFamily
  <2>3. req[q].pc = "successor" =>
           rowLock'[req[q].token] = q /\ ~tokens'[req[q].token].revoked
      BY <1>2, <1>4 DEF IInv, Claim, ClaimLock, ClaimToken
  <2> QED
      BY <1>5, <2>1, <2>2, <2>3, ClaimKept
<1>11. Claim(r)'
  <2>1. ClaimToken(r)'
      BY <1>2, <1>3, <1>4, <1>6 DEF ClaimToken, Owns
  <2> QED
      BY <1>6, <2>1 DEF Claim, ClaimFamily, ClaimCookie, ClaimLock
<1> QED
    BY <1>7, <1>8, <1>9, <1>10, <1>11 DEF IInv

(* Spending takes the lock of a row nobody holds.                          *)
LEMMA RotateSpendSafe ==
    ASSUME IInv, TypeOK', NEW r \in Requests, RotateSpend(r)
    PROVE  IInv'
<1>0. TypeOK /\ req[r] \in Request
    BY DEF IInv, TypeOK
<1>1. /\ req[r].pc = "rotate" /\ rowLock[req[r].token] = None
      /\ ~tokens[req[r].token].revoked
      /\ rowLock' = [rowLock EXCEPT ![req[r].token] = r]
      /\ req' = [req EXCEPT ![r].pc = "successor"]
      /\ UNCHANGED <<sessions, tokens, jar>>
    BY DEF RotateSpend, Spendable, Goto
<1>2. req[r].token \in Tokens
    BY <1>1 DEF IInv, Claim, ClaimToken
<1>3. /\ req'[r].pc = "successor" /\ req'[r].token = req[r].token
      /\ req'[r].family = req[r].family /\ req'[r].device = req[r].device
      /\ \A q \in Requests \ {r} : req'[q] = req[q]
    BY <1>0, <1>1 DEF TypeOK, Request
<1>4. OneLiveToken' /\ SpentAreRevoked'
    BY <1>1 DEF IInv, OneLiveToken, SpentAreRevoked, Live, Issued
<1>5. CredentialsNameSession'
    BY <1>1, CredentialsKept
<1>6. UsersKept /\ FamiliesKept
    BY <1>1 DEF UsersKept, FamiliesKept
<1>7. ASSUME NEW q \in Requests, q # r
      PROVE  Claim(q)'
  <2>1. req'[q] = req[q]
      BY <1>3, <1>7
  <2>2. req[q].pc = "family" =>
           /\ \A t \in Tokens : tokens'[t].family # req[q].family
           /\ \A p \in Requests :
                 req'[p].pc = "family" /\ req'[p].family = req[q].family => p = q
      BY <1>1, <1>3 DEF IInv, Claim, ClaimFamily
  <2>3. req[q].pc = "successor" =>
           rowLock'[req[q].token] = q /\ ~tokens'[req[q].token].revoked
    <3>1. SUFFICES ASSUME req[q].pc = "successor"
                   PROVE  rowLock'[req[q].token] = q /\ ~tokens[req[q].token].revoked
        BY <1>1
    <3>2. rowLock[req[q].token] = q /\ ~tokens[req[q].token].revoked
        BY <3>1 DEF IInv, Claim, ClaimLock
    <3>3. req[q].token # req[r].token
        BY <1>1, <3>2, NoneIsFresh
    <3>4. req[q].token \in Tokens
        BY <3>1 DEF IInv, Claim, ClaimToken
    <3> QED
        BY <1>0, <1>1, <3>2, <3>3, <3>4 DEF TypeOK
  <2> QED
      BY <1>6, <2>1, <2>2, <2>3, ClaimKept
<1>8. Claim(r)'
  <2>1. ClaimToken(r)'
      BY <1>1, <1>3 DEF IInv, Claim, ClaimToken, Owns
  <2>2. ClaimLock(r)'
      BY <1>0, <1>1, <1>2, <1>3 DEF TypeOK, ClaimLock
  <2> QED
      BY <1>3, <2>1, <2>2 DEF Claim, ClaimFamily, ClaimCookie
<1> QED
    BY <1>4, <1>5, <1>7, <1>8 DEF IInv

(* Releasing the locks of r leaves those of the others in place.           *)
LEMMA UnlockOthers ==
    ASSUME IInv, NEW r \in Requests, Unlock(r), NEW q \in Requests \ {r},
           req[q].pc = "successor"
    PROVE  rowLock'[req[q].token] = q
<1>1. req[q].token \in Tokens /\ rowLock[req[q].token] = q
    BY DEF IInv, Claim, ClaimToken, ClaimLock
<1> QED
    BY <1>1 DEF Unlock

(* The commit: the spent token was the live one of its family, so its      *)
(* successor is the only live one.                                         *)
LEMMA RotateCommitSafe ==
    ASSUME IInv, TypeOK', NEW r \in Requests, RotateCommit(r)
    PROVE  IInv'
<1> DEFINE old == req[r].token
<1>0. TypeOK /\ req[r] \in Request /\ tokens \in [Tokens -> TokenRow]
    BY DEF IInv, TypeOK
<1>1. PICK n \in Tokens :
         /\ ~Issued(n)
         /\ tokens' = [tokens EXCEPT ![old].revoked = TRUE,
                                     ![old].replacedBy = n,
                                     ![n].family = req[r].family]
         /\ req' = [req EXCEPT ![r].pc = "reply", ![r].token = n]
    BY DEF RotateCommit
<1>2. UNCHANGED <<sessions, jar>> /\ Unlock(r) /\ req[r].pc = "successor"
    BY DEF RotateCommit
<1>3. /\ old \in Tokens /\ tokens[old].family = req[r].family
      /\ Owns(req[r].family, req[r].device)
      /\ rowLock[old] = r /\ ~tokens[old].revoked
    BY <1>2 DEF IInv, Claim, ClaimToken, ClaimLock
<1>4. n # old /\ Issued(old)
    BY <1>1, <1>3, NoneIsFresh DEF Issued, Owns
<1>5. /\ tokens'[n].family = req[r].family
      /\ tokens'[n].revoked = tokens[n].revoked
      /\ tokens'[n].replacedBy = tokens[n].replacedBy
    BY <1>0, <1>1, <1>4 DEF TokenRow
<1>6. tokens'[old].revoked = TRUE /\ tokens'[old].family = tokens[old].family
    BY <1>0, <1>1, <1>3, <1>4 DEF TokenRow
<1>7. \A t \in Tokens \ {n, old} : tokens'[t] = tokens[t]
    BY <1>0, <1>1
<1> HIDE DEF old
<1>8. UsersKept /\ FamiliesKept
    BY <1>1, <1>2, <1>6, <1>7 DEF UsersKept, FamiliesKept
<1>9. /\ req'[r].pc = "reply" /\ req'[r].token = n
      /\ req'[r].family = req[r].family /\ req'[r].device = req[r].device
      /\ \A q \in Requests \ {r} : req'[q] = req[q]
    BY <1>0, <1>1 DEF TypeOK, Request
<1>10. OneLiveToken'
  <2>1. SUFFICES ASSUME NEW s \in Tokens, NEW t \in Tokens, s # t,
                        tokens'[s].family # None, ~tokens'[s].revoked,
                        tokens'[t].family # None, ~tokens'[t].revoked,
                        tokens'[s].family = tokens'[t].family
                 PROVE  FALSE
      BY DEF OneLiveToken, Live, Issued
  <2>2. s # old /\ t # old
      BY <1>6, <2>1
  <2>3. ASSUME NEW u \in Tokens \ {n, old}, Live(u),
               tokens[u].family = req[r].family
        PROVE  FALSE
      BY <1>3, <1>4, <2>3 DEF IInv, OneLiveToken, Live
  <2>4. CASE s = n
      BY <1>5, <1>7, <2>1, <2>2, <2>3, <2>4 DEF Live, Issued
  <2>5. CASE t = n
      BY <1>5, <1>7, <2>1, <2>2, <2>3, <2>5 DEF Live, Issued
  <2>6. CASE s # n /\ t # n
      BY <1>7, <2>1, <2>2, <2>6 DEF IInv, OneLiveToken, Live, Issued
  <2> QED
      BY <2>4, <2>5, <2>6
<1>11. SpentAreRevoked'
    BY <1>5, <1>6, <1>7 DEF IInv, SpentAreRevoked
<1>12. CredentialsNameSession'
  <2>1. Recorded(req[r].family)
      BY <1>3, OwnedIsRecorded
  <2>2. \A t \in Tokens : tokens'[t].family \in Families \cup {None}
      BY DEF TypeOK, TokenRow
  <2>3. ASSUME NEW t \in Tokens, ~Issued(t), tokens'[t].family # None
        PROVE  Recorded(tokens'[t].family)
      BY <1>4, <1>5, <1>7, <2>1, <2>3 DEF Issued
  <2> QED
      BY <1>2, <1>8, <2>2, <2>3, CredentialsGrow
<1>13. ASSUME NEW q \in Requests, q # r
       PROVE  Claim(q)'
  <2>1. req'[q] = req[q]
      BY <1>9, <1>13
  <2>2. req[q].pc = "family" =>
           /\ \A t \in Tokens : tokens'[t].family # req[q].family
           /\ \A p \in Requests :
                 req'[p].pc = "family" /\ req'[p].family = req[q].family => p = q
      BY <1>3, <1>5, <1>6, <1>7, <1>9 DEF IInv, Claim, ClaimFamily
  <2>3. req[q].pc = "successor" =>
           rowLock'[req[q].token] = q /\ ~tokens'[req[q].token].revoked
    <3>1. SUFFICES ASSUME req[q].pc = "successor"
                   PROVE  rowLock'[req[q].token] = q /\ ~tokens'[req[q].token].revoked
        OBVIOUS
    <3>2. rowLock'[req[q].token] = q
        BY <1>2, <1>13, <3>1, UnlockOthers
    <3>3. /\ req[q].token \in Tokens
          /\ rowLock[req[q].token] = q /\ ~tokens[req[q].token].revoked
        BY <3>1 DEF IInv, Claim, ClaimToken, ClaimLock
    <3>4. req[q].token # old
        BY <1>3, <1>13, <3>3
    <3> QED
        BY <1>5, <1>7, <3>2, <3>3, <3>4
  <2> QED
      BY <1>8, <2>1, <2>2, <2>3, ClaimKept
<1>14. Claim(r)'
  <2>1. ClaimToken(r)'
      BY <1>2, <1>3, <1>5, <1>9 DEF ClaimToken, Owns
  <2> QED
      BY <1>9, <2>1 DEF Claim, ClaimFamily, ClaimCookie, ClaimLock
<1> QED
    BY <1>10, <1>11, <1>12, <1>13, <1>14 DEF IInv

(* Ending a family spends tokens whose rows nobody has locked.             *)
LEMMA RevokeFamilyFinishSafe ==
    ASSUME IInv, TypeOK', NEW r \in Requests, RevokeFamilyFinish(r)
    PROVE  IInv'
<1>0. TypeOK /\ tokens \in [Tokens -> TokenRow]
    BY DEF IInv, TypeOK
<1>1. /\ \A t \in req[r].snapshot : rowLock[t] = None
      /\ UNCHANGED <<sessions, rowLock, jar>> /\ AfterFamily(r)
    BY DEF RevokeFamilyFinish
<1>2. ASSUME NEW t \in Tokens
      PROVE  /\ tokens'[t].family = tokens[t].family
             /\ tokens'[t].replacedBy = tokens[t].replacedBy
             /\ tokens[t].revoked => tokens'[t].revoked
             /\ t \notin req[r].snapshot => tokens'[t] = tokens[t]
    BY <1>0 DEF RevokeFamilyFinish, TokenRow
<1>3. /\ \A q \in Requests \ {r} : req'[q] = req[q]
      /\ req'[r].pc \in {"drain", "endSession"}
    BY <1>0, <1>1, NextPc, ServedPastLookup DEF Serve
<1>4. OneLiveToken' /\ SpentAreRevoked'
    BY <1>2 DEF IInv, OneLiveToken, SpentAreRevoked, Live, Issued
<1>5. UsersKept /\ FamiliesKept
    BY <1>1, <1>2 DEF UsersKept, FamiliesKept
<1>6. CredentialsNameSession'
    BY <1>1, <1>2, <1>5, CredentialsGrow DEF TypeOK, TokenRow, Issued
<1>7. ASSUME NEW q \in Requests, q # r
      PROVE  Claim(q)'
  <2>1. req'[q] = req[q]
      BY <1>3, <1>7
  <2>2. req[q].pc = "family" =>
           /\ \A t \in Tokens : tokens'[t].family # req[q].family
           /\ \A p \in Requests :
                 req'[p].pc = "family" /\ req'[p].family = req[q].family => p = q
      BY <1>2, <1>3 DEF IInv, Claim, ClaimFamily
  <2>3. req[q].pc = "successor" =>
           rowLock'[req[q].token] = q /\ ~tokens'[req[q].token].revoked
      BY <1>1, <1>2, NoneIsFresh DEF IInv, Claim, ClaimToken, ClaimLock
  <2> QED
      BY <1>5, <2>1, <2>2, <2>3, ClaimKept
<1>8. Claim(r)'
    BY <1>3, NoClaim
<1> QED
    BY <1>4, <1>6, <1>7, <1>8 DEF IInv

(* A step that moves one request to idle or to the end of its work, and    *)
(* changes neither rows nor owners; locks of the others stay.              *)
LEMMA RetireStep ==
    ASSUME IInv, TypeOK', NEW r \in Requests, Done(r),
           UNCHANGED <<sessions, tokens>>, CredentialsNameSession',
           \A q \in Requests \ {r} :
              req[q].pc = "successor" => rowLock'[req[q].token] = q
    PROVE  IInv'
<1>1. /\ \A q \in Requests \ {r} : req'[q] = req[q]
      /\ req'[r].pc = "idle"
    BY DEF IInv, TypeOK, Done, IdleReq
<1>2. OneLiveToken' /\ SpentAreRevoked'
    BY DEF IInv, OneLiveToken, SpentAreRevoked, Live, Issued
<1>3. UsersKept /\ FamiliesKept
    BY DEF UsersKept, FamiliesKept
<1>4. ASSUME NEW q \in Requests, q # r
      PROVE  Claim(q)'
  <2>1. req'[q] = req[q]
      BY <1>1, <1>4
  <2>2. req[q].pc = "family" =>
           /\ \A t \in Tokens : tokens'[t].family # req[q].family
           /\ \A p \in Requests :
                 req'[p].pc = "family" /\ req'[p].family = req[q].family => p = q
      BY <1>1 DEF IInv, Claim, ClaimFamily
  <2>3. req[q].pc = "successor" =>
           rowLock'[req[q].token] = q /\ ~tokens'[req[q].token].revoked
      BY <1>4 DEF IInv, Claim, ClaimLock
  <2> QED
      BY <1>3, <2>1, <2>2, <2>3, ClaimKept
<1>5. Claim(r)'
    BY <1>1, NoClaim
<1> QED
    BY <1>2, <1>4, <1>5 DEF IInv

(* The cookies of a response name the session of the token in it.          *)
LEMMA RespondSafe ==
    ASSUME IInv, TypeOK', NEW r \in Requests, Respond(r)
    PROVE  IInv'
<1>1. /\ req[r].pc \in {"reply", "clear"} /\ Done(r)
      /\ UNCHANGED <<sessions, tokens, rowLock>>
      /\ jar' = [jar EXCEPT ![req[r].device] = Cookies(r)]
    BY DEF Respond
<1>2. CredentialsNameSession'
  <2>1. ASSUME NEW d \in Devices, jar'[d].refresh # None
        PROVE  /\ tokens[jar'[d].refresh].family # None
               /\ tokens[jar'[d].refresh].family = jar'[d].access
               /\ sessions[jar'[d].access].user = UserOf[d]
    <3>1. CASE jar'[d] = jar[d]
        BY <2>1, <3>1 DEF IInv, CredentialsNameSession, Issued
    <3>2. CASE jar'[d] # jar[d]
      <4>1. d = req[r].device /\ jar'[d] = Cookies(r)
          BY <1>1, <3>2 DEF IInv, TypeOK
      <4>2. req[r].pc = "reply"
          BY <1>1, <2>1, <4>1 DEF Cookies, NoCookies
      <4>3. jar'[d].refresh = req[r].token /\ jar'[d].access = req[r].family
          BY <4>1, <4>2 DEF Cookies
      <4>4. /\ tokens[req[r].token].family = req[r].family
            /\ Owns(req[r].family, req[r].device)
          BY <4>2 DEF IInv, Claim, ClaimToken
      <4> QED
          BY <4>1, <4>3, <4>4, NoneIsFresh DEF Owns
    <3> QED
        BY <3>1, <3>2
  <2> QED
      BY <1>1, <2>1 DEF IInv, CredentialsNameSession, Issued, Recorded
<1>3. ASSUME NEW q \in Requests \ {r}, req[q].pc = "successor"
      PROVE  rowLock'[req[q].token] = q
    BY <1>1, <1>3 DEF IInv, Claim, ClaimLock
<1> QED
    BY <1>1, <1>2, <1>3, RetireStep

(* A rotation that fails rolls back: its lock is released, nothing spent.  *)
LEMMA FaultAnsweredSafe ==
    ASSUME IInv, TypeOK', NEW r \in Requests, FaultAnswered(r)
    PROVE  IInv'
<1>1. Done(r) /\ Unlock(r) /\ UNCHANGED <<sessions, tokens, jar>>
    BY DEF FaultAnswered
<1>2. CredentialsNameSession'
    BY <1>1, CredentialsKept
<1>3. ASSUME NEW q \in Requests \ {r}, req[q].pc = "successor"
      PROVE  rowLock'[req[q].token] = q
    BY <1>1, <1>3, UnlockOthers
<1> QED
    BY <1>1, <1>2, <1>3, RetireStep

(* Time passing and stuttering: nothing of the invariant moves.            *)
LEMMA StillSafe ==
    ASSUME IInv, TypeOK', UNCHANGED <<sessions, tokens, rowLock, jar, req>>
    PROVE  IInv'
<1>1. OneLiveToken' /\ SpentAreRevoked' /\ CredentialsNameSession'
    BY DEF IInv, OneLiveToken, SpentAreRevoked, CredentialsNameSession, Live,
           Issued, Recorded
<1>2. ASSUME NEW q \in Requests
      PROVE  Claim(q)'
    BY DEF IInv, Claim, ClaimFamily, ClaimCookie, ClaimToken, ClaimLock, Owns
<1> QED
    BY <1>1, <1>2 DEF IInv

-----------------------------------------------------------------------------
LEMMA StepSafe ==
    ASSUME IInv, [Next]_vars
    PROVE  IInv'
<1>1. TypeOK /\ HasToken
    BY ClaimsHasToken DEF IInv
<1>2. TypeOK'
    BY <1>1, TypeInduction
<1>3. ASSUME NEW r \in Requests, NEW d \in Devices, Send(r, d)
      PROVE  IInv'
  <2>1. CASE SendRefresh(r, d)
      BY <1>2, <2>1, SentQuietly DEF SendRefresh
  <2>2. CASE SendLogout(r, d)
      BY <1>2, <2>2, SentQuietly DEF SendLogout
  <2>3. CASE RecordSession(r, d)
      BY <1>2, <2>3, RecordSessionSafe
  <2>4. ASSUME NEW f \in Families, SendRevoke(r, d, f)
        PROVE  IInv'
      BY <1>2, <2>4, SentQuietly DEF SendRevoke
  <2>5. ASSUME NEW op \in BulkOps, SendBulkRevoke(r, d, op)
        PROVE  IInv'
    <3>1. op # "refresh"
        BY DEF BulkOps
    <3> QED
        BY <1>2, <2>5, <3>1, SentQuietly DEF SendBulkRevoke
  <2> QED
      BY <1>3, <2>1, <2>2, <2>3, <2>4, <2>5 DEF Send
<1>4. ASSUME NEW r \in Requests, Serve(r)
      PROVE  IInv'
    BY <1>2, <1>4, StartRefreshFamilySafe, RotateSpendSafe, RotateCommitSafe,
       RevokeFamilyFinishSafe, RespondSafe, QuietServed DEF Serve
<1>5. ASSUME NEW r \in Requests,
             LoseResponse(r) \/ FaultAnswered(r) \/ FaultCutsBulk(r) \/ FaultLogged(r)
      PROVE  IInv'
    BY <1>2, <1>5, FaultAnsweredSafe, QuietServed
<1>6. ASSUME NEW f \in Families, Expire(f)
      PROVE  IInv'
    BY <1>2, <1>6, StillSafe DEF Expire
<1>7. CASE UNCHANGED vars
    BY <1>2, <1>7, StillSafe DEF vars
<1> QED
    BY <1>3, <1>4, <1>5, <1>6, <1>7 DEF Next

THEOREM Safe == Spec => []IInv
<1>1. Init => IInv
    BY InitSafe
<1>2. IInv /\ [Next]_vars => IInv'
    BY StepSafe
<1> QED
    BY <1>1, <1>2, PTL DEF Spec

(* Whatever the tabs of a device race, and whatever statement fails, the   *)
(* rotation of auth.go leaves at most one spendable token in a family.     *)
THEOREM RotationIsExclusive == Spec => []OneLiveToken
<1>1. IInv => OneLiveToken
    BY DEF IInv
<1> QED
    BY <1>1, Safe, PTL

(* No credential ever names a session the server has no row for, and no    *)
(* jar holds the session of somebody else.                                 *)
THEOREM CredentialsAreListed == Spec => []CredentialsNameSession
<1>1. IInv => CredentialsNameSession
    BY DEF IInv
<1> QED
    BY <1>1, Safe, PTL

-----------------------------------------------------------------------------
(* Rotation is linear.                                                     *)

LEMMA SuccessorKept ==
    ASSUME IInv, [Next]_vars, NEW t \in Tokens, tokens[t].replacedBy # None
    PROVE  tokens'[t].replacedBy = tokens[t].replacedBy
<1>0. TypeOK /\ tokens \in [Tokens -> TokenRow] /\ tokens[t].revoked
    BY DEF IInv, TypeOK, SpentAreRevoked
<1>1. ASSUME NEW r \in Requests, StartRefreshFamily(r)
      PROVE  tokens'[t].replacedBy = tokens[t].replacedBy
    BY <1>0, <1>1 DEF StartRefreshFamily, TokenRow
<1>2. ASSUME NEW r \in Requests, RevokeFamilyFinish(r)
      PROVE  tokens'[t].replacedBy = tokens[t].replacedBy
    BY <1>0, <1>2 DEF RevokeFamilyFinish, TokenRow
<1>3. ASSUME NEW r \in Requests, RotateCommit(r)
      PROVE  tokens'[t].replacedBy = tokens[t].replacedBy
  <2>1. t # req[r].token
      BY <1>0, <1>3 DEF RotateCommit, IInv, Claim, ClaimLock
  <2>2. PICK n \in Tokens :
           tokens' = [tokens EXCEPT ![req[r].token].revoked = TRUE,
                                    ![req[r].token].replacedBy = n,
                                    ![n].family = req[r].family]
      BY <1>3 DEF RotateCommit
  <2> QED
      BY <1>0, <2>1, <2>2 DEF TokenRow
<1>4. CASE UNCHANGED tokens
    BY <1>4
<1>5. \/ UNCHANGED tokens
      \/ \E r \in Requests :
            StartRefreshFamily(r) \/ RevokeFamilyFinish(r) \/ RotateCommit(r)
  <2>1. ASSUME NEW r \in Requests, NEW d \in Devices, Send(r, d)
        PROVE  UNCHANGED tokens
      BY <2>1 DEF Send, SendRefresh, SendLogout, RecordSession, SendRevoke,
                  SendBulkRevoke
  <2>2. ASSUME NEW r \in Requests, Serve(r)
        PROVE  \/ UNCHANGED tokens
               \/ StartRefreshFamily(r) \/ RevokeFamilyFinish(r) \/ RotateCommit(r)
      BY <2>2 DEF Serve, RefreshLookup, RenewRefused, RotateSpend, RotateReused,
                  RevokeFamilyStart, RevokeRow, LogoutLookup, Admit, RevokeTarget,
                  RevokeBulk, DrainBatch, Respond
  <2>3. ASSUME NEW r \in Requests,
               LoseResponse(r) \/ FaultAnswered(r) \/ FaultCutsBulk(r) \/ FaultLogged(r)
        PROVE  UNCHANGED tokens
      BY <2>3 DEF LoseResponse, FaultAnswered, FaultCutsBulk, FaultLogged
  <2>4. ASSUME NEW f \in Families, Expire(f)
        PROVE  UNCHANGED tokens
      BY <2>4 DEF Expire
  <2>5. CASE UNCHANGED vars
      BY <2>5 DEF vars
  <2> QED
      BY <2>1, <2>2, <2>3, <2>4, <2>5 DEF Next
<1> QED
    BY <1>1, <1>2, <1>3, <1>4, <1>5

(* A refresh token is exchanged once: its successor never changes, so a    *)
(* replay is recognised however late it comes.                             *)
THEOREM RotationIsLinear == Spec => SpentOnce
<1>1. IInv /\ [Next]_vars =>
         [\A t \in Tokens : tokens[t].replacedBy # None
             => tokens'[t].replacedBy = tokens[t].replacedBy]_vars
    BY SuccessorKept
<1> QED
    BY <1>1, Safe, PTL DEF Spec, SpentOnce

-----------------------------------------------------------------------------
(* Beyond safety: a request ends only sessions that exist, and an unissued *)
(* token row is clean.                                                     *)

Ending == {"endFamily", "endFamilyRun", "endSession"}

Grounded(r) ==
    /\ Busy(r) => req[r].device \in Devices
    /\ req[r].pc \in Ending => req[r].family \in Families /\ Recorded(req[r].family)
    /\ req[r].pc = "endFamilyRun" =>
          \A t \in req[r].snapshot : tokens[t].family = req[r].family
    /\ \A f \in req[r].batch : Recorded(f)
    /\ req[r].pc = "lookup" /\ req[r].op = "logout" /\ req[r].token # None =>
          Issued(req[r].token)
    /\ req[r].pc \in {"lookup", "authed"} /\ req[r].op = "revoke" =>
          req[r].family \in Families

GroundInv ==
    /\ \A t \in Tokens : ~Issued(t) => ~tokens[t].revoked
    /\ \A f \in Families : sessions[f].revoked => Recorded(f)
    /\ \A r \in Requests : Grounded(r)

LEMMA InitGrounded == Init => GroundInv
BY DEF Init, GroundInv, Grounded, NoToken, NoSession, IdleReq, Issued, Recorded,
       Busy, Ending

(* Rows only gain owners and families.                                     *)
LEMMA RowsKept ==
    ASSUME IInv, [Next]_vars
    PROVE  UsersKept /\ FamiliesKept
<1>0. /\ TypeOK /\ sessions \in [Families -> SessionRow]
      /\ tokens \in [Tokens -> TokenRow]
    BY DEF IInv, TypeOK
<1>1. ASSUME NEW r \in Requests, StartRefreshFamily(r) \/ RotateCommit(r)
      PROVE  UsersKept /\ FamiliesKept
  <2>1. UsersKept
      BY <1>1 DEF StartRefreshFamily, RotateCommit, UsersKept
  <2>2. ASSUME StartRefreshFamily(r)
        PROVE  FamiliesKept
      BY <1>0, <2>2 DEF StartRefreshFamily, FamiliesKept, TokenRow
  <2>3. ASSUME RotateCommit(r)
        PROVE  FamiliesKept
    <3>1. PICK n \in Tokens :
             /\ ~Issued(n)
             /\ tokens' = [tokens EXCEPT ![req[r].token].revoked = TRUE,
                                        ![req[r].token].replacedBy = n,
                                        ![n].family = req[r].family]
        BY <2>3 DEF RotateCommit
    <3>2. \A t \in Tokens \ {n} : tokens'[t].family = tokens[t].family
        BY <1>0, <3>1 DEF TokenRow
    <3> QED
        BY <3>1, <3>2 DEF FamiliesKept
  <2> QED
      BY <1>1, <2>1, <2>2, <2>3
<1>2. ASSUME NEW r \in Requests, RevokeFamilyFinish(r)
      PROVE  UsersKept /\ FamiliesKept
    BY <1>0, <1>2 DEF RevokeFamilyFinish, UsersKept, FamiliesKept, TokenRow
<1>3. ASSUME NEW r \in Requests, RevokeRow(r) \/ RevokeBulk(r) \/ FaultCutsBulk(r)
      PROVE  UsersKept /\ FamiliesKept
    BY <1>0, <1>3 DEF RevokeRow, RevokeBulk, FaultCutsBulk, RevokeRows, UsersKept,
                      FamiliesKept, SessionRow
<1>4. ASSUME NEW r \in Requests, NEW d \in Devices, RecordSession(r, d)
      PROVE  UsersKept /\ FamiliesKept
    BY <1>0, <1>4 DEF RecordSession, UsersKept, FamiliesKept
<1>5. CASE UNCHANGED <<sessions, tokens>>
    BY <1>5 DEF UsersKept, FamiliesKept
<1>6. \/ UNCHANGED <<sessions, tokens>>
      \/ \E r \in Requests, d \in Devices : RecordSession(r, d)
      \/ \E r \in Requests :
            StartRefreshFamily(r) \/ RotateCommit(r) \/ RevokeFamilyFinish(r)
            \/ RevokeRow(r) \/ RevokeBulk(r) \/ FaultCutsBulk(r)
  <2>1. ASSUME NEW r \in Requests, NEW d \in Devices, Send(r, d)
        PROVE  UNCHANGED <<sessions, tokens>> \/ RecordSession(r, d)
      BY <2>1 DEF Send, SendRefresh, SendLogout, SendRevoke, SendBulkRevoke
  <2>2. ASSUME NEW r \in Requests, Serve(r)
        PROVE  \/ UNCHANGED <<sessions, tokens>>
               \/ StartRefreshFamily(r) \/ RotateCommit(r) \/ RevokeFamilyFinish(r)
               \/ RevokeRow(r) \/ RevokeBulk(r)
      BY <2>2 DEF Serve, RefreshLookup, RenewRefused, RotateSpend, RotateReused,
                  RevokeFamilyStart, LogoutLookup, Admit, RevokeTarget, DrainBatch,
                  Respond
  <2>3. ASSUME NEW r \in Requests,
               LoseResponse(r) \/ FaultAnswered(r) \/ FaultLogged(r)
        PROVE  UNCHANGED <<sessions, tokens>>
      BY <2>3 DEF LoseResponse, FaultAnswered, FaultLogged
  <2>4. ASSUME NEW f \in Families, Expire(f)
        PROVE  UNCHANGED <<sessions, tokens>>
      BY <2>4 DEF Expire
  <2>5. CASE UNCHANGED vars
      BY <2>5 DEF vars
  <2> QED
      BY <2>1, <2>2, <2>3, <2>4, <2>5 DEF Next
<1> QED
    BY <1>1, <1>2, <1>3, <1>4, <1>5, <1>6

(* A request the step does not move stays grounded.                        *)
LEMMA GroundedKept ==
    ASSUME TypeOK, UsersKept, FamiliesKept, NEW q \in Requests, Grounded(q),
           req'[q] = req[q]
    PROVE  Grounded(q)'
<1>1. /\ req[q] \in Request /\ req[q].batch \subseteq Families
      /\ req[q].snapshot \subseteq Tokens
      /\ req[q].token \in Tokens \cup {None}
    BY DEF TypeOK, Request
<1>2. ASSUME NEW f \in Families, Recorded(f)
      PROVE  Recorded(f)'
    BY <1>2 DEF UsersKept, Recorded
<1>3. ASSUME NEW t \in Tokens, Issued(t)
      PROVE  Issued(t)'
    BY <1>3 DEF FamiliesKept, Issued
<1>4. req[q].pc = "endFamilyRun" =>
         \A t \in req[q].snapshot : tokens'[t].family = req[q].family
  <2>1. SUFFICES ASSUME req[q].pc = "endFamilyRun", NEW t \in req[q].snapshot
                 PROVE  tokens'[t].family = req[q].family
      OBVIOUS
  <2>2. tokens[t].family = req[q].family /\ req[q].family \in Families
      BY <2>1 DEF Grounded, Ending
  <2>3. Issued(t)
      BY <2>2, NoneIsFresh DEF Issued
  <2> QED
      BY <1>1, <2>2, <2>3 DEF FamiliesKept
<1>5. req[q].pc \in Ending => Recorded(req[q].family)'
    BY <1>2 DEF Grounded
<1>6. \A f \in req[q].batch : Recorded(f)'
    BY <1>1, <1>2 DEF Grounded
<1>7. req[q].pc = "lookup" /\ req[q].op = "logout" /\ req[q].token # None =>
         Issued(req[q].token)'
    BY <1>1, <1>3 DEF Grounded
<1>8. /\ Busy(q) => req[q].device \in Devices
      /\ req[q].pc \in Ending => req[q].family \in Families
    BY DEF Grounded
<1>9. /\ Busy(q)' <=> Busy(q)
      /\ req[q].pc \in {"lookup", "authed"} /\ req[q].op = "revoke" =>
            req[q].family \in Families
    BY DEF Busy, Grounded
<1> QED
    BY <1>4, <1>5, <1>6, <1>7, <1>8, <1>9 DEF Grounded, Recorded, Issued, Ending

-----------------------------------------------------------------------------
(* What a step makes of the request it moves.                              *)
LEMMA NextFields ==
    ASSUME TypeOK, NEW r \in Requests
    PROVE  /\ \A pc : Goto(r, pc) =>
                 /\ req'[r].pc = pc
                 /\ req'[r].family = req[r].family
                 /\ req'[r].device = req[r].device
                 /\ req'[r].batch = req[r].batch
                 /\ req'[r].op = req[r].op
           /\ Done(r) => req'[r] = IdleReq
           /\ AfterFamily(r) => /\ req'[r].pc \in {"drain", "endSession"}
                               /\ req'[r].family = req[r].family
                               /\ req'[r].device = req[r].device
                               /\ req'[r].batch = req[r].batch
<1>1. req \in [Requests -> Request] /\ req[r] \in Request
    BY DEF TypeOK
<1>2. ASSUME NEW pc, Goto(r, pc)
      PROVE  /\ req'[r].pc = pc /\ req'[r].family = req[r].family
             /\ req'[r].device = req[r].device /\ req'[r].batch = req[r].batch
             /\ req'[r].op = req[r].op
    BY <1>1, <1>2 DEF Goto, Request
<1>3. Done(r) => req'[r] = IdleReq
    BY <1>1 DEF Done
<1>4. ASSUME NEW pc, req' = [req EXCEPT ![r].snapshot = {}, ![r].pc = pc]
      PROVE  /\ req'[r].pc = pc /\ req'[r].family = req[r].family
             /\ req'[r].device = req[r].device /\ req'[r].batch = req[r].batch
    BY <1>1, <1>4 DEF Request
<1>5. AfterFamily(r) => /\ req'[r].pc \in {"drain", "endSession"}
                        /\ req'[r].family = req[r].family
                        /\ req'[r].device = req[r].device
                        /\ req'[r].batch = req[r].batch
    BY <1>4 DEF AfterFamily
<1> QED
    BY <1>2, <1>3, <1>5

(* A request that holds no family, no batch and no logout is grounded as   *)
(* soon as it names its device.                                            *)
LEMMA LightlyGrounded ==
    ASSUME NEW r \in Requests,
           req'[r].device \in Devices \/ req'[r].pc = "idle",
           req'[r].pc \notin Ending,
           req'[r].batch = {},
           req'[r].pc = "lookup" /\ req'[r].op = "logout" =>
              req'[r].token = None \/ tokens'[req'[r].token].family # None,
           req'[r].pc = "lookup" /\ req'[r].op = "revoke" => req'[r].family \in Families,
           req'[r].pc # "authed"
    PROVE  Grounded(r)'
BY DEF Grounded, Busy, Ending, Issued

(* One that goes on with its device and its batch is, if the family it is  *)
(* about to end exists.                                                    *)
LEMMA StillGrounded ==
    ASSUME TypeOK, UsersKept, NEW r \in Requests, Grounded(r), Busy(r),
           req'[r].device = req[r].device,
           req'[r].batch \subseteq req[r].batch,
           req'[r].pc \notin {"lookup", "endFamilyRun"},
           req'[r].pc \in Ending =>
              req'[r].family \in Families /\ Recorded(req'[r].family),
           req'[r].pc = "authed" /\ req'[r].op = "revoke" => req'[r].family \in Families
    PROVE  Grounded(r)'
<1>1. req[r].batch \subseteq Families
    BY DEF TypeOK, Request
<1>2. ASSUME NEW f \in Families, Recorded(f)
      PROVE  Recorded(f)'
    BY <1>2 DEF UsersKept, Recorded
<1>3. \A f \in req'[r].batch : Recorded(f)'
    BY <1>1, <1>2 DEF Grounded
<1>4. req'[r].pc \in Ending =>
         req'[r].family \in Families /\ sessions'[req'[r].family].user # None
    BY DEF UsersKept, Recorded
<1>5. req'[r].device \in Devices
    BY DEF Grounded
<1> QED
    BY <1>3, <1>4, <1>5 DEF Grounded, Recorded, Busy, Ending

LEMMA IdleGrounded ==
    ASSUME NEW r \in Requests, req'[r] = IdleReq
    PROVE  Grounded(r)'
BY DEF Grounded, IdleReq, Busy, Ending

LEMMA ServedGrounded ==
    ASSUME IInv, UsersKept, FamiliesKept, NEW r \in Requests, Grounded(r),
           Serve(r) \/ LoseResponse(r)
           \/ FaultAnswered(r) \/ FaultCutsBulk(r) \/ FaultLogged(r)
    PROVE  Grounded(r)'
<1>0. /\ TypeOK /\ HasToken /\ req \in [Requests -> Request] /\ req[r] \in Request
      /\ req[r].token \in Tokens \cup {None} /\ req[r].batch \subseteq Families
    BY ClaimsHasToken DEF IInv, TypeOK, Request
<1>1. \A t \in Tokens : Issued(t) =>
         tokens[t].family \in Families /\ Recorded(tokens[t].family)
    BY DEF IInv, TypeOK, TokenRow, CredentialsNameSession, Issued
<1>2. ASSUME NEW pc, pc \notin {"lookup", "authed", "endFamilyRun"} \cup Ending, Busy(r),
             Goto(r, pc)
      PROVE  Grounded(r)'
    BY <1>0, <1>2, NextFields, StillGrounded
<1>3. ASSUME NEW pc \in {"endFamily", "endSession"}, Busy(r), Goto(r, pc),
             req[r].family \in Families /\ Recorded(req[r].family)
      PROVE  Grounded(r)'
    BY <1>0, <1>3, NextFields, StillGrounded
<1>4. Done(r) => Grounded(r)'
    BY <1>0, NextFields, IdleGrounded
<1>5. ASSUME AfterFamily(r), req[r].pc = "endFamilyRun"
      PROVE  Grounded(r)'
  <2>1. Busy(r) /\ req[r].family \in Families /\ Recorded(req[r].family)
      BY <1>5 DEF Grounded, Ending, Busy
  <2>2. req'[r].pc \notin {"lookup", "endFamilyRun"}
      BY <1>0, <1>5, NextFields
  <2> QED
      BY <1>0, <1>5, <2>1, <2>2, NextFields, StillGrounded
<1>6. ASSUME NEW f \in Families, Recorded(f), Busy(r), NEW fs,
             req' = [req EXCEPT ![r].pc = "endFamily", ![r].family = f,
                                ![r].batch = @ \ fs]
      PROVE  Grounded(r)'
  <2>1. /\ req'[r].device = req[r].device /\ req'[r].batch \subseteq req[r].batch
        /\ req'[r].pc = "endFamily" /\ req'[r].family = f
      BY <1>0, <1>6 DEF Request
  <2> QED
      BY <1>0, <1>6, <2>1, StillGrounded
<1>7. ASSUME NEW f, NEW pc \in {"rotate", "endFamily"}, Busy(r),
             req' = [req EXCEPT ![r].pc = pc, ![r].family = f],
             pc = "endFamily" => f \in Families /\ Recorded(f)
      PROVE  Grounded(r)'
  <2>1. /\ req'[r].device = req[r].device /\ req'[r].batch = req[r].batch
        /\ req'[r].pc = pc /\ req'[r].family = f
      BY <1>0, <1>7 DEF Request
  <2> QED
      BY <1>0, <1>7, <2>1, StillGrounded DEF Ending
<1>8. ASSUME NEW n, Busy(r), req' = [req EXCEPT ![r].pc = "reply", ![r].token = n]
      PROVE  Grounded(r)'
  <2>1. /\ req'[r].device = req[r].device /\ req'[r].batch = req[r].batch
        /\ req'[r].pc = "reply"
      BY <1>0, <1>8 DEF Request
  <2> QED
      BY <1>0, <1>8, <2>1, StillGrounded DEF Ending
<1>9. CASE StartRefreshFamily(r) \/ RotateCommit(r)
    BY <1>8, <1>9 DEF StartRefreshFamily, RotateCommit, Busy
<1>10. CASE RefreshLookup(r)
  <2>1. Busy(r) /\ req[r].token \in Tokens
      BY <1>0, <1>10 DEF RefreshLookup, Busy, HasToken
  <2>2. Issued(req[r].token)
      BY <1>10, <2>1, NoneIsFresh
      DEF RefreshLookup, IInv, Claim, ClaimCookie, Owns, Issued
  <2> QED
      BY <1>1, <1>2, <1>7, <1>10, <2>1, <2>2 DEF RefreshLookup, Ending
<1>11. CASE RenewRefused(r) \/ RotateSpend(r)
    BY <1>2, <1>11 DEF RenewRefused, RotateSpend, Busy, Ending
<1>12. CASE RotateReused(r)
  <2>1. Owns(req[r].family, req[r].device)
      BY <1>12 DEF RotateReused, IInv, Claim, ClaimToken
  <2> QED
      BY <1>3, <1>12, <2>1, OwnedIsRecorded DEF RotateReused, Busy, Owns
<1>13. CASE RevokeFamilyStart(r)
  <2>1. /\ req'[r].pc = "endFamilyRun" /\ req'[r].device = req[r].device
        /\ req'[r].family = req[r].family /\ req'[r].batch = req[r].batch
        /\ req'[r].snapshot = {t \in Tokens : tokens[t].family = req[r].family
                                              /\ ~tokens[t].revoked}
      BY <1>0, <1>13 DEF RevokeFamilyStart, Request
  <2>2. UNCHANGED <<sessions, tokens>>
      BY <1>13 DEF RevokeFamilyStart
  <2>3. /\ req[r].device \in Devices /\ req[r].family \in Families
        /\ Recorded(req[r].family) /\ \A f \in req[r].batch : Recorded(f)
      BY <1>13 DEF RevokeFamilyStart, Grounded, Busy, Ending
  <2> QED
      BY <2>1, <2>2, <2>3 DEF Grounded, Recorded
<1>14. CASE RevokeFamilyFinish(r)
    BY <1>5, <1>14 DEF RevokeFamilyFinish
<1>15. CASE RevokeRow(r)
    BY <1>2, <1>4, <1>15 DEF RevokeRow, Busy, Ending
<1>16. CASE LogoutLookup(r)
    BY <1>0, <1>1, <1>2, <1>7, <1>16 DEF LogoutLookup, Grounded, Busy, Ending
<1>17. CASE Admit(r)
  <2>1. Busy(r) /\ (req[r].op = "revoke" => req[r].family \in Families)
      BY <1>17 DEF Admit, Busy, Grounded
  <2>2. CASE Goto(r, "authed")
      BY <1>0, <2>1, <2>2, NextFields, StillGrounded DEF Ending
  <2> QED
      BY <1>4, <1>17, <2>2 DEF Admit
<1>18. CASE RevokeTarget(r)
  <2>1. CASE Done(r)
      BY <1>4, <2>1
  <2>2. CASE Goto(r, "endFamily")
            /\ sessions[req[r].family].user = UserOf[req[r].device]
    <3>1. Busy(r) /\ req[r].device \in Devices /\ req[r].family \in Families
        BY <1>18 DEF RevokeTarget, Grounded, Busy
    <3>2. Recorded(req[r].family)
        BY <2>2, <3>1, OwnedIsRecorded DEF Owns
    <3> QED
        BY <1>3, <2>2, <3>1, <3>2
  <2> QED
      BY <1>18, <2>1, <2>2 DEF RevokeTarget
<1>19. CASE RevokeBulk(r)
  <2>1. /\ req'[r].pc = "drain" /\ req'[r].device = req[r].device
        /\ req'[r].batch = BulkRows(r)
      BY <1>0, <1>19 DEF RevokeBulk, Request
  <2>2. req[r].device \in Devices /\ UserOf[req[r].device] \in Users
      BY <1>19, UserOfType DEF RevokeBulk, Grounded, Busy
  <2>3. \A f \in BulkRows(r) : f \in Families /\ Recorded(f)
      BY <2>2, NoneIsFresh DEF BulkRows, Recorded
  <2>4. \A f \in BulkRows(r) : Recorded(f)'
      BY <2>3 DEF UsersKept, Recorded
  <2> QED
      BY <2>1, <2>2, <2>4 DEF Grounded, Busy, Ending
<1>20. CASE DrainBatch(r)
  <2>1. Busy(r)
      BY <1>20 DEF DrainBatch, Busy
  <2>2. \A f \in req[r].batch : f \in Families /\ Recorded(f)
      BY <1>0 DEF Grounded
  <2> QED
      BY <1>4, <1>6, <1>20, <2>1, <2>2 DEF DrainBatch
<1>21. CASE Respond(r) \/ LoseResponse(r) \/ FaultAnswered(r) \/ FaultCutsBulk(r)
    BY <1>4, <1>21 DEF Respond, LoseResponse, FaultAnswered, FaultCutsBulk
<1>22. CASE FaultLogged(r)
    BY <1>2, <1>5, <1>22 DEF FaultLogged, Busy, Ending
<1> QED
    BY <1>9, <1>10, <1>11, <1>12, <1>13, <1>14, <1>15, <1>16, <1>17, <1>18, <1>19,
       <1>20, <1>21, <1>22 DEF Serve

LEMMA SentGrounded ==
    ASSUME IInv, NEW r \in Requests, NEW d \in Devices, Send(r, d)
    PROVE  Grounded(r)'
<1>0. /\ TypeOK /\ req \in [Requests -> Request]
      /\ jar[d].refresh \in Tokens \cup {None}
      /\ jar[d].refresh # None => Issued(jar[d].refresh)
    BY DEF IInv, TypeOK, Jar, CredentialsNameSession
<1>1. ASSUME NEW op, NEW pc \in {"lookup", "family"}, NEW f,
             op = "revoke" => f \in Families,
             req' = [req EXCEPT ![r] = Received(op, pc, d, f)],
             op = "logout" => UNCHANGED tokens
      PROVE  Grounded(r)'
  <2>1. /\ req'[r].device = d /\ req'[r].pc = pc /\ req'[r].op = op
        /\ req'[r].family = f /\ req'[r].token = jar[d].refresh
        /\ req'[r].batch = {}
      BY <1>0, <1>1 DEF Received, IdleReq
  <2> QED
      BY <1>0, <1>1, <2>1, LightlyGrounded DEF Ending, Issued
<1>2. CASE SendRefresh(r, d) \/ SendLogout(r, d) \/ RecordSession(r, d)
    BY <1>1, <1>2 DEF SendRefresh, SendLogout, RecordSession
<1>3. ASSUME NEW f \in Families, SendRevoke(r, d, f)
      PROVE  Grounded(r)'
    BY <1>1, <1>3 DEF SendRevoke
<1>4. ASSUME NEW op \in BulkOps, SendBulkRevoke(r, d, op)
      PROVE  Grounded(r)'
    BY <1>1, <1>4 DEF SendBulkRevoke, BulkOps
<1> QED
    BY <1>2, <1>3, <1>4 DEF Send

(* The rows that are not there yet are clean.                              *)
LEMMA RowsStayClean ==
    ASSUME IInv, GroundInv, [Next]_vars
    PROVE  /\ \A t \in Tokens : ~Issued(t)' => ~tokens'[t].revoked
           /\ \A f \in Families : sessions'[f].revoked => Recorded(f)'
<1> DEFINE CleanTokens   == \A t \in Tokens : ~Issued(t)' => ~tokens'[t].revoked
           CleanSessions == \A f \in Families : sessions'[f].revoked => Recorded(f)'
<1>0. /\ TypeOK /\ sessions \in [Families -> SessionRow]
      /\ tokens \in [Tokens -> TokenRow] /\ req \in [Requests -> Request]
    BY DEF IInv, TypeOK
<1>1. UsersKept /\ FamiliesKept
    BY RowsKept
<1>2. ASSUME UNCHANGED tokens PROVE CleanTokens
    BY <1>2 DEF GroundInv, Issued
<1>3. ASSUME UNCHANGED sessions PROVE CleanSessions
    BY <1>3 DEF GroundInv, Recorded
<1>4. ASSUME NEW r \in Requests, StartRefreshFamily(r) PROVE CleanTokens
    BY <1>0, <1>4 DEF StartRefreshFamily, GroundInv, Issued, TokenRow
<1>5. ASSUME NEW r \in Requests, RotateCommit(r) PROVE CleanTokens
  <2>1. PICK n \in Tokens :
           tokens' = [tokens EXCEPT ![req[r].token].revoked = TRUE,
                                    ![req[r].token].replacedBy = n,
                                    ![n].family = req[r].family]
      BY <1>5 DEF RotateCommit
  <2>2. /\ req[r].token \in Tokens /\ Issued(req[r].token)
        /\ req[r].family # None
      BY <1>5, NoneIsFresh DEF RotateCommit, IInv, Claim, ClaimToken, Owns, Issued
  <2>3. \A t \in Tokens \ {n, req[r].token} : tokens'[t] = tokens[t]
      BY <1>0, <2>1
  <2>4. /\ tokens'[req[r].token].family # None
        /\ tokens'[n].family = req[r].family
      BY <1>0, <1>1, <2>1, <2>2 DEF FamiliesKept, Issued, TokenRow
  <2> QED
      BY <2>2, <2>3, <2>4 DEF GroundInv, Issued
<1>6. ASSUME NEW r \in Requests, RevokeFamilyFinish(r) PROVE CleanTokens
  <2>1. \A t \in req[r].snapshot : tokens[t].family \in Families
      BY <1>6 DEF RevokeFamilyFinish, GroundInv, Grounded, Ending
  <2>2. \A t \in Tokens : /\ tokens'[t].family = tokens[t].family
                          /\ tokens'[t].revoked # tokens[t].revoked => t \in req[r].snapshot
      BY <1>0, <1>6 DEF RevokeFamilyFinish, TokenRow
  <2> QED
      BY <2>1, <2>2, NoneIsFresh DEF GroundInv, Issued
<1>7. ASSUME NEW r \in Requests, NEW d \in Devices, RecordSession(r, d)
      PROVE  CleanSessions
    BY <1>0, <1>7 DEF RecordSession, NewSession, GroundInv, Recorded
<1>8. ASSUME NEW r \in Requests, RevokeRow(r) PROVE CleanSessions
  <2>1. Recorded(req[r].family)
      BY <1>8 DEF RevokeRow, GroundInv, Grounded, Ending
  <2> QED
      BY <1>0, <1>1, <1>8, <2>1 DEF RevokeRow, GroundInv, Recorded, UsersKept, SessionRow
<1>9. ASSUME NEW r \in Requests, RevokeBulk(r) \/ FaultCutsBulk(r)
      PROVE  CleanSessions
  <2>1. req[r].device \in Devices /\ UserOf[req[r].device] \in Users
      BY <1>9, UserOfType DEF RevokeBulk, FaultCutsBulk, GroundInv, Grounded, Busy
  <2>2. \A f \in BulkRows(r) : Recorded(f)
      BY <2>1, NoneIsFresh DEF BulkRows, Recorded
  <2>3. \A f \in Families : /\ sessions'[f].user = sessions[f].user
                            /\ sessions'[f].revoked => sessions[f].revoked \/ f \in BulkRows(r)
      BY <1>0, <1>9 DEF RevokeBulk, FaultCutsBulk, RevokeRows, SessionRow
  <2> QED
      BY <2>2, <2>3 DEF GroundInv, Recorded
<1>10. ASSUME NEW r \in Requests, NEW d \in Devices, Send(r, d)
       PROVE  UNCHANGED tokens /\ (UNCHANGED sessions \/ RecordSession(r, d))
    BY <1>10 DEF Send, SendRefresh, SendLogout, SendRevoke, SendBulkRevoke, RecordSession
<1>11. ASSUME NEW r \in Requests, Serve(r)
       PROVE  /\ \/ UNCHANGED tokens \/ StartRefreshFamily(r) \/ RotateCommit(r)
                 \/ RevokeFamilyFinish(r)
              /\ UNCHANGED sessions \/ RevokeRow(r) \/ RevokeBulk(r)
    BY <1>11 DEF Serve, StartRefreshFamily, RefreshLookup, RenewRefused, RotateSpend,
       RotateReused, RotateCommit, RevokeFamilyStart, RevokeFamilyFinish, RevokeRow,
       LogoutLookup, Admit, RevokeTarget, RevokeBulk, DrainBatch, Respond
<1>12. ASSUME NEW r \in Requests,
              LoseResponse(r) \/ FaultAnswered(r) \/ FaultCutsBulk(r) \/ FaultLogged(r)
       PROVE  UNCHANGED tokens /\ (UNCHANGED sessions \/ FaultCutsBulk(r))
    BY <1>12 DEF LoseResponse, FaultAnswered, FaultCutsBulk, FaultLogged
<1>13. ASSUME (\E f \in Families : Expire(f)) \/ UNCHANGED vars
       PROVE  UNCHANGED <<tokens, sessions>>
    BY <1>13 DEF Expire, vars
<1> HIDE DEF CleanTokens, CleanSessions
<1>14. CleanTokens
    BY <1>2, <1>4, <1>5, <1>6, <1>10, <1>11, <1>12, <1>13 DEF Next
<1>15. CleanSessions
    BY <1>3, <1>7, <1>8, <1>9, <1>10, <1>11, <1>12, <1>13 DEF Next
<1> QED
    BY <1>14, <1>15 DEF CleanTokens, CleanSessions

LEMMA GroundStep ==
    ASSUME IInv, GroundInv, [Next]_vars
    PROVE  GroundInv'
<1>0. TypeOK /\ \A r \in Requests : Grounded(r)
    BY DEF IInv, GroundInv
<1>1. UsersKept /\ FamiliesKept
    BY RowsKept
<1>2. ASSUME NEW r \in Requests, Grounded(r)',
             \A q \in Requests \ {r} : req'[q] = req[q]
      PROVE  \A q \in Requests : Grounded(q)'
    BY <1>0, <1>1, <1>2, GroundedKept
<1>3. ASSUME NEW r \in Requests, NEW d \in Devices, Send(r, d)
      PROVE  \A q \in Requests : Grounded(q)'
  <2>1. \A q \in Requests \ {r} : req'[q] = req[q]
      BY <1>0, <1>3 DEF Send, SendRefresh, SendLogout, RecordSession, SendRevoke,
         SendBulkRevoke, TypeOK
  <2> QED
      BY <1>2, <1>3, <2>1, SentGrounded
<1>4. ASSUME NEW r \in Requests,
             Serve(r) \/ LoseResponse(r)
             \/ FaultAnswered(r) \/ FaultCutsBulk(r) \/ FaultLogged(r)
      PROVE  \A q \in Requests : Grounded(q)'
    BY <1>0, <1>1, <1>2, <1>4, ServedGrounded, ServedPastLookup
<1>5. ASSUME (\E f \in Families : Expire(f)) \/ UNCHANGED vars
      PROVE  \A q \in Requests : Grounded(q)'
  <2>1. UNCHANGED req
      BY <1>5 DEF Expire, vars
  <2> QED
      BY <1>0, <1>1, <2>1, GroundedKept
<1>6. \A q \in Requests : Grounded(q)'
    BY <1>3, <1>4, <1>5 DEF Next
<1> QED
    BY <1>6, RowsStayClean DEF GroundInv

-----------------------------------------------------------------------------
(* Why sessions end.                                                       *)

(* A request about to end families has a cause to.                         *)
HasCause(r) ==
    /\ req[r].pc \in {"endFamily", "endFamilyRun", "endSession"}
         /\ req[r].family \in Families => cause[req[r].family] # {}
    /\ \A f \in req[r].batch : cause[f] # {}

CauseInv == RevokedForCause /\ \A r \in Requests : HasCause(r)

(* Causes are only added, and a step moves one request.                    *)
LEMMA CauseStep ==
    ASSUME TypeOK, TypeOK', CauseInv, NEW r \in Requests,
           \A f \in Families : cause[f] \subseteq cause'[f],
           \A f \in Families :
              sessions'[f].revoked => sessions[f].revoked \/ cause'[f] # {},
           \A q \in Requests \ {r} : req'[q] = req[q],
           HasCause(r)'
    PROVE  CauseInv'
<1>1. \A f \in Families : cause[f] # {} => cause'[f] # {}
    OBVIOUS
<1>2. RevokedForCause'
    BY <1>1 DEF CauseInv, RevokedForCause
<1>3. ASSUME NEW q \in Requests, q # r
      PROVE  HasCause(q)'
  <2>1. req'[q] = req[q] /\ req[q] \in Request
      BY <1>3 DEF TypeOK
  <2> QED
      BY <1>1, <2>1 DEF CauseInv, HasCause, Request
<1> QED
    BY <1>2, <1>3 DEF CauseInv

(* What a step makes of the fields HasCause reads.                         *)
LEMMA NextEnding ==
    ASSUME TypeOK, NEW r \in Requests
    PROVE  /\ \A pc : Goto(r, pc) => /\ req'[r].pc = pc
                                    /\ req'[r].family = req[r].family
                                    /\ req'[r].batch = req[r].batch
           /\ Done(r) => req'[r].pc = "idle" /\ req'[r].batch = {}
           /\ AfterFamily(r) => /\ req'[r].family = req[r].family
                               /\ req'[r].batch = req[r].batch
<1>1. req \in [Requests -> Request] /\ req[r] \in Request
    BY DEF TypeOK
<1>2. ASSUME NEW pc, Goto(r, pc)
      PROVE  /\ req'[r].pc = pc /\ req'[r].family = req[r].family
             /\ req'[r].batch = req[r].batch
    BY <1>1, <1>2 DEF Goto, Request
<1>3. Done(r) => req'[r].pc = "idle" /\ req'[r].batch = {}
    BY <1>1 DEF Done, IdleReq
<1>4. ASSUME NEW pc, req' = [req EXCEPT ![r].snapshot = {}, ![r].pc = pc]
      PROVE  req'[r].family = req[r].family /\ req'[r].batch = req[r].batch
    BY <1>1, <1>4 DEF Request
<1>5. AfterFamily(r) => req'[r].family = req[r].family /\ req'[r].batch = req[r].batch
    BY <1>4 DEF AfterFamily
<1> QED
    BY <1>2, <1>3, <1>5

LEMMA ServedForCause ==
    ASSUME TypeOK, HasToken, TypeOK', CauseInv, NEW r \in Requests,
           Serve(r) \/ LoseResponse(r)
           \/ FaultAnswered(r) \/ FaultCutsBulk(r) \/ FaultLogged(r)
    PROVE  CauseInv'
<1>0. req[r] \in Request /\ HasCause(r) /\ req[r].batch \subseteq Families
    BY DEF TypeOK, CauseInv, Request
<1>1. \A q \in Requests \ {r} : req'[q] = req[q]
    BY ServedPastLookup
<1> DEFINE Goal == /\ \A f \in Families : cause[f] \subseteq cause'[f]
                   /\ \A f \in Families : sessions'[f].revoked =>
                         sessions[f].revoked \/ cause'[f] # {}
                   /\ HasCause(r)'
<1>2. SUFFICES Goal
    BY <1>1, CauseStep
<1>3. CASE StartRefreshFamily(r) \/ RotateCommit(r)
  <2>1. UNCHANGED <<sessions, cause>>
      BY <1>3 DEF StartRefreshFamily, RotateCommit
  <2>2. ASSUME NEW t, req' = [req EXCEPT ![r].pc = "reply", ![r].token = t]
        PROVE  req'[r].pc = "reply" /\ req'[r].batch = req[r].batch
      BY <1>0, <2>2 DEF TypeOK, Request
  <2>3. req'[r].pc = "reply" /\ req'[r].batch = req[r].batch
      BY <1>3, <2>2 DEF StartRefreshFamily, RotateCommit
  <2> QED
      BY <1>0, <2>1, <2>3 DEF HasCause
<1>4. CASE RenewRefused(r) \/ RotateSpend(r) \/ Admit(r)
  <2>1. UNCHANGED <<sessions, cause>>
      BY <1>4 DEF RenewRefused, RotateSpend, Admit
  <2>2. /\ req'[r].pc \in {"clear", "successor", "authed", "idle"}
        /\ req'[r].batch = req[r].batch \/ req'[r].batch = {}
      BY <1>4, NextEnding DEF RenewRefused, RotateSpend, Admit
  <2> QED
      BY <1>0, <2>1, <2>2 DEF HasCause
<1>5. CASE Respond(r) \/ LoseResponse(r) \/ FaultAnswered(r)
  <2>1. UNCHANGED <<sessions, cause>> /\ Done(r)
      BY <1>5 DEF Respond, LoseResponse, FaultAnswered
  <2> QED
      BY <2>1, NextEnding DEF HasCause
<1>6. CASE RevokeFamilyStart(r)
  <2>1. /\ UNCHANGED <<sessions, cause>> /\ req[r].pc = "endFamily"
        /\ req'[r].family = req[r].family /\ req'[r].batch = req[r].batch
      BY <1>0, <1>6 DEF RevokeFamilyStart, TypeOK, Request
  <2> QED
      BY <1>0, <2>1 DEF HasCause
<1>7. CASE RevokeFamilyFinish(r) \/ FaultLogged(r)
  <2>1. UNCHANGED <<sessions, cause>>
      BY <1>7 DEF RevokeFamilyFinish, FaultLogged
  <2>2. /\ req[r].pc = "endFamilyRun" \/ req'[r].pc = "clear"
        /\ req'[r].family = req[r].family /\ req'[r].batch = req[r].batch
      BY <1>7, NextEnding DEF RevokeFamilyFinish, FaultLogged
  <2> QED
      BY <1>0, <2>1, <2>2 DEF HasCause
<1>8. CASE RevokeRow(r)
  <2>1. /\ UNCHANGED cause /\ req[r].pc = "endSession"
        /\ sessions' = [sessions EXCEPT ![req[r].family].revoked = TRUE]
      BY <1>8 DEF RevokeRow
  <2>2. /\ req'[r].pc \in {"idle", "clear"}
        /\ req'[r].batch = req[r].batch \/ req'[r].batch = {}
      BY <1>8, NextEnding DEF RevokeRow
  <2>3. ASSUME NEW f \in Families, sessions'[f].revoked
        PROVE  sessions[f].revoked \/ cause[f] # {}
      BY <1>0, <2>1, <2>3 DEF TypeOK, SessionRow, HasCause
  <2> QED
      BY <1>0, <2>1, <2>2, <2>3 DEF HasCause
<1>9. CASE RotateReused(r)
  <2>1. /\ UNCHANGED sessions /\ req[r].pc = "rotate"
        /\ cause' = [cause EXCEPT ![req[r].family] = @ \cup {"replay"}]
        /\ req'[r].family = req[r].family /\ req'[r].batch = req[r].batch
      BY <1>9, NextEnding DEF RotateReused
  <2> QED
      BY <1>0, <2>1 DEF TypeOK, HasCause
<1>10. CASE RevokeTarget(r)
  <2>1. UNCHANGED sessions
      BY <1>10 DEF RevokeTarget
  <2>2. CASE Done(r) /\ UNCHANGED cause
      BY <2>1, <2>2, NextEnding DEF HasCause
  <2>3. CASE Goto(r, "endFamily")
             /\ cause' = [cause EXCEPT ![req[r].family] = @ \cup {"asked"}]
    <3>1. req'[r].family = req[r].family /\ req'[r].batch = req[r].batch
        BY <2>3, NextEnding
    <3>2. /\ \A g \in Families : cause[g] \subseteq cause'[g]
          /\ req[r].family \in Families => cause'[req[r].family] # {}
        BY <2>3 DEF TypeOK
    <3>3. HasCause(r)'
        BY <1>0, <3>1, <3>2 DEF HasCause
    <3> QED
        BY <2>1, <3>2, <3>3
  <2> QED
      BY <1>10, <2>2, <2>3 DEF RevokeTarget
<1>11. CASE RefreshLookup(r) \/ LogoutLookup(r)
  <2> DEFINE f == tokens[req[r].token].family
  <2>1. UNCHANGED sessions
      BY <1>11 DEF RefreshLookup, LogoutLookup
  <2>2. CASE Goto(r, "clear") /\ UNCHANGED cause
      BY <1>0, <2>1, <2>2, NextEnding DEF HasCause
  <2>3. CASE req' = [req EXCEPT ![r].pc = "rotate", ![r].family = f]
             /\ UNCHANGED cause
    <3>1. req'[r].pc = "rotate" /\ req'[r].batch = req[r].batch
        BY <1>0, <2>3 DEF TypeOK, Request
    <3> QED
        BY <1>0, <2>1, <2>3, <3>1 DEF HasCause
  <2>4. ASSUME NEW c,
               req' = [req EXCEPT ![r].pc = "endFamily", ![r].family = f],
               cause' = [cause EXCEPT ![f] = @ \cup {c}]
        PROVE  Goal
    <3>1. req'[r].family = f /\ req'[r].batch = req[r].batch
        BY <1>0, <2>4 DEF TypeOK, Request
    <3>2. \A g \in Families : cause[g] \subseteq cause'[g]
        BY <2>4 DEF TypeOK
    <3>3. f \in Families => cause'[f] # {}
        BY <2>4 DEF TypeOK
    <3> HIDE DEF f
    <3>4. HasCause(r)'
        BY <1>0, <3>1, <3>2, <3>3 DEF HasCause
    <3> QED
        BY <2>1, <3>2, <3>4
  <2> QED
      BY <1>11, <2>2, <2>3, <2>4 DEF RefreshLookup, LogoutLookup
<1>12. CASE RevokeBulk(r) \/ FaultCutsBulk(r)
  <2>1. /\ RevokeRows(BulkRows(r))
        /\ cause' = [f \in Families |->
                       cause[f] \cup (IF f \in BulkTargets(r) THEN {"asked"} ELSE {})]
      BY <1>12 DEF RevokeBulk, FaultCutsBulk
  <2>2. \A f \in BulkRows(r) : f \in Families /\ cause'[f] # {}
      BY <2>1 DEF BulkRows, BulkTargets
  <2>3. \A f \in Families : sessions'[f].revoked =>
            sessions[f].revoked \/ cause'[f] # {}
      BY <2>1, <2>2 DEF RevokeRows
  <2>4. HasCause(r)'
    <3>1. CASE Done(r)
        BY <3>1, NextEnding DEF HasCause
    <3>2. CASE req' = [req EXCEPT ![r].pc = "drain", ![r].batch = BulkRows(r)]
      <4>1. req'[r].pc = "drain" /\ req'[r].batch = BulkRows(r)
          BY <1>0, <3>2 DEF TypeOK, Request
      <4> QED
          BY <2>2, <4>1 DEF HasCause
    <3> QED
        BY <1>12, <3>1, <3>2 DEF RevokeBulk, FaultCutsBulk
  <2> QED
      BY <2>1, <2>3, <2>4
<1>13. CASE DrainBatch(r)
  <2>1. UNCHANGED <<sessions, cause>>
      BY <1>13, Zenon DEF DrainBatch
  <2>2. CASE Done(r)
      BY <2>1, <2>2, NextEnding DEF HasCause
  <2>3. ASSUME NEW f \in req[r].batch,
               req' = [req EXCEPT ![r].pc = "endFamily", ![r].family = f,
                                  ![r].batch = @ \ {f}]
        PROVE  Goal
    <3>1. req'[r].family = f /\ req'[r].batch = req[r].batch \ {f}
        BY <1>0, <2>3 DEF TypeOK, Request
    <3> QED
        BY <1>0, <2>1, <3>1 DEF HasCause
  <2> QED
      BY <1>13, <2>2, <2>3, Zenon DEF DrainBatch
<1> QED
    BY <1>3, <1>4, <1>5, <1>6, <1>7, <1>8, <1>9, <1>10, <1>11, <1>12, <1>13 DEF Serve

LEMMA SentForCause ==
    ASSUME TypeOK, TypeOK', CauseInv, NEW r \in Requests, NEW d \in Devices,
           Send(r, d)
    PROVE  CauseInv'
<1>1. UNCHANGED cause
    BY DEF Send, SendRefresh, SendLogout, RecordSession, SendRevoke, SendBulkRevoke
<1>2. ASSUME NEW f \in Families, sessions'[f].revoked
      PROVE  sessions[f].revoked
    BY <1>2 DEF Send, SendRefresh, SendLogout, RecordSession, SendRevoke,
                SendBulkRevoke, NewSession, TypeOK
<1>3. \E op, pc, f : /\ pc \in {"family", "lookup"}
                     /\ req' = [req EXCEPT ![r] = Received(op, pc, d, f)]
    BY DEF Send, SendRefresh, SendLogout, RecordSession, SendRevoke, SendBulkRevoke
<1>4. PICK op, pc, f : /\ pc \in {"family", "lookup"}
                       /\ req' = [req EXCEPT ![r] = Received(op, pc, d, f)]
    BY <1>3
<1>5. Received(op, pc, d, f).pc = pc /\ Received(op, pc, d, f).batch = {}
    BY DEF Received, IdleReq
<1>6. /\ req'[r] = Received(op, pc, d, f)
      /\ \A q \in Requests \ {r} : req'[q] = req[q]
    BY <1>4 DEF TypeOK
<1>7. HasCause(r)'
    BY <1>4, <1>5, <1>6 DEF HasCause
<1> QED
    BY <1>1, <1>2, <1>6, <1>7, CauseStep

LEMMA CauseInduction ==
    ASSUME TypeOK, HasToken, CauseInv, [Next]_vars
    PROVE  CauseInv'
<1>1. TypeOK' /\ HasToken'
    BY TypeInduction
<1>2. ASSUME NEW r \in Requests, NEW d \in Devices, Send(r, d)
      PROVE  CauseInv'
    BY <1>1, <1>2, SentForCause
<1>3. ASSUME NEW r \in Requests,
             Serve(r) \/ LoseResponse(r)
             \/ FaultAnswered(r) \/ FaultCutsBulk(r) \/ FaultLogged(r)
      PROVE  CauseInv'
    BY <1>1, <1>3, ServedForCause
<1>4. ASSUME (\E f \in Families : Expire(f)) \/ UNCHANGED vars
      PROVE  CauseInv'
  <2>1. UNCHANGED <<sessions, req, cause>>
      BY <1>4 DEF Expire, vars
  <2> QED
      BY <2>1 DEF CauseInv, RevokedForCause, HasCause
<1> QED
    BY <1>2, <1>3, <1>4 DEF Next

(* Nobody is signed out for nothing: a session ends only because its own   *)
(* user asked, or because a spent token of it came back.                   *)
THEOREM SessionsEndForCause == Spec => []RevokedForCause
<1> DEFINE Inv == TypeOK /\ HasToken /\ CauseInv
<1>1. Init => Inv
  <2> SUFFICES ASSUME Init PROVE Inv
      OBVIOUS
  <2>1. HasToken /\ CauseInv
      BY DEF Init, IdleReq, NoSession, HasToken, CauseInv, RevokedForCause, HasCause
  <2> QED
      BY <2>1, InitType
<1>2. Inv /\ [Next]_vars => Inv'
    BY TypeInduction, CauseInduction
<1>3. Inv => RevokedForCause
    BY DEF CauseInv
<1> QED
    BY <1>1, <1>2, <1>3, PTL DEF Spec

-----------------------------------------------------------------------------
(* What should end, ends.                                                  *)

(* Request r is still working on ending family f.                          *)
Ends(r, f) ==
    \/ req[r].family = f /\ req[r].pc \in Ending
    \/ f \in req[r].batch

Closed(f) == sessions[f].revoked \/ f \in expired

(* A bulk route revokes the rows first: the families it still goes through *)
(* belong to sessions that are over.  Rotations are of no bulk route.      *)
RowsFirst(r) ==
    /\ \A f \in req[r].batch : sessions[f].revoked
    /\ req[r].op \in BulkOps =>
          /\ req[r].pc # "rotate"
          /\ req[r].pc \in Ending /\ req[r].family \in Families
                => sessions[req[r].family].revoked

EndInv ==
    /\ \A f \in Families : cause[f] # {} =>
          Recorded(f) /\ (Closed(f) \/ \E r \in Requests : Ends(r, f))
    /\ \A r \in Requests : RowsFirst(r)

(* What a step of request r owes the families: a new cause is one to work  *)
(* on, and work is dropped only where the session is over.                 *)
Owes(r) ==
    /\ \A f \in Families : /\ sessions[f].revoked => sessions'[f].revoked
                           /\ Recorded(f) => sessions'[f].user # None
    /\ expired \subseteq expired'
    /\ \A f \in Families :
          \/ cause'[f] = cause[f]
          \/ sessions'[f].user # None /\ (Closed(f)' \/ Ends(r, f)')
    /\ \A f \in Families : Ends(r, f) => Closed(f)' \/ Ends(r, f)'
    /\ RowsFirst(r)'

LEMMA OwedStep ==
    ASSUME TypeOK, EndInv, NEW r \in Requests, Owes(r),
           \A q \in Requests \ {r} : req'[q] = req[q]
    PROVE  EndInv'
<1>1. ASSUME NEW q \in Requests, q # r
      PROVE  RowsFirst(q)' /\ \A f : Ends(q, f)' <=> Ends(q, f)
  <2>1. req'[q] = req[q] /\ req[q] \in Request /\ RowsFirst(q)
      BY <1>1 DEF TypeOK, EndInv
  <2> QED
      BY <2>1 DEF RowsFirst, Ends, Owes, Request
<1>2. ASSUME NEW f \in Families, cause'[f] # {}
      PROVE  sessions'[f].user # None /\ (Closed(f)' \/ \E q \in Requests : Ends(q, f)')
  <2>1. CASE cause'[f] # cause[f]
      BY <1>2, <2>1 DEF Owes
  <2>2. CASE cause'[f] = cause[f]
    <3>1. Recorded(f) /\ (Closed(f) \/ \E q \in Requests : Ends(q, f))
        BY <1>2, <2>2 DEF EndInv
    <3>2. sessions'[f].user # None /\ (Closed(f) => Closed(f)')
        BY <3>1 DEF Owes, Closed
    <3>3. ASSUME NEW q \in Requests, Ends(q, f)
          PROVE  Closed(f)' \/ \E p \in Requests : Ends(p, f)'
        BY <1>1, <3>3 DEF Owes
    <3> QED
        BY <3>1, <3>2, <3>3
  <2> QED
      BY <2>1, <2>2
<1>3. \A q \in Requests : RowsFirst(q)'
    BY <1>1 DEF Owes
<1> QED
    BY <1>2, <1>3 DEF EndInv, Recorded

(* What a step leaves of the fields Ends and RowsFirst read.               *)
LEMMA NextWork ==
    ASSUME TypeOK, NEW r \in Requests
    PROVE  /\ \A pc : Goto(r, pc) => /\ req'[r].pc = pc /\ req'[r].op = req[r].op
                                    /\ req'[r].family = req[r].family
                                    /\ req'[r].batch = req[r].batch
           /\ Done(r) => req'[r].pc = "idle" /\ req'[r].op = "none" /\ req'[r].batch = {}
BY NextFields DEF IdleReq

(* A step that neither ends anything nor starts to.                        *)
LEMMA NoWork ==
    ASSUME EndInv, NEW r \in Requests, UNCHANGED <<sessions, expired, cause>>,
           req[r].pc \notin Ending, req'[r].pc \notin Ending,
           req'[r].batch \subseteq req[r].batch,
           req'[r].pc = "rotate" => req'[r].op \notin BulkOps
    PROVE  Owes(r)
<1>1. RowsFirst(r)
    BY DEF EndInv
<1>2. RowsFirst(r)'
    BY <1>1 DEF RowsFirst
<1>3. \A f \in Families : Ends(r, f) => sessions[f].revoked
    BY <1>1 DEF RowsFirst, Ends
<1> QED
    BY <1>2, <1>3 DEF Owes, Closed, Recorded

(* A new cause, by a request that turns to the family.                     *)
LEMMA NewWork ==
    ASSUME TypeOK, EndInv, NEW r \in Requests, NEW f, NEW c,
           UNCHANGED <<sessions, expired>>,
           cause' = [cause EXCEPT ![f] = @ \cup {c}],
           f \in Families => Recorded(f),
           req[r].pc \notin Ending, req[r].op \notin BulkOps,
           req'[r].pc = "endFamily", req'[r].family = f,
           req'[r].batch = req[r].batch, req'[r].op = req[r].op
    PROVE  Owes(r)
<1>1. RowsFirst(r)
    BY DEF EndInv
<1>2. RowsFirst(r)'
    BY <1>1 DEF RowsFirst
<1>3. \A g \in Families : Ends(r, g) => sessions[g].revoked
    BY <1>1 DEF RowsFirst, Ends
<1>4. Ends(r, f)'
    BY DEF Ends, Ending
<1>5. \A g \in Families : g # f => cause'[g] = cause[g]
    BY DEF TypeOK
<1> QED
    BY <1>2, <1>3, <1>4, <1>5 DEF Owes, Closed, Recorded

LEMMA ServedOwes ==
    ASSUME IInv, GroundInv, EndInv, NEW r \in Requests, Serve(r) \/ LoseResponse(r)
    PROVE  Owes(r)
<1>0. /\ TypeOK /\ req \in [Requests -> Request] /\ req[r] \in Request
      /\ RowsFirst(r) /\ Grounded(r) /\ Claim(r) /\ req[r].batch \subseteq Families
    BY DEF IInv, TypeOK, EndInv, GroundInv, Request
<1>1. CASE StartRefreshFamily(r) \/ RotateCommit(r)
  <2>1. UNCHANGED <<sessions, expired, cause>> /\ req[r].pc \in {"family", "successor"}
      BY <1>1 DEF StartRefreshFamily, RotateCommit
  <2>2. ASSUME NEW t, req' = [req EXCEPT ![r].pc = "reply", ![r].token = t]
        PROVE  req'[r].pc = "reply" /\ req'[r].batch = req[r].batch
      BY <1>0, <2>2 DEF Request
  <2>3. req'[r].pc = "reply" /\ req'[r].batch = req[r].batch
      BY <1>1, <2>2 DEF StartRefreshFamily, RotateCommit
  <2> QED
      BY <2>1, <2>3, NoWork DEF Ending
<1>2. CASE RenewRefused(r) \/ RotateSpend(r) \/ Admit(r)
  <2>1. UNCHANGED <<sessions, expired, cause>> /\ req[r].pc \in {"rotate", "lookup"}
      BY <1>2 DEF RenewRefused, RotateSpend, Admit
  <2>2. /\ req'[r].pc \in {"clear", "successor", "authed", "idle"}
        /\ req'[r].batch = req[r].batch \/ req'[r].batch = {}
      BY <1>0, <1>2, NextWork DEF RenewRefused, RotateSpend, Admit
  <2>3. req'[r].batch \subseteq req[r].batch
      BY <2>2
  <2> QED
      BY <2>1, <2>2, <2>3, NoWork DEF Ending
<1>3. CASE Respond(r) \/ LoseResponse(r)
  <2>1. /\ UNCHANGED <<sessions, expired, cause>> /\ Done(r)
        /\ req[r].pc \in {"reply", "clear"}
      BY <1>3 DEF Respond, LoseResponse
  <2>2. req'[r].pc = "idle" /\ req'[r].batch = {}
      BY <1>0, <2>1, NextWork
  <2> QED
      BY <2>1, <2>2, NoWork DEF Ending
<1>4. CASE RevokeFamilyStart(r)
  <2>1. /\ UNCHANGED <<sessions, expired, cause>> /\ req[r].pc = "endFamily"
        /\ req'[r].pc = "endFamilyRun" /\ req'[r].op = req[r].op
        /\ req'[r].family = req[r].family /\ req'[r].batch = req[r].batch
      BY <1>0, <1>4 DEF RevokeFamilyStart, Request
  <2>2. \A f : Ends(r, f) => Ends(r, f)'
      BY <2>1 DEF Ends, Ending
  <2>3. RowsFirst(r)'
      BY <1>0, <2>1 DEF RowsFirst, Ending
  <2> QED
      BY <2>1, <2>2, <2>3 DEF Owes, Recorded
\* A single family goes on to its row, which a bulk route has revoked already.
<1>5. CASE RevokeFamilyFinish(r)
  <2>1. UNCHANGED <<sessions, expired, cause>> /\ req[r].pc = "endFamilyRun" /\ AfterFamily(r)
      BY <1>5 DEF RevokeFamilyFinish
  <2>2. /\ req'[r].pc = IF req[r].op \in BulkOps THEN "drain" ELSE "endSession"
        /\ req'[r].op = req[r].op
        /\ req'[r].family = req[r].family /\ req'[r].batch = req[r].batch
    <3>1. ASSUME NEW pc, req' = [req EXCEPT ![r].snapshot = {}, ![r].pc = pc]
          PROVE  /\ req'[r].pc = pc /\ req'[r].op = req[r].op
                 /\ req'[r].family = req[r].family /\ req'[r].batch = req[r].batch
        BY <1>0, <3>1 DEF Request
    <3> QED
        BY <2>1, <3>1 DEF AfterFamily
  <2>3. ASSUME NEW f \in Families, Ends(r, f)
        PROVE  Closed(f)' \/ Ends(r, f)'
    <3>1. CASE req[r].op \in BulkOps
        BY <1>0, <2>1, <2>3, <3>1 DEF Ends, Ending, RowsFirst, Closed
    <3>2. CASE req[r].op \notin BulkOps
        BY <2>2, <2>3, <3>2 DEF Ends, Ending
    <3> QED
        BY <3>1, <3>2
  <2>4. RowsFirst(r)'
      BY <1>0, <2>1, <2>2 DEF RowsFirst, Ending
  <2> QED
      BY <2>1, <2>3, <2>4 DEF Owes, Recorded
<1>6. CASE RevokeRow(r)
  <2>1. /\ UNCHANGED <<expired, cause>> /\ req[r].pc = "endSession"
        /\ sessions' = [sessions EXCEPT ![req[r].family].revoked = TRUE]
      BY <1>6 DEF RevokeRow
  <2>2. /\ req'[r].pc \in {"idle", "clear"}
        /\ req'[r].batch = req[r].batch \/ req'[r].batch = {}
      BY <1>0, <1>6, NextWork DEF RevokeRow
  <2>3. ASSUME NEW f \in Families
        PROVE  /\ sessions'[f].user = sessions[f].user
               /\ sessions[f].revoked => sessions'[f].revoked
               /\ f = req[r].family => sessions'[f].revoked
    <3>1. sessions \in [Families -> SessionRow] /\ sessions[f] \in SessionRow
        BY <1>0 DEF TypeOK
    <3> QED
        BY <2>1, <3>1 DEF SessionRow
  <2>4. \A f \in Families : Ends(r, f) => sessions'[f].revoked
      BY <1>0, <2>3 DEF Ends, RowsFirst
  <2>5. RowsFirst(r)'
    <3>1. \A f \in req[r].batch : sessions'[f].revoked
        BY <1>0, <2>3 DEF RowsFirst
    <3> QED
        BY <2>2, <3>1 DEF RowsFirst, Ending
  <2> QED
      BY <2>1, <2>3, <2>4, <2>5 DEF Owes, Closed, Recorded
<1>7. CASE RotateReused(r)
  <2>1. /\ UNCHANGED <<sessions, expired>> /\ req[r].pc = "rotate"
        /\ cause' = [cause EXCEPT ![req[r].family] = @ \cup {"replay"}]
        /\ req'[r].pc = "endFamily" /\ req'[r].op = req[r].op
        /\ req'[r].family = req[r].family /\ req'[r].batch = req[r].batch
      BY <1>0, <1>7, NextWork DEF RotateReused
  <2>2. Recorded(req[r].family)
      BY <1>0, <2>1, OwnedIsRecorded DEF Claim, ClaimToken
  <2>3. req[r].op \notin BulkOps /\ req[r].pc \notin Ending
      BY <1>0, <2>1 DEF RowsFirst, Ending
  <2> QED
      BY <1>0, <2>1, <2>2, <2>3, NewWork
<1>8. CASE RevokeTarget(r)
  <2>1. /\ UNCHANGED <<sessions, expired>> /\ req[r].pc = "authed" /\ req[r].op = "revoke"
        /\ req[r].pc \notin Ending /\ req[r].op \notin BulkOps
      BY <1>8 DEF RevokeTarget, Ending, BulkOps
  <2>2. CASE Done(r) /\ UNCHANGED cause
    <3>1. req'[r].pc = "idle" /\ req'[r].batch = {}
        BY <1>0, <2>2, NextWork
    <3> QED
        BY <2>1, <2>2, <3>1, NoWork DEF Ending
  <2>3. CASE /\ sessions[req[r].family].user = UserOf[req[r].device]
             /\ Goto(r, "endFamily")
             /\ cause' = [cause EXCEPT ![req[r].family] = @ \cup {"asked"}]
    <3>1. /\ req'[r].pc = "endFamily" /\ req'[r].op = req[r].op
          /\ req'[r].family = req[r].family /\ req'[r].batch = req[r].batch
        BY <1>0, <2>3, NextWork
    <3>2. req[r].family \in Families => Recorded(req[r].family)
      <4>1. req[r].device \in Devices
          BY <1>0, <2>1 DEF Grounded, Busy
      <4> QED
          BY <2>3, <4>1, UserOfType, NoneIsFresh DEF Recorded
    <3> QED
        BY <1>0, <2>1, <2>3, <3>1, <3>2, NewWork
  <2> QED
      BY <1>8, <2>2, <2>3 DEF RevokeTarget
<1>9. CASE RefreshLookup(r) \/ LogoutLookup(r)
  <2> DEFINE f == tokens[req[r].token].family
  <2>1. /\ UNCHANGED <<sessions, expired>> /\ req[r].pc = "lookup"
        /\ req[r].op \in {"refresh", "logout"}
        /\ req[r].pc \notin Ending /\ req[r].op \notin BulkOps
      BY <1>9 DEF RefreshLookup, LogoutLookup, Ending, BulkOps
  <2>2. CASE Goto(r, "clear") /\ UNCHANGED cause
    <3>1. req'[r].pc = "clear" /\ req'[r].batch = req[r].batch
        BY <1>0, <2>2, NextWork
    <3> QED
        BY <2>1, <2>2, <3>1, NoWork DEF Ending
  <2>3. CASE req' = [req EXCEPT ![r].pc = "rotate", ![r].family = f]
             /\ UNCHANGED cause
    <3>1. req'[r].pc = "rotate" /\ req'[r].batch = req[r].batch /\ req'[r].op = req[r].op
        BY <1>0, <2>3 DEF Request
    <3> QED
        BY <2>1, <2>3, <3>1, NoWork DEF Ending
  <2>4. ASSUME NEW c, req[r].token \in Tokens,
               req' = [req EXCEPT ![r].pc = "endFamily", ![r].family = f],
               cause' = [cause EXCEPT ![f] = @ \cup {c}]
        PROVE  Owes(r)
    <3>1. /\ req'[r].pc = "endFamily" /\ req'[r].family = f
          /\ req'[r].batch = req[r].batch /\ req'[r].op = req[r].op
        BY <1>0, <2>4 DEF Request
    <3>2. f \in Families => Recorded(f)
        BY <2>4, NoneIsFresh DEF IInv, CredentialsNameSession, Issued
    <3> HIDE DEF f
    <3> QED
        BY <1>0, <2>1, <2>4, <3>1, <3>2, NewWork
  <2>5. req[r].token # None => req[r].token \in Tokens
      BY <1>0 DEF Request
  <2>6. RefreshLookup(r) => req[r].token \in Tokens
      BY <1>0 DEF RefreshLookup, Claim, ClaimCookie
  <2>7. CASE RefreshLookup(r)
      BY <2>2, <2>3, <2>4, <2>6, <2>7, Zenon DEF RefreshLookup
  <2>8. CASE LogoutLookup(r)
      BY <2>2, <2>4, <2>5, <2>8, Zenon DEF LogoutLookup
  <2> QED
      BY <1>9, <2>7, <2>8
\* What it is asked for and leaves alone is over already.
<1>10. CASE RevokeBulk(r)
  <2>1. /\ UNCHANGED expired /\ req[r].pc = "authed"
        /\ RevokeRows(BulkRows(r))
        /\ cause' = [f \in Families |->
                       cause[f] \cup (IF f \in BulkTargets(r) THEN {"asked"} ELSE {})]
      BY <1>10 DEF RevokeBulk
  <2>2. req'[r].pc = "drain" /\ req'[r].batch = BulkRows(r)
      BY <1>0, <1>10 DEF RevokeBulk, Request
  <2>3. ASSUME NEW f \in Families
        PROVE  /\ sessions'[f].user = sessions[f].user
               /\ sessions[f].revoked => sessions'[f].revoked
               /\ f \in BulkRows(r) => sessions'[f].revoked
    <3>1. sessions[f] \in SessionRow
        BY <1>0 DEF TypeOK
    <3> QED
        BY <2>1, <3>1 DEF RevokeRows, SessionRow
  <2>4. ASSUME NEW f \in Families, f \in BulkTargets(r)
        PROVE  Closed(f)' /\ sessions'[f].user # None
    <3>1. f \in BulkRows(r) \/ Closed(f)
        BY <2>4 DEF BulkTargets, BulkRows, Closed
    <3>2. sessions[f].user = UserOf[req[r].device]
        BY <2>4 DEF BulkTargets
    <3>3. req[r].device \in Devices
        BY <1>0, <2>1 DEF Grounded, Busy
    <3>4. sessions[f].user # None
        BY <3>2, <3>3, UserOfType, NoneIsFresh
    <3> QED
        BY <2>1, <2>3, <3>1, <3>4 DEF Closed
  <2>5. \A f \in Families : f \notin BulkTargets(r) => cause'[f] = cause[f]
      BY <2>1
  <2>6. \A f \in Families : Ends(r, f) => sessions'[f].revoked
      BY <1>0, <2>1, <2>3 DEF Ends, Ending, RowsFirst
  <2>7. RowsFirst(r)'
      BY <2>2, <2>3 DEF RowsFirst, Ending, BulkRows
  <2> QED
      BY <2>1, <2>3, <2>4, <2>5, <2>6, <2>7 DEF Owes, Closed, Recorded
<1>11. CASE DrainBatch(r)
  <2>1. UNCHANGED <<sessions, expired, cause>> /\ req[r].pc = "drain"
      BY <1>11, Zenon DEF DrainBatch
  <2>2. CASE Done(r)
    <3>1. req'[r].pc = "idle" /\ req'[r].batch = {}
        BY <1>0, <2>2, NextWork
    <3> QED
        BY <2>1, <3>1, NoWork DEF Ending
  <2>3. ASSUME NEW f \in req[r].batch,
               req' = [req EXCEPT ![r].pc = "endFamily", ![r].family = f,
                                  ![r].batch = @ \ {f}]
        PROVE  Owes(r)
    <3>1. /\ req'[r].pc = "endFamily" /\ req'[r].family = f
          /\ req'[r].batch = req[r].batch \ {f}
        BY <1>0, <2>3 DEF Request
    <3>2. RowsFirst(r)'
        BY <1>0, <2>1, <2>3, <3>1 DEF RowsFirst
    <3>3. \A g \in Families : Ends(r, g) => sessions[g].revoked
        BY <1>0, <2>1 DEF Ends, Ending, RowsFirst
    <3> QED
        BY <2>1, <3>2, <3>3 DEF Owes, Closed, Recorded
  <2> QED
      BY <1>11, <2>2, <2>3, Zenon DEF DrainBatch
<1> QED
    BY <1>1, <1>2, <1>3, <1>4, <1>5, <1>6, <1>7, <1>8, <1>9, <1>10, <1>11 DEF Serve

LEMMA SentOwes ==
    ASSUME IInv, CauseInv, EndInv, NEW r \in Requests, NEW d \in Devices, Send(r, d)
    PROVE  /\ Owes(r)
           /\ \A q \in Requests \ {r} : req'[q] = req[q]
<1>0. TypeOK /\ req[r] \in Request /\ RowsFirst(r)
    BY DEF IInv, TypeOK, EndInv
<1>1. UNCHANGED <<expired, cause>> /\ req[r].pc = "idle"
    BY DEF Send, SendRefresh, SendLogout, RecordSession, SendRevoke, SendBulkRevoke,
           MaySend, Busy
<1>2. PICK op, pc, f : /\ pc \in {"family", "lookup"}
                       /\ req' = [req EXCEPT ![r] = Received(op, pc, d, f)]
    BY DEF Send, SendRefresh, SendLogout, RecordSession, SendRevoke, SendBulkRevoke
<1>3. /\ Received(op, pc, d, f).pc = pc /\ Received(op, pc, d, f).batch = {}
    BY DEF Received, IdleReq
<1>4. /\ req'[r] = Received(op, pc, d, f)
      /\ \A q \in Requests \ {r} : req'[q] = req[q]
    BY <1>0, <1>2 DEF TypeOK
<1>5. RowsFirst(r)'
    BY <1>2, <1>3, <1>4 DEF RowsFirst, Ending
<1>6. ASSUME NEW g \in Families, sessions'[g] # sessions[g]
      PROVE  ~Recorded(g) /\ sessions'[g].user # None
  <2>1. RecordSession(r, d)
      BY <1>6 DEF Send, SendRefresh, SendLogout, SendRevoke, SendBulkRevoke
  <2>2. PICK h \in Families : /\ ~Recorded(h)
                              /\ sessions' = [sessions EXCEPT ![h] = NewSession(d)]
      BY <2>1 DEF RecordSession
  <2>3. g = h
      BY <1>0, <1>6, <2>2 DEF TypeOK
  <2>4. sessions'[g] = NewSession(d)
      BY <1>0, <2>2, <2>3 DEF TypeOK
  <2> QED
      BY <2>2, <2>3, <2>4, UserOfType, NoneIsFresh DEF NewSession
<1>7. ASSUME NEW g \in Families, sessions[g].revoked
      PROVE  sessions'[g] = sessions[g]
  <2>1. cause[g] # {}
      BY <1>7 DEF CauseInv, RevokedForCause
  <2>2. Recorded(g)
      BY <2>1 DEF EndInv
  <2> QED
      BY <1>6, <2>2
<1>8. \A g \in Families : Ends(r, g) => sessions[g].revoked
    BY <1>0, <1>1 DEF Ends, Ending, RowsFirst
<1>9. /\ \A g \in Families : /\ sessions[g].revoked => sessions'[g].revoked
                             /\ Recorded(g) => sessions'[g].user # None
      /\ expired \subseteq expired'
    BY <1>1, <1>6, <1>7 DEF Recorded
<1>10. \A g \in Families : Ends(r, g) => Closed(g)'
    BY <1>8, <1>9 DEF Closed
<1>11. \A g \in Families : cause'[g] = cause[g]
    BY <1>1
<1> QED
    BY <1>4, <1>5, <1>9, <1>10, <1>11 DEF Owes

LEMMA EndStep ==
    ASSUME IInv, GroundInv, CauseInv, EndInv, ~DBFaults, [Next]_vars
    PROVE  EndInv'
<1>0. TypeOK
    BY DEF IInv
<1>1. ASSUME NEW r \in Requests, NEW d \in Devices, Send(r, d)
      PROVE  EndInv'
    BY <1>0, <1>1, SentOwes, OwedStep
<1>2. ASSUME NEW r \in Requests, Serve(r) \/ LoseResponse(r)
      PROVE  EndInv'
  <2>1. Owes(r)
      BY <1>2, ServedOwes
  <2>2. \A q \in Requests \ {r} : req'[q] = req[q]
      BY <1>0, <1>2, ServedPastLookup
  <2> QED
      BY <1>0, <2>1, <2>2, OwedStep
<1>3. \A r \in Requests : ~FaultAnswered(r) /\ ~FaultCutsBulk(r) /\ ~FaultLogged(r)
    BY DEF FaultAnswered, FaultCutsBulk, FaultLogged
<1>4. CASE (\E f \in Families : Expire(f)) \/ UNCHANGED vars
  <2>1. UNCHANGED <<sessions, req, cause>> /\ expired \subseteq expired'
      BY <1>4 DEF Expire, vars
  <2> QED
      BY <2>1 DEF EndInv, Recorded, Closed, Ends, RowsFirst
<1> QED
    BY <1>1, <1>2, <1>3, <1>4 DEF Next

(* While the database answers, whatever should end a session does: once no *)
(* request is at work on the family of a logout, of a revocation or of a   *)
(* replay, the session's row is one that RequireAuth refuses, whatever     *)
(* logins, rotations and revocations ran beside it (endSession, Logout,    *)
(* RevokeSession and the bulk routes).                                     *)
THEOREM CausesEndSessions == ASSUME ~DBFaults PROVE Spec => []CausedSessionsEnd
<1> DEFINE Inv == IInv /\ GroundInv /\ CauseInv /\ EndInv
<1>1. Init => Inv
  <2> SUFFICES ASSUME Init PROVE Inv
      OBVIOUS
  <2>1. CauseInv
      BY DEF Init, IdleReq, NoSession, CauseInv, RevokedForCause, HasCause
  <2>2. EndInv
      BY DEF Init, IdleReq, EndInv, RowsFirst, BulkOps
  <2> QED
      BY <2>1, <2>2, InitSafe, InitGrounded
<1>2. Inv /\ [Next]_vars => Inv'
  <2> SUFFICES ASSUME Inv, [Next]_vars PROVE Inv'
      OBVIOUS
  <2>1. IInv' /\ TypeOK /\ HasToken
      BY StepSafe, ClaimsHasToken DEF IInv
  <2> QED
      BY <2>1, GroundStep, CauseInduction, EndStep
<1>3. Inv => CausedSessionsEnd
    BY DEF EndInv, Closed, Ends, Ending, CausedSessionsEnd, BeingEnded
<1> QED
    BY <1>1, <1>2, <1>3, PTL DEF Spec

-----------------------------------------------------------------------------
(* Who is never mistaken for a thief.                                      *)

Asked(f) == "asked" \in cause[f]

(* A token its holder may still present: live, or of a session that its    *)
(* user has asked to end.                                                  *)
Good(t) == Live(t) \/ Asked(tokens[t].family)

(* Request r will look its token up, or spend it.                          *)
Presents(r) ==
    \/ req[r].pc \in {"rotate", "successor"}
    \/ req[r].pc = "lookup" /\ req[r].op = "refresh"

(* Family f is in the jar of device d, or on its way there.                *)
Holds(d, f) ==
    \/ jar[d].refresh # None /\ jar[d].access = f
    \/ \E r \in Requests : /\ req[r].pc \in {"family", "reply"}
                           /\ req[r].device = d /\ req[r].family = f

OneAtATime ==
    \A q, r \in Requests :
        Busy(q) /\ Busy(r) /\ req[q].device = req[r].device => q = r

PresentsOwn ==
    \A r \in Requests : Presents(r) => req[r].token = jar[req[r].device].refresh

AnswersGood == \A r \in Requests : req[r].pc = "reply" => Good(req[r].token)

(* The jar lags behind the server only while the answer is on its way.     *)
JarsGood ==
    \A d \in Devices : jar[d].refresh # None =>
        \/ Good(jar[d].refresh)
        \/ \E r \in Requests : req[r].pc = "reply" /\ req[r].device = d

HeldByOne == \A d, e \in Devices, f \in Families : Holds(d, f) /\ Holds(e, f) => d = e

NoReplays == \A f \in Families : "replay" \in cause[f] => Asked(f)

SignInv ==
    OneAtATime /\ PresentsOwn /\ AnswersGood /\ JarsGood /\ HeldByOne /\ NoReplays

(* What the other invariants give.                                         *)
Base == IInv /\ GroundInv /\ CauseInv

LEMMA CausedIsAsked ==
    ASSUME TypeOK, NoReplays, NEW f \in Families, cause[f] # {}
    PROVE  Asked(f)
BY DEF TypeOK, NoReplays, Asked

(* With one request at a time a device sends only when it has none.        *)
LEMMA SendsAlone ==
    ASSUME TypeOK, MaxPerDevice = 1, IsFiniteSet(Requests),
           NEW r, NEW d, NEW op, MaySend(r, d, op)
    PROVE  \A q \in Requests : Busy(q) => req[q].device # d
<1> DEFINE S == {q \in Requests : Busy(q) /\ req[q].device = d}
<1>1. IsFiniteSet(S)
    BY FS_Subset
<1>2. Cardinality(S) \in Nat /\ Cardinality(S) < 1
    BY <1>1, FS_CardinalityType DEF MaySend
<1>3. S = {}
    BY <1>1, <1>2, FS_EmptySet
<1> QED
    BY <1>3

(* A request that only works on: it answers nobody, and presents a token   *)
(* only if it did.                                                         *)
WorksOn(r) ==
    /\ Busy(r) /\ req[r].pc # "reply"
    /\ UNCHANGED jar
    /\ \A q \in Requests \ {r} : req'[q] = req[q]
    /\ \/ req'[r] = IdleReq
       \/ /\ req'[r].device = req[r].device /\ req'[r].token = req[r].token
          /\ req'[r].pc \notin {"family", "reply"}
          /\ Presents(r)' => Presents(r)

Working(r) ==
    \/ RefreshLookup(r) \/ RenewRefused(r) \/ RotateSpend(r) \/ RotateReused(r)
    \/ RevokeFamilyStart(r) \/ RevokeFamilyFinish(r) \/ RevokeRow(r)
    \/ LogoutLookup(r) \/ Admit(r) \/ RevokeTarget(r)
    \/ RevokeBulk(r) \/ DrainBatch(r)
    \/ FaultAnswered(r) \/ FaultCutsBulk(r) \/ FaultLogged(r)

(* Request r goes on at pc, with its device and its token.                  *)
MovesTo(r, pc) ==
    /\ \A q \in Requests \ {r} : req'[q] = req[q]
    /\ req'[r].pc = pc
    /\ req'[r].device = req[r].device /\ req'[r].token = req[r].token

LEMMA Moves ==
    ASSUME TypeOK, NEW r \in Requests
    PROVE  /\ \A pc : Goto(r, pc) => MovesTo(r, pc)
           /\ \A pc, f : req' = [req EXCEPT ![r].pc = pc, ![r].family = f]
                         => MovesTo(r, pc)
           /\ \A pc, s : req' = [req EXCEPT ![r].pc = pc, ![r].snapshot = s]
                         => MovesTo(r, pc)
           /\ \A pc, s : req' = [req EXCEPT ![r].snapshot = s, ![r].pc = pc]
                         => MovesTo(r, pc)
           /\ \A pc, b : req' = [req EXCEPT ![r].pc = pc, ![r].batch = b]
                         => MovesTo(r, pc)
           /\ \A pc, f, b : req' = [req EXCEPT ![r].pc = pc, ![r].family = f,
                                               ![r].batch = b]
                            => MovesTo(r, pc)
<1>1. req \in [Requests -> Request] /\ req[r] \in Request
    BY DEF TypeOK
<1>2. ASSUME NEW pc, req' = [req EXCEPT ![r].pc = pc]
      PROVE  MovesTo(r, pc)
  <2>1. req'[r].pc = pc /\ req'[r].device = req[r].device /\ req'[r].token = req[r].token
      BY <1>1, <1>2 DEF Request
  <2>2. \A q \in Requests \ {r} : req'[q] = req[q]
      BY <1>1, <1>2
  <2> QED
      BY <2>1, <2>2 DEF MovesTo
<1>3. ASSUME NEW pc, NEW f, req' = [req EXCEPT ![r].pc = pc, ![r].family = f]
      PROVE  MovesTo(r, pc)
  <2>1. req'[r].pc = pc /\ req'[r].device = req[r].device /\ req'[r].token = req[r].token
      BY <1>1, <1>3 DEF Request
  <2>2. \A q \in Requests \ {r} : req'[q] = req[q]
      BY <1>1, <1>3
  <2> QED
      BY <2>1, <2>2 DEF MovesTo
<1>4. ASSUME NEW pc, NEW s, req' = [req EXCEPT ![r].pc = pc, ![r].snapshot = s]
      PROVE  MovesTo(r, pc)
  <2>1. req'[r].pc = pc /\ req'[r].device = req[r].device /\ req'[r].token = req[r].token
      BY <1>1, <1>4 DEF Request
  <2>2. \A q \in Requests \ {r} : req'[q] = req[q]
      BY <1>1, <1>4
  <2> QED
      BY <2>1, <2>2 DEF MovesTo
<1>5. ASSUME NEW pc, NEW s, req' = [req EXCEPT ![r].snapshot = s, ![r].pc = pc]
      PROVE  MovesTo(r, pc)
  <2>1. req'[r].pc = pc /\ req'[r].device = req[r].device /\ req'[r].token = req[r].token
      BY <1>1, <1>5 DEF Request
  <2>2. \A q \in Requests \ {r} : req'[q] = req[q]
      BY <1>1, <1>5
  <2> QED
      BY <2>1, <2>2 DEF MovesTo
<1>6. ASSUME NEW pc, NEW b, req' = [req EXCEPT ![r].pc = pc, ![r].batch = b]
      PROVE  MovesTo(r, pc)
  <2>1. req'[r].pc = pc /\ req'[r].device = req[r].device /\ req'[r].token = req[r].token
      BY <1>1, <1>6 DEF Request
  <2>2. \A q \in Requests \ {r} : req'[q] = req[q]
      BY <1>1, <1>6
  <2> QED
      BY <2>1, <2>2 DEF MovesTo
<1>7. ASSUME NEW pc, NEW f, NEW b, req' = [req EXCEPT ![r].pc = pc, ![r].family = f,
                                   ![r].batch = b]
      PROVE  MovesTo(r, pc)
  <2>1. req'[r].pc = pc /\ req'[r].device = req[r].device /\ req'[r].token = req[r].token
      BY <1>1, <1>7 DEF Request
  <2>2. \A q \in Requests \ {r} : req'[q] = req[q]
      BY <1>1, <1>7
  <2> QED
      BY <2>1, <2>2 DEF MovesTo
<1> QED
    BY <1>2, <1>3, <1>4, <1>5, <1>6, <1>7, Zenon DEF Goto

LEMMA MovesOn ==
    ASSUME NEW r \in Requests, Busy(r), req[r].pc # "reply", UNCHANGED jar,
           NEW pc, MovesTo(r, pc),
           pc \notin {"family", "lookup", "reply"},
           pc \in {"rotate", "successor"} => Presents(r)
    PROVE  WorksOn(r)
BY DEF MovesTo, WorksOn, Presents

LEMMA GivesUp ==
    ASSUME TypeOK, NEW r \in Requests, Busy(r), req[r].pc # "reply",
           UNCHANGED jar, Done(r)
    PROVE  WorksOn(r)
BY DEF TypeOK, Done, WorksOn

LEMMA WorkingWorksOn ==
    ASSUME TypeOK, NEW r \in Requests, Working(r)
    PROVE  WorksOn(r)
<1>1. Busy(r) /\ req[r].pc # "reply" /\ UNCHANGED jar
  <2>1. CASE \/ RefreshLookup(r) \/ RenewRefused(r) \/ RotateSpend(r) \/ RotateReused(r)
             \/ RevokeFamilyStart(r) \/ RevokeFamilyFinish(r) \/ RevokeRow(r)
             \/ LogoutLookup(r) \/ Admit(r)
      BY <2>1, Zenon DEF RefreshLookup, RenewRefused, RotateSpend, RotateReused,
         RevokeFamilyStart, RevokeFamilyFinish, RevokeRow, LogoutLookup, Admit, Busy
  <2>2. CASE \/ RevokeTarget(r) \/ RevokeBulk(r) \/ DrainBatch(r)
             \/ FaultAnswered(r) \/ FaultCutsBulk(r) \/ FaultLogged(r)
    <3>1. /\ req[r].pc \in {"authed", "drain", "family", "rotate", "successor",
                            "lookup", "endFamilyRun", "endSession"}
          /\ UNCHANGED jar
        BY <2>2, Zenon DEF RevokeTarget, RevokeBulk, DrainBatch, FaultAnswered,
           FaultCutsBulk, FaultLogged
    <3> QED
        BY <3>1 DEF Busy
  <2> QED
      BY <2>1, <2>2 DEF Working
<1>2. ASSUME NEW pc, MovesTo(r, pc),
             pc \in {"clear", "endFamily", "endFamilyRun", "endSession", "drain", "authed"}
      PROVE  WorksOn(r)
    BY <1>1, <1>2, MovesOn
<1>3. ASSUME RefreshLookup(r)
      PROVE  \E pc \in {"clear", "rotate", "endFamily"} : MovesTo(r, pc)
  <2>1. CASE Goto(r, "clear")
      BY <2>1, Moves, Zenon
  <2>2. ASSUME NEW f, NEW pc \in {"rotate", "endFamily"},
               req' = [req EXCEPT ![r].pc = pc, ![r].family = f]
        PROVE  MovesTo(r, pc)
      BY <2>2, Moves, Zenon
  <2> QED
      BY <1>3, <2>1, <2>2, Zenon DEF RefreshLookup
<1>4. ASSUME \/ RenewRefused(r) \/ RotateReused(r) \/ RevokeFamilyStart(r)
             \/ RevokeFamilyFinish(r) \/ RevokeRow(r) \/ LogoutLookup(r)
             \/ Admit(r) \/ RevokeTarget(r) \/ RevokeBulk(r) \/ DrainBatch(r)
             \/ FaultLogged(r)
      PROVE  \/ \E pc \in {"clear", "endFamily", "endFamilyRun", "endSession",
                            "drain", "authed"} : MovesTo(r, pc)
             \/ Done(r)
  <2>1. CASE RenewRefused(r) \/ RotateReused(r) \/ RevokeRow(r) \/ Admit(r)
    <3>1. \/ Done(r) \/ Goto(r, "clear") \/ Goto(r, "endFamily") \/ Goto(r, "authed")
        BY <2>1, Zenon DEF RenewRefused, RotateReused, RevokeRow, Admit
    <3> QED
        BY <3>1, Moves, Zenon
  <2>2. CASE RevokeFamilyStart(r)
      BY <2>2, Moves, Zenon DEF RevokeFamilyStart
  <2>3. ASSUME AfterFamily(r)
        PROVE  MovesTo(r, "drain") \/ MovesTo(r, "endSession")
      BY <2>3, Moves, Zenon DEF AfterFamily
  <2>4. CASE RevokeFamilyFinish(r) \/ FaultLogged(r)
    <3>1. CASE FaultLogged(r)
      <4>1. AfterFamily(r) \/ Goto(r, "clear")
          BY <3>1, Zenon DEF FaultLogged
      <4> QED
          BY <2>3, <4>1, Moves, Zenon
    <3> QED
        BY <2>3, <2>4, <3>1, Zenon DEF RevokeFamilyFinish
  <2>5. CASE LogoutLookup(r) \/ RevokeTarget(r)
    <3>1. ASSUME NEW f, req' = [req EXCEPT ![r].pc = "endFamily", ![r].family = f]
          PROVE  MovesTo(r, "endFamily")
        BY <3>1, Moves, Zenon
    <3>2. Goto(r, "clear") => MovesTo(r, "clear")
        BY Moves, Zenon
    <3>3. Goto(r, "endFamily") => MovesTo(r, "endFamily")
        BY Moves, Zenon
    <3>4. CASE LogoutLookup(r)
        BY <3>1, <3>2, <3>4, Zenon DEF LogoutLookup
    <3>5. CASE RevokeTarget(r)
        BY <3>3, <3>5, Zenon DEF RevokeTarget
    <3> QED
        BY <2>5, <3>4, <3>5
  <2>6. CASE RevokeBulk(r)
      BY <2>6, Moves, Zenon DEF RevokeBulk
  <2>7. CASE DrainBatch(r)
    <3>1. ASSUME NEW f, NEW b,
                 req' = [req EXCEPT ![r].pc = "endFamily", ![r].family = f, ![r].batch = b]
          PROVE  MovesTo(r, "endFamily")
        BY <3>1, Moves, Zenon
    <3> QED
        BY <2>7, <3>1, Zenon DEF DrainBatch
  <2> QED
      BY <1>4, <2>1, <2>2, <2>4, <2>5, <2>6, <2>7
<1>5. CASE RefreshLookup(r)
  <2>1. Presents(r)
      BY <1>5 DEF RefreshLookup, Presents
  <2> QED
      BY <1>1, <1>3, <1>5, <2>1, MovesOn
<1>6. CASE RotateSpend(r)
  <2>1. Presents(r) /\ MovesTo(r, "successor")
    <3>1. Presents(r)
        BY <1>6 DEF RotateSpend, Presents
    <3>2. Goto(r, "successor")
        BY <1>6 DEF RotateSpend
    <3> QED
        BY <3>1, <3>2, Moves, Zenon
  <2> QED
      BY <1>1, <2>1, MovesOn
<1>7. CASE FaultAnswered(r) \/ FaultCutsBulk(r)
    BY <1>1, <1>7, GivesUp DEF FaultAnswered, FaultCutsBulk
<1>8. Done(r) => WorksOn(r)
    BY <1>1, GivesUp
<1> QED
    BY <1>2, <1>4, <1>5, <1>6, <1>7, <1>8 DEF Working

(* What a device holds has a row, and its token is issued.                 *)
LEMMA HeldIsRecorded ==
    ASSUME Base, NEW d \in Devices, NEW f \in Families, Holds(d, f)
    PROVE  Recorded(f)
<1>1. ASSUME jar[d].refresh # None /\ jar[d].access = f
      PROVE  Recorded(f)
    BY <1>1, UserOfType, NoneIsFresh
    DEF Base, IInv, CredentialsNameSession, Recorded
<1>2. ASSUME NEW r \in Requests, req[r].pc \in {"family", "reply"}, req[r].family = f
      PROVE  Recorded(f)
    BY <1>2, OwnedIsRecorded DEF Base, IInv, Claim, ClaimFamily, ClaimToken
<1> QED
    BY <1>1, <1>2 DEF Holds

LEMMA JarHolds ==
    ASSUME Base, NEW d \in Devices, jar[d].refresh # None
    PROVE  /\ jar[d].refresh \in Tokens /\ Issued(jar[d].refresh)
           /\ tokens[jar[d].refresh].family = jar[d].access
           /\ Holds(d, jar[d].access)
BY DEF Base, IInv, TypeOK, Jar, CredentialsNameSession, Holds

LEMMA AnswerHolds ==
    ASSUME Base, NEW r \in Requests, req[r].pc = "reply"
    PROVE  /\ req[r].token \in Tokens /\ Issued(req[r].token)
           /\ req[r].family \in Families /\ req[r].device \in Devices
           /\ tokens[req[r].token].family = req[r].family
           /\ Holds(req[r].device, req[r].family)
BY NoneIsFresh DEF Base, IInv, Claim, ClaimToken, Owns, Holds, Issued

(* Causes are only added, and tokens end one by one in a rotation or all   *)
(* together in a family that is to end.                                    *)
LEMMA CausesKept ==
    ASSUME TypeOK, NEW r \in Requests,
           \/ Working(r) \/ StartRefreshFamily(r) \/ RotateCommit(r) \/ Respond(r),
           NEW f \in Families
    PROVE  cause[f] \subseteq cause'[f]
<1>1. cause \in [Families -> SUBSET {"asked", "replay"}]
    BY DEF TypeOK
<1>2. ASSUME NEW g, NEW why, cause' = [cause EXCEPT ![g] = @ \cup {why}]
      PROVE  cause[f] \subseteq cause'[f]
    BY <1>1, <1>2
<1>3. CASE RefreshLookup(r) \/ RotateReused(r)
    BY <1>2, <1>3, Zenon DEF RefreshLookup, RotateReused
<1>4. CASE LogoutLookup(r) \/ RevokeTarget(r)
    BY <1>2, <1>4, Zenon DEF LogoutLookup, RevokeTarget
<1>5. CASE RevokeBulk(r) \/ FaultCutsBulk(r)
    BY <1>1, <1>5 DEF RevokeBulk, FaultCutsBulk
<1>6. CASE \/ RenewRefused(r) \/ RotateSpend(r) \/ RevokeFamilyStart(r)
           \/ RevokeFamilyFinish(r) \/ RevokeRow(r) \/ Admit(r) \/ DrainBatch(r)
           \/ FaultAnswered(r) \/ FaultLogged(r)
           \/ StartRefreshFamily(r) \/ RotateCommit(r) \/ Respond(r)
  <2>1. UNCHANGED cause
      BY <1>6, Zenon DEF RenewRefused, RotateSpend, RevokeFamilyStart,
         RevokeFamilyFinish, RevokeRow, Admit, DrainBatch, FaultAnswered,
         FaultLogged, StartRefreshFamily, RotateCommit, Respond
  <2> QED
      BY <2>1
<1> QED
    BY <1>3, <1>4, <1>5, <1>6 DEF Working

LEMMA GoodStays ==
    ASSUME Base, NoReplays, NEW r \in Requests,
           Working(r) \/ StartRefreshFamily(r) \/ RotateCommit(r) \/ Respond(r),
           NEW t \in Tokens, Issued(t), Good(t),
           RotateCommit(r) => t # req[r].token
    PROVE  Good(t)'
<1>0. /\ TypeOK /\ tokens \in [Tokens -> TokenRow] /\ tokens[t].family \in Families
      /\ Grounded(r) /\ HasCause(r)
    BY DEF Base, IInv, TypeOK, TokenRow, Issued, GroundInv, CauseInv
<1>1. CASE Asked(tokens[t].family) /\ tokens'[t].family = tokens[t].family
    BY <1>0, <1>1, CausesKept DEF Good, Asked
<1>2. CASE StartRefreshFamily(r)
  <2>1. PICK n \in Tokens : ~Issued(n) /\ tokens' = [tokens EXCEPT ![n].family = req[r].family]
      BY <1>2, Zenon DEF StartRefreshFamily
  <2>2. tokens'[t] = tokens[t]
      BY <1>0, <2>1
  <2> QED
      BY <1>1, <2>2 DEF Good, Live, Issued
<1>3. CASE RotateCommit(r)
  <2>1. PICK n \in Tokens :
           ~Issued(n) /\ tokens' = [tokens EXCEPT ![req[r].token].revoked = TRUE,
                                                  ![req[r].token].replacedBy = n,
                                                  ![n].family = req[r].family]
      BY <1>3, Zenon DEF RotateCommit
  <2>2. t # n /\ t # req[r].token
      BY <1>3, <2>1
  <2>3. tokens'[t] = tokens[t]
      BY <1>0, <2>1, <2>2, Zenon
  <2> QED
      BY <1>1, <2>3 DEF Good, Live, Issued
<1>4. CASE RevokeFamilyFinish(r)
  <2>1. tokens'[t].family = tokens[t].family
      BY <1>0, <1>4 DEF RevokeFamilyFinish, TokenRow
  <2>2. CASE t \in req[r].snapshot
    <3>1. tokens[t].family = req[r].family /\ cause[tokens[t].family] # {}
        BY <1>0, <1>4, <2>2 DEF RevokeFamilyFinish, Grounded, HasCause
    <3> QED
        BY <1>0, <1>1, <2>1, <3>1, CausedIsAsked
  <2>3. CASE t \notin req[r].snapshot
      BY <1>1, <1>4, <2>1, <2>3 DEF RevokeFamilyFinish, Good, Live, Issued
  <2> QED
      BY <2>2, <2>3
<1>5. CASE UNCHANGED tokens
    BY <1>1, <1>5 DEF Good, Live, Issued
<1>6. \/ StartRefreshFamily(r) \/ RotateCommit(r) \/ RevokeFamilyFinish(r)
      \/ UNCHANGED tokens
    BY Zenon DEF Working, RefreshLookup, RenewRefused, RotateSpend, RotateReused,
       RevokeFamilyStart, RevokeRow, LogoutLookup, Admit, RevokeTarget, RevokeBulk,
       DrainBatch, FaultAnswered, FaultCutsBulk, FaultLogged, Respond
<1> QED
    BY <1>2, <1>3, <1>4, <1>5, <1>6

(* The steps, one kind at a time.                                          *)
LEMMA ReplaysAreAsked ==
    ASSUME Base, SignInv, NEW r \in Requests,
           Working(r) \/ StartRefreshFamily(r) \/ RotateCommit(r) \/ Respond(r)
    PROVE  NoReplays'
<1>0. /\ TypeOK /\ req[r] \in Request /\ tokens \in [Tokens -> TokenRow]
      /\ cause \in [Families -> SUBSET {"asked", "replay"}]
      /\ Claim(r) /\ Grounded(r)
    BY DEF Base, IInv, TypeOK, GroundInv
<1>1. SUFFICES ASSUME NEW f \in Families, "replay" \in cause'[f]
               PROVE  "asked" \in cause'[f]
    BY DEF NoReplays, Asked
<1>2. cause[f] \subseteq cause'[f]
    BY <1>0, CausesKept
<1>3. CASE "replay" \in cause[f]
    BY <1>2, <1>3 DEF SignInv, NoReplays, Asked
<1>4. ASSUME Presents(r), req[r].token \in Tokens, tokens[req[r].token].revoked
      PROVE  Asked(tokens[req[r].token].family)
  <2> DEFINE d == req[r].device
  <2>1. Busy(r) /\ d \in Devices /\ req[r].pc # "reply"
      BY <1>0, <1>4 DEF Presents, Busy, Grounded
  <2>2. jar[d].refresh = req[r].token /\ jar[d].refresh # None
      BY <1>4, NoneIsFresh DEF SignInv, PresentsOwn
  <2>3. ASSUME NEW q \in Requests, req[q].pc = "reply", req[q].device = d
        PROVE  FALSE
      BY <2>1, <2>3 DEF SignInv, OneAtATime, Busy
  <2>4. Good(req[r].token)
      BY <2>1, <2>2, <2>3 DEF SignInv, JarsGood
  <2> QED
      BY <1>4, <2>4 DEF Good, Live
<1>5. CASE RefreshLookup(r)
  <2>1. Presents(r) /\ req[r].token \in Tokens
      BY <1>0, <1>5 DEF RefreshLookup, Presents, Claim, ClaimCookie
  <2>2. CASE UNCHANGED cause
      BY <1>1, <1>3, <2>2
  <2>3. CASE /\ tokens[req[r].token].revoked
             /\ cause' = [cause EXCEPT ![tokens[req[r].token].family] = @ \cup {"replay"}]
    <3>1. Asked(tokens[req[r].token].family)
        BY <1>4, <2>1, <2>3
    <3>2. CASE f = tokens[req[r].token].family
        BY <1>2, <3>1, <3>2 DEF Asked
    <3>3. CASE f # tokens[req[r].token].family
      <4>1. cause'[f] = cause[f]
          BY <1>0, <2>3, <3>3
      <4> QED
          BY <1>1, <1>3, <4>1
    <3> QED
        BY <3>2, <3>3
  <2> QED
      BY <1>5, <2>2, <2>3, Zenon DEF RefreshLookup
<1>6. CASE RotateReused(r)
  <2>1. /\ Presents(r) /\ req[r].token \in Tokens
        /\ tokens[req[r].token].family = req[r].family
        /\ tokens[req[r].token].revoked
        /\ cause' = [cause EXCEPT ![req[r].family] = @ \cup {"replay"}]
      BY <1>0, <1>6 DEF RotateReused, Presents, Claim, ClaimToken, Spendable
  <2>2. Asked(req[r].family)
      BY <1>4, <2>1
  <2>3. CASE f = req[r].family
      BY <1>2, <2>2, <2>3 DEF Asked
  <2>4. CASE f # req[r].family
    <3>1. cause'[f] = cause[f]
        BY <1>0, <2>1, <2>4
    <3> QED
        BY <1>1, <1>3, <3>1
  <2> QED
      BY <2>3, <2>4
<1>7. ASSUME NEW g, cause' = [cause EXCEPT ![g] = @ \cup {"asked"}]
      PROVE  "asked" \in cause'[f]
  <2>1. cause'[f] = cause[f] \/ cause'[f] = cause[f] \cup {"asked"}
      BY <1>0, <1>7
  <2> QED
      BY <1>1, <1>3, <2>1
<1>8. CASE LogoutLookup(r) \/ RevokeTarget(r)
  <2>1. UNCHANGED cause \/ \E g : cause' = [cause EXCEPT ![g] = @ \cup {"asked"}]
      BY <1>8, Zenon DEF LogoutLookup, RevokeTarget
  <2> QED
      BY <1>1, <1>3, <1>7, <2>1
<1>9. CASE RevokeBulk(r) \/ FaultCutsBulk(r)
  <2>1. cause'[f] = cause[f] \cup (IF f \in BulkTargets(r) THEN {"asked"} ELSE {})
      BY <1>9 DEF RevokeBulk, FaultCutsBulk
  <2> QED
      BY <1>1, <1>3, <2>1
<1>10. CASE \/ RenewRefused(r) \/ RotateSpend(r) \/ RevokeFamilyStart(r)
            \/ RevokeFamilyFinish(r) \/ RevokeRow(r) \/ Admit(r) \/ DrainBatch(r)
            \/ FaultAnswered(r) \/ FaultLogged(r)
            \/ StartRefreshFamily(r) \/ RotateCommit(r) \/ Respond(r)
  <2>1. UNCHANGED cause
      BY <1>10, Zenon DEF RenewRefused, RotateSpend, RevokeFamilyStart,
         RevokeFamilyFinish, RevokeRow, Admit, DrainBatch, FaultAnswered,
         FaultLogged, StartRefreshFamily, RotateCommit, Respond
  <2> QED
      BY <1>1, <1>3, <2>1
<1> QED
    BY <1>5, <1>6, <1>8, <1>9, <1>10 DEF Working

LEMMA RotateAnswers ==
    ASSUME TypeOK, NEW r \in Requests, RotateCommit(r)
    PROVE  req'[r].pc = "reply"
<1>1. PICK n \in Tokens : req' = [req EXCEPT ![r].pc = "reply", ![r].token = n]
    BY Zenon DEF RotateCommit
<1>2. req \in [Requests -> Request]
    BY DEF TypeOK
<1> QED
    BY <1>1, <1>2 DEF Request

LEMMA WorkingKeepsSign ==
    ASSUME Base, SignInv, NEW r \in Requests, Working(r)
    PROVE  SignInv'
<1>0. TypeOK /\ WorksOn(r) /\ UNCHANGED jar
    BY WorkingWorksOn DEF Base, IInv, WorksOn
<1>1. ASSUME NEW q \in Requests, q # r
      PROVE  req'[q] = req[q]
    BY <1>0, <1>1 DEF WorksOn
<1>2. ~Busy(r)' \/ (Busy(r) /\ req'[r].device = req[r].device)
    BY <1>0 DEF WorksOn, Busy, IdleReq
<1>3. req[r].pc # "reply" /\ req'[r].pc \notin {"family", "reply"}
    BY <1>0 DEF WorksOn, IdleReq
<1>4. \A q \in Requests : Busy(q)' => Busy(q) /\ req'[q].device = req[q].device
    BY <1>1, <1>2 DEF Busy
<1>5. OneAtATime'
    BY <1>4 DEF SignInv, OneAtATime
<1>6. PresentsOwn'
  <2>1. Presents(r)' => /\ Presents(r) /\ req'[r].token = req[r].token
                        /\ req'[r].device = req[r].device
      BY <1>0 DEF WorksOn, IdleReq, Presents
  <2>2. \A q \in Requests : Presents(q)' => Presents(q) /\ req'[q].token = req[q].token
                                            /\ req'[q].device = req[q].device
      BY <1>1, <2>1 DEF Presents
  <2> QED
      BY <1>0, <2>2 DEF SignInv, PresentsOwn
<1>7. \A q \in Requests : req'[q].pc = "reply" => req[q].pc = "reply" /\ req'[q] = req[q]
    BY <1>1, <1>3
<1>8. ~RotateCommit(r)
    BY <1>0, <1>3, RotateAnswers
<1>9. AnswersGood'
  <2> SUFFICES ASSUME NEW q \in Requests, req'[q].pc = "reply"
               PROVE  Good(req[q].token)'
      BY DEF AnswersGood
  <2>1. /\ Good(req[q].token) /\ req'[q] = req[q]
        /\ req[q].token \in Tokens /\ Issued(req[q].token)
      BY <1>7, AnswerHolds DEF SignInv, AnswersGood
  <2>2. PICK t \in Tokens : t = req[q].token
      BY <2>1
  <2>3. Good(t)'
      BY <1>8, <2>1, <2>2, GoodStays DEF SignInv
  <2> QED
      BY <2>1, <2>2, <2>3
<1>10. JarsGood'
  <2> SUFFICES ASSUME NEW d \in Devices, jar'[d].refresh # None
               PROVE  \/ Good(jar[d].refresh)'
                      \/ \E q \in Requests : req'[q].pc = "reply" /\ req'[q].device = d
      BY DEF JarsGood
  <2>1. jar'[d].refresh = jar[d].refresh
      BY <1>0
  <2>2. PICK t \in Tokens : t = jar[d].refresh /\ Issued(t)
      BY <2>1, JarHolds
  <2>3. ASSUME Good(t)
        PROVE  Good(jar[d].refresh)'
    <3>1. Good(t)'
        BY <1>8, <2>2, <2>3, GoodStays DEF SignInv
    <3> QED
        BY <2>1, <2>2, <3>1
  <2>4. ASSUME NEW q \in Requests, req[q].pc = "reply", req[q].device = d
        PROVE  req'[q].pc = "reply" /\ req'[q].device = d
      BY <1>1, <1>3, <2>4
  <2> QED
      BY <2>1, <2>2, <2>3, <2>4 DEF SignInv, JarsGood
<1>11. HeldByOne'
  <2>1. \A d, f : Holds(d, f)' => Holds(d, f)
      BY <1>0, <1>1, <1>3 DEF Holds
  <2> QED
      BY <2>1 DEF SignInv, HeldByOne
<1>12. NoReplays'
    BY ReplaysAreAsked
<1> QED
    BY <1>5, <1>6, <1>9, <1>10, <1>11, <1>12 DEF SignInv

LEMMA SendingKeepsSign ==
    ASSUME Base, SignInv, MaxPerDevice = 1, IsFiniteSet(Requests),
           NEW r \in Requests, NEW d \in Devices, Send(r, d)
    PROVE  SignInv'
<1>0. TypeOK /\ req \in [Requests -> Request]
    BY DEF Base, IInv, TypeOK
<1>1. PICK op, pc, f :
         /\ MaySend(r, d, op)
         /\ pc = "family" => f \in Families /\ ~Recorded(f)
         /\ pc \in {"family", "lookup"}
         /\ req' = [req EXCEPT ![r] = Received(op, pc, d, f)]
    BY DEF Send, SendRefresh, SendLogout, RecordSession, SendRevoke, SendBulkRevoke
<1>2. UNCHANGED <<tokens, jar, cause>>
    BY DEF Send, SendRefresh, SendLogout, RecordSession, SendRevoke, SendBulkRevoke
<1>3. /\ req'[r].pc = pc /\ req'[r].device = d /\ req'[r].family = f
      /\ req'[r].token = jar[d].refresh
      /\ \A q \in Requests \ {r} : req'[q] = req[q]
    BY <1>0, <1>1 DEF Received, IdleReq
<1>4. req[r].pc = "idle" /\ \A q \in Requests : Busy(q) => req[q].device # d
    BY <1>0, <1>1, SendsAlone DEF MaySend, Busy
<1>5. OneAtATime'
  <2>1. ASSUME NEW q \in Requests, NEW s \in Requests, Busy(q)', Busy(s)',
               req'[q].device = req'[s].device
        PROVE  q = s
    <3>1. CASE q # r /\ s # r
        BY <1>3, <2>1, <3>1 DEF SignInv, OneAtATime, Busy
    <3>2. CASE q = r \/ s = r
        BY <1>3, <1>4, <2>1, <3>2 DEF Busy
    <3> QED
        BY <3>1, <3>2
  <2> QED
      BY <2>1 DEF OneAtATime
<1>6. PresentsOwn'
    BY <1>2, <1>3 DEF SignInv, PresentsOwn, Presents
<1>7. AnswersGood'
    BY <1>1, <1>2, <1>3 DEF SignInv, AnswersGood, Good, Live, Issued, Asked
<1>8. JarsGood'
    BY <1>2, <1>3, <1>4 DEF SignInv, JarsGood, Good, Live, Issued, Asked
<1>9. HeldByOne'
  <2>1. ASSUME NEW e \in Devices, NEW g \in Families, Holds(e, g)'
        PROVE  Holds(e, g) \/ (e = d /\ g = f /\ ~Recorded(f))
    <3>1. CASE jar'[e].refresh # None /\ jar'[e].access = g
        BY <1>2, <3>1 DEF Holds
    <3>2. ASSUME NEW q \in Requests, req'[q].pc \in {"family", "reply"},
                 req'[q].device = e, req'[q].family = g
          PROVE  Holds(e, g) \/ (e = d /\ g = f /\ ~Recorded(f))
        BY <1>1, <1>3, <3>2 DEF Holds
    <3> QED
        BY <2>1, <3>1, <3>2 DEF Holds
  <2>2. \A e \in Devices, g \in Families : Holds(e, g) => Recorded(g)
      BY HeldIsRecorded
  <2> QED
      BY <2>1, <2>2 DEF SignInv, HeldByOne
<1>10. NoReplays'
    BY <1>2 DEF SignInv, NoReplays, Asked
<1> QED
    BY <1>5, <1>6, <1>7, <1>8, <1>9, <1>10 DEF SignInv

(* An answer in preparation: the request keeps its device and its family,  *)
(* and takes token n with it.                                              *)
Prepares(r, n) ==
    /\ UNCHANGED jar
    /\ \A q \in Requests \ {r} : req'[q] = req[q]
    /\ req'[r].pc = "reply" /\ req'[r].token = n
    /\ req'[r].device = req[r].device /\ req'[r].family = req[r].family
    /\ Live(n)'

LEMMA StartPrepares ==
    ASSUME Base, NEW r \in Requests, StartRefreshFamily(r)
    PROVE  \E n \in Tokens : Prepares(r, n)
<1>0. /\ TypeOK /\ req \in [Requests -> Request] /\ req[r] \in Request
      /\ tokens \in [Tokens -> TokenRow] /\ req[r].pc = "family" /\ Claim(r)
    BY Zenon DEF Base, IInv, TypeOK, StartRefreshFamily
<1>1. PICK n \in Tokens :
         /\ ~Issued(n) /\ tokens' = [tokens EXCEPT ![n].family = req[r].family]
         /\ req' = [req EXCEPT ![r].pc = "reply", ![r].token = n]
    BY Zenon DEF StartRefreshFamily
<1>2. UNCHANGED jar
    BY DEF StartRefreshFamily
<1>3. /\ \A q \in Requests \ {r} : req'[q] = req[q]
      /\ req'[r].pc = "reply" /\ req'[r].token = n
      /\ req'[r].device = req[r].device /\ req'[r].family = req[r].family
    BY <1>0, <1>1 DEF Request
<1>4. req[r].family \in Families /\ ~tokens[n].revoked
    BY <1>0, <1>1 DEF Claim, ClaimFamily, Owns, Base, GroundInv
<1>5. tokens'[n].family = req[r].family /\ ~tokens'[n].revoked
    BY <1>0, <1>1, <1>4 DEF TokenRow
<1>6. Live(n)'
    BY <1>4, <1>5, NoneIsFresh DEF Live, Issued
<1> QED
    BY <1>2, <1>3, <1>6 DEF Prepares

LEMMA CommitPrepares ==
    ASSUME Base, NEW r \in Requests, RotateCommit(r)
    PROVE  \E n \in Tokens : Prepares(r, n)
<1>0. /\ TypeOK /\ req \in [Requests -> Request] /\ req[r] \in Request
      /\ tokens \in [Tokens -> TokenRow] /\ req[r].pc = "successor" /\ Claim(r)
    BY Zenon DEF Base, IInv, TypeOK, RotateCommit
<1>1. PICK n \in Tokens :
         /\ ~Issued(n)
         /\ tokens' = [tokens EXCEPT ![req[r].token].revoked = TRUE,
                                     ![req[r].token].replacedBy = n,
                                     ![n].family = req[r].family]
         /\ req' = [req EXCEPT ![r].pc = "reply", ![r].token = n]
    BY Zenon DEF RotateCommit
<1>2. UNCHANGED jar
    BY DEF RotateCommit
<1>3. /\ \A q \in Requests \ {r} : req'[q] = req[q]
      /\ req'[r].pc = "reply" /\ req'[r].token = n
      /\ req'[r].device = req[r].device /\ req'[r].family = req[r].family
    BY <1>0, <1>1 DEF Request
<1>4. /\ req[r].family \in Families /\ ~tokens[n].revoked
      /\ req[r].token \in Tokens /\ req[r].token # n
    BY <1>0, <1>1, NoneIsFresh DEF Claim, ClaimToken, Owns, Base, GroundInv, Issued
<1>5. tokens'[n].family = req[r].family /\ ~tokens'[n].revoked
  <2> DEFINE spent  == [tokens EXCEPT ![req[r].token].revoked = TRUE]
             linked == [spent EXCEPT ![req[r].token].replacedBy = n]
  <2>1. tokens' = [linked EXCEPT ![n].family = req[r].family]
      BY <1>1
  <2>2. linked[n] = tokens[n] /\ linked[n] \in TokenRow /\ n \in DOMAIN linked
      BY <1>0, <1>4
  <2> HIDE DEF linked
  <2> QED
      BY <1>4, <2>1, <2>2 DEF TokenRow
<1>6. Live(n)'
    BY <1>4, <1>5, NoneIsFresh DEF Live, Issued
<1> QED
    BY <1>2, <1>3, <1>6 DEF Prepares

LEMMA PreparingKeepsSign ==
    ASSUME Base, SignInv, NEW r \in Requests,
           StartRefreshFamily(r) \/ RotateCommit(r)
    PROVE  SignInv'
<1> DEFINE d == req[r].device
           g == req[r].family
<1>1. PICK n \in Tokens : Prepares(r, n)
    BY StartPrepares, CommitPrepares
<1>2. /\ req[r].pc \in {"family", "successor"}
      /\ RotateCommit(r) => req[r].pc = "successor"
    BY Zenon DEF StartRefreshFamily, RotateCommit
<1>3. /\ UNCHANGED jar /\ \A q \in Requests \ {r} : req'[q] = req[q]
      /\ req'[r].pc = "reply" /\ req'[r].token = n /\ Live(n)'
      /\ req'[r].device = d /\ req'[r].family = g
    BY <1>1 DEF Prepares
<1>4. Claim(r) /\ d \in Devices /\ g \in Families
    BY <1>2 DEF Base, IInv, Claim, ClaimFamily, ClaimToken, Owns
<1>5. ASSUME RotateCommit(r)
      PROVE  /\ jar[d].refresh = req[r].token /\ jar[d].refresh # None
             /\ req[r].token \in Tokens /\ tokens[req[r].token].family = g
             /\ jar[d].access = g
  <2>1. /\ jar[d].refresh = req[r].token /\ req[r].token \in Tokens
        /\ tokens[req[r].token].family = g
      BY <1>2, <1>4, <1>5 DEF SignInv, PresentsOwn, Presents, Claim, ClaimToken
  <2>2. jar[d].refresh # None
      BY <2>1, NoneIsFresh
  <2> QED
      BY <1>4, <2>1, <2>2, JarHolds
<1>6. Holds(d, g)
    BY <1>2, <1>4, <1>5 DEF Holds, StartRefreshFamily
<1>7. ASSUME NEW e \in Devices, NEW t \in Tokens, Issued(t), Good(t),
             Holds(e, tokens[t].family), e # d
      PROVE  Good(t)'
  <2>1. ASSUME RotateCommit(r)
        PROVE  t # req[r].token
      BY <1>4, <1>5, <1>6, <1>7, <2>1 DEF SignInv, HeldByOne
  <2> QED
      BY <1>7, <2>1, GoodStays DEF SignInv
<1>8. OneAtATime'
  <2>1. \A q \in Requests : Busy(q)' => Busy(q) /\ req'[q].device = req[q].device
      BY <1>2, <1>3 DEF Busy
  <2> QED
      BY <2>1 DEF SignInv, OneAtATime
<1>9. PresentsOwn'
    BY <1>3 DEF SignInv, PresentsOwn, Presents
<1>10. AnswersGood'
  <2> SUFFICES ASSUME NEW q \in Requests, req'[q].pc = "reply"
               PROVE  Good(req[q].token)'
      BY DEF AnswersGood
  <2>1. CASE q = r
      BY <1>3, <2>1 DEF Good, Live, Issued
  <2>2. CASE q # r
    <3>1. /\ req'[q] = req[q] /\ Good(req[q].token)
          /\ req[q].token \in Tokens /\ Issued(req[q].token)
          /\ req[q].device \in Devices /\ Holds(req[q].device, tokens[req[q].token].family)
        BY <1>3, <2>2, AnswerHolds DEF SignInv, AnswersGood
    <3>2. req[q].device # d
        BY <1>2, <1>3, <2>2 DEF SignInv, OneAtATime, Busy
    <3>3. PICK t \in Tokens : t = req[q].token
        BY <3>1
    <3>4. Good(t)'
        BY <1>7, <3>1, <3>2, <3>3
    <3> QED
        BY <3>1, <3>3, <3>4
  <2> QED
      BY <2>1, <2>2
<1>11. JarsGood'
  <2> SUFFICES ASSUME NEW e \in Devices, jar'[e].refresh # None
               PROVE  \/ Good(jar[e].refresh)'
                      \/ \E q \in Requests : req'[q].pc = "reply" /\ req'[q].device = e
      BY DEF JarsGood
  <2>1. CASE e = d
      BY <1>3, <2>1
  <2>2. CASE e # d
    <3>1. /\ jar'[e].refresh = jar[e].refresh /\ jar[e].refresh \in Tokens
          /\ Issued(jar[e].refresh) /\ Holds(e, tokens[jar[e].refresh].family)
        BY <1>3, JarHolds
    <3>2. PICK t \in Tokens : t = jar[e].refresh
        BY <3>1
    <3>3. ASSUME Good(t)
          PROVE  Good(jar[e].refresh)'
      <4>1. Good(t)'
          BY <1>7, <2>2, <3>1, <3>2, <3>3
      <4> QED
          BY <3>1, <3>2, <4>1
    <3>4. ASSUME NEW q \in Requests, req[q].pc = "reply", req[q].device = e
          PROVE  req'[q].pc = "reply" /\ req'[q].device = e
        BY <1>2, <1>3, <3>4
    <3> QED
        BY <3>1, <3>2, <3>3, <3>4 DEF SignInv, JarsGood
  <2> QED
      BY <2>1, <2>2
<1>12. HeldByOne'
  <2>1. ASSUME NEW e, NEW f, Holds(e, f)'
        PROVE  Holds(e, f)
      BY <1>3, <1>6, <2>1 DEF Holds
  <2> QED
      BY <2>1 DEF SignInv, HeldByOne
<1>13. NoReplays'
    BY ReplaysAreAsked
<1> QED
    BY <1>8, <1>9, <1>10, <1>11, <1>12, <1>13 DEF SignInv

LEMMA RespondingKeepsSign ==
    ASSUME Base, SignInv, NEW r \in Requests, Respond(r)
    PROVE  SignInv'
<1> DEFINE d == req[r].device
<1>0. /\ TypeOK /\ req \in [Requests -> Request] /\ jar \in [Devices -> Jar]
      /\ Grounded(r)
    BY DEF Base, IInv, TypeOK, GroundInv
<1>1. /\ req[r].pc \in {"reply", "clear"}
      /\ jar' = [jar EXCEPT ![d] = Cookies(r)] /\ Done(r)
      /\ UNCHANGED <<tokens, cause>>
    BY DEF Respond
<1>2. /\ req'[r] = IdleReq /\ \A q \in Requests \ {r} : req'[q] = req[q]
    BY <1>0, <1>1 DEF Done
<1>3. Busy(r) /\ d \in Devices
    BY <1>0, <1>1 DEF Busy, Grounded
<1>4. jar'[d] = Cookies(r) /\ \A e \in Devices \ {d} : jar'[e] = jar[e]
    BY <1>0, <1>1, <1>3
<1>5. \A q \in Requests \ {r} : Busy(q) => req[q].device # d
    BY <1>3 DEF SignInv, OneAtATime
<1>6. \A q \in Requests : Busy(q)' => q # r /\ Busy(q) /\ req'[q] = req[q]
    BY <1>2 DEF Busy, IdleReq
<1>7. OneAtATime'
    BY <1>6 DEF SignInv, OneAtATime
<1>8. PresentsOwn'
  <2> SUFFICES ASSUME NEW q \in Requests, Presents(q)'
               PROVE  req'[q].token = jar'[req'[q].device].refresh
      BY DEF PresentsOwn
  <2>1. q # r /\ Busy(q) /\ req'[q] = req[q] /\ Presents(q)
      BY <1>6 DEF Presents, Busy
  <2>2. req[q].device \in Devices \ {d}
      BY <1>5, <2>1 DEF Base, GroundInv, Grounded
  <2> QED
      BY <1>4, <2>1, <2>2 DEF SignInv, PresentsOwn
<1>9. \A q \in Requests : req'[q].pc = "reply" => q # r /\ req'[q] = req[q]
    BY <1>2 DEF IdleReq
<1>10. AnswersGood'
    BY <1>1, <1>9 DEF SignInv, AnswersGood, Good, Live, Issued, Asked
<1>11. JarsGood'
  <2> SUFFICES ASSUME NEW e \in Devices, jar'[e].refresh # None
               PROVE  \/ Good(jar[e].refresh)'
                      \/ \E q \in Requests : req'[q].pc = "reply" /\ req'[q].device = e
      BY DEF JarsGood
  <2>1. CASE e = d
    <3>1. req[r].pc = "reply" /\ jar'[e].refresh = req[r].token
        BY <1>1, <1>4, <2>1 DEF Cookies, NoCookies
    <3>2. Good(req[r].token)
        BY <3>1 DEF SignInv, AnswersGood
    <3> QED
        BY <1>1, <3>1, <3>2 DEF Good, Live, Issued, Asked
  <2>2. CASE e # d
    <3>1. jar'[e] = jar[e]
        BY <1>4, <2>2
    <3>2. Good(jar[e].refresh) => Good(jar[e].refresh)'
        BY <1>1, <3>1 DEF Good, Live, Issued, Asked
    <3>3. ASSUME NEW q \in Requests, req[q].pc = "reply", req[q].device = e
          PROVE  req'[q].pc = "reply" /\ req'[q].device = e
        BY <1>2, <2>2, <3>3
    <3> QED
        BY <3>1, <3>2, <3>3 DEF SignInv, JarsGood
  <2> QED
      BY <2>1, <2>2
<1>12. HeldByOne'
  <2>1. ASSUME NEW e \in Devices, NEW f \in Families, Holds(e, f)'
        PROVE  Holds(e, f)
    <3>1. ASSUME jar'[e].refresh # None, jar'[e].access = f
          PROVE  Holds(e, f)
      <4>1. CASE e # d
          BY <1>4, <3>1, <4>1 DEF Holds
      <4>2. CASE e = d
          BY <1>1, <1>4, <3>1, <4>2 DEF Cookies, NoCookies, Holds
      <4> QED
          BY <4>1, <4>2
    <3>2. ASSUME NEW q \in Requests, req'[q].pc \in {"family", "reply"},
                 req'[q].device = e, req'[q].family = f
          PROVE  Holds(e, f)
        BY <1>2, <3>2 DEF IdleReq, Holds
    <3> QED
        BY <2>1, <3>1, <3>2 DEF Holds
  <2> QED
      BY <2>1 DEF SignInv, HeldByOne
<1>13. NoReplays'
    BY <1>1 DEF SignInv, NoReplays, Asked
<1> QED
    BY <1>7, <1>8, <1>10, <1>11, <1>12, <1>13 DEF SignInv

(* A device that sends one request at a time, and gets its answers, never  *)
(* loses a session as the thief of its own token: not to its other         *)
(* requests, not to other devices, not to a statement that fails.          *)
THEOREM NobodyIsSignedOutUnasked ==
    ASSUME MaxPerDevice = 1, IsFiniteSet(Requests), ~LossyNetwork
    PROVE  Spec => []NoSpuriousSignOut
<1>1. Init => CauseInv /\ SignInv /\ HasToken /\ TypeOK /\ GroundInv
  <2> SUFFICES ASSUME Init PROVE CauseInv /\ SignInv /\ HasToken
      BY InitType, InitGrounded
  <2>1. CauseInv /\ HasToken
      BY DEF Init, IdleReq, NoSession, CauseInv, RevokedForCause, HasCause, HasToken
  <2>2. OneAtATime /\ PresentsOwn /\ AnswersGood /\ NoReplays
      BY DEF Init, IdleReq, OneAtATime, PresentsOwn, AnswersGood, NoReplays, Busy, Presents
  <2>3. JarsGood /\ HeldByOne
      BY DEF Init, IdleReq, NoCookies, JarsGood, HeldByOne, Holds
  <2> QED
      BY <2>1, <2>2, <2>3 DEF SignInv
<1>2. IInv /\ GroundInv /\ CauseInv /\ SignInv /\ [Next]_vars
         => GroundInv' /\ CauseInv' /\ SignInv'
  <2> SUFFICES ASSUME IInv, GroundInv, CauseInv, SignInv, [Next]_vars
               PROVE  GroundInv' /\ CauseInv' /\ SignInv'
      OBVIOUS
  <2>1. Base /\ TypeOK /\ HasToken
      BY ClaimsHasToken DEF Base, IInv
  <2>2. GroundInv' /\ CauseInv'
      BY <2>1, GroundStep, CauseInduction
  <2>3. ASSUME NEW r \in Requests,
               Serve(r) \/ LoseResponse(r)
               \/ FaultAnswered(r) \/ FaultCutsBulk(r) \/ FaultLogged(r)
        PROVE  Working(r) \/ StartRefreshFamily(r) \/ RotateCommit(r) \/ Respond(r)
      BY <2>3, Zenon DEF Serve, Working, LoseResponse
  <2>4. ASSUME NEW r \in Requests,
               Working(r) \/ StartRefreshFamily(r) \/ RotateCommit(r) \/ Respond(r)
        PROVE  SignInv'
      BY <2>1, <2>4, WorkingKeepsSign, PreparingKeepsSign, RespondingKeepsSign
  <2>5. ASSUME (\E f \in Families : Expire(f)) \/ UNCHANGED vars
        PROVE  SignInv'
    <3>1. UNCHANGED <<tokens, jar, req, cause>>
        BY <2>5 DEF Expire, vars
    <3>2. OneAtATime' /\ PresentsOwn'
        BY <3>1 DEF SignInv, OneAtATime, PresentsOwn, Busy, Presents
    <3>3. AnswersGood' /\ NoReplays'
        BY <3>1 DEF SignInv, AnswersGood, NoReplays, Good, Live, Issued, Asked
    <3>4. JarsGood'
        BY <3>1 DEF SignInv, JarsGood, Good, Live, Issued, Asked
    <3>5. HeldByOne'
        BY <3>1 DEF SignInv, HeldByOne, Holds
    <3> QED
        BY <3>2, <3>3, <3>4, <3>5 DEF SignInv
  <2> QED
      BY <2>1, <2>2, <2>3, <2>4, <2>5, SendingKeepsSign DEF Next
<1>3. IInv /\ CauseInv /\ SignInv => NoSpuriousSignOut
    BY CausedIsAsked DEF IInv, CauseInv, SignInv, RevokedForCause, NoSpuriousSignOut, Asked
<1> QED
    BY <1>1, <1>2, <1>3, Safe, PTL DEF Spec

-----------------------------------------------------------------------------
(* The mapping.  The choice in LiveToken is of the one live token there is.*)

LEMMA TheLiveToken ==
    ASSUME OneLiveToken, NEW f, NEW t \in Tokens, Live(t), tokens[t].family = f
    PROVE  LiveToken(f) = t
BY DEF OneLiveToken, LiveToken

LEMMA NoLiveToken ==
    ASSUME NEW f, \A t \in Tokens : Live(t) => tokens[t].family # f
    PROVE  LiveToken(f) = None
BY DEF LiveToken

(* ... and the same one step later.                                        *)
LEMMA TheNextLiveToken ==
    ASSUME OneLiveToken', NEW f, NEW t \in Tokens, Live(t)', tokens'[t].family = f
    PROVE  LiveToken(f)' = t
BY DEF OneLiveToken, LiveToken

LEMMA NoNextLiveToken ==
    ASSUME NEW f, \A t \in Tokens : Live(t)' => tokens'[t].family # f
    PROVE  LiveToken(f)' = None
BY DEF LiveToken

(* A step that leaves the live rows of a family alone leaves its live      *)
(* token.                                                                  *)
LEMMA SameLiveToken ==
    ASSUME OneLiveToken, OneLiveToken', NEW f,
           \A t \in Tokens : (Live(t) /\ tokens[t].family = f)
                                <=> (Live(t)' /\ tokens'[t].family = f)
    PROVE  LiveToken(f)' = LiveToken(f)
<1>1. CASE \E t \in Tokens : Live(t) /\ tokens[t].family = f
    BY <1>1, TheLiveToken, TheNextLiveToken
<1>2. CASE \A t \in Tokens : Live(t) => tokens[t].family # f
    BY <1>2, NoLiveToken, NoNextLiveToken
<1> QED
    BY <1>1, <1>2

(* The variables of the store, as Sessions maps them.                      *)
Owner  == [f \in Families |-> sessions[f].user]
Over   == {f \in Families : sessions[f].revoked}
Family == [t \in Tokens |-> tokens[t].family]
Heir   == [t \in Tokens |-> tokens[t].replacedBy]
LiveOf == [f \in Families |-> LiveToken(f)]

LEMMA InitMapped == Init => Store!Init
<1> SUFFICES ASSUME Init PROVE Store!Init
    OBVIOUS
<1>1. \A f \in Families : LiveToken(f) = None
    BY NoLiveToken DEF Init, NoToken, Live, Issued
<1> QED
    BY <1>1 DEF Init, Store!Init, NoToken, NoSession

(* Rows of sessions and live tokens left alone.                            *)
LEMMA SameTokens ==
    ASSUME UNCHANGED tokens
    PROVE  Family' = Family /\ Heir' = Heir /\ LiveOf' = LiveOf
BY DEF Family, Heir, LiveOf, LiveToken, Live, Issued

LEMMA OpenMapped ==
    ASSUME IInv, GroundInv, NEW r \in Requests, NEW d \in Devices, RecordSession(r, d)
    PROVE  \E f \in Families : Store!Open(f, UserOf[d])
<1>0. sessions \in [Families -> SessionRow]
    BY DEF IInv, TypeOK
<1>1. PICK f \in Families :
         ~Recorded(f) /\ sessions' = [sessions EXCEPT ![f] = NewSession(d)]
    BY DEF RecordSession
<1>2. Owner[f] = None /\ Owner' = [Owner EXCEPT ![f] = UserOf[d]]
    BY <1>0, <1>1 DEF Owner, Recorded, NewSession
<1>3. Over' = Over
    BY <1>0, <1>1 DEF Over, GroundInv, NewSession
<1>4. Family' = Family /\ Heir' = Heir /\ LiveOf' = LiveOf
    BY SameTokens DEF RecordSession
<1> QED
    BY <1>2, <1>3, <1>4 DEF Store!Open, Owner, Over, Family, Heir, LiveOf

LEMMA IssueMapped ==
    ASSUME IInv, IInv', GroundInv, NEW r \in Requests, StartRefreshFamily(r)
    PROVE  \E f \in Families, t \in Tokens : Store!Issue(f, t)
<1>0. tokens \in [Tokens -> TokenRow] /\ OneLiveToken /\ OneLiveToken'
    BY DEF IInv, TypeOK
<1> DEFINE f == req[r].family
<1>1. PICK t \in Tokens :
         ~Issued(t) /\ tokens' = [tokens EXCEPT ![t].family = f]
    BY DEF StartRefreshFamily
<1>2. Owns(f, req[r].device) /\ \A s \in Tokens : tokens[s].family # f
    BY DEF StartRefreshFamily, IInv, Claim, ClaimFamily
<1>3. f \in Families /\ Recorded(f) /\ f # None
    BY <1>2, OwnedIsRecorded, NoneIsFresh DEF Owns
<1>4. /\ tokens'[t].family = f /\ ~tokens'[t].revoked
      /\ \A s \in Tokens \ {t} : tokens'[s] = tokens[s]
      /\ \A s \in Tokens : tokens'[s].replacedBy = tokens[s].replacedBy
    BY <1>0, <1>1 DEF TokenRow, GroundInv
<1>5. Family' = [Family EXCEPT ![t] = f] /\ Heir' = Heir
    BY <1>4 DEF Family, Heir
<1>6. \A g : g = f => LiveToken(g)' = t
  <2>1. SUFFICES ASSUME NEW g, g = f PROVE LiveToken(g)' = t
      OBVIOUS
  <2>2. Live(t)' /\ tokens'[t].family = g
      BY <1>3, <1>4, <2>1 DEF Live, Issued
  <2> QED
      BY <1>0, <2>2, TheNextLiveToken
<1>7. ASSUME NEW g \in Families, g # f
      PROVE  LiveToken(g)' = LiveToken(g)
  <2>1. \A s \in Tokens : (Live(s) /\ tokens[s].family = g)
                             <=> (Live(s)' /\ tokens'[s].family = g)
      BY <1>1, <1>4, <1>7 DEF Live, Issued
  <2> QED
      BY <1>0, <2>1, SameLiveToken
<1>8. LiveOf' = [LiveOf EXCEPT ![f] = t]
    BY <1>3, <1>6, <1>7 DEF LiveOf
<1>9. Owner' = Owner /\ Over' = Over
    BY DEF StartRefreshFamily, Owner, Over
<1>10. Owner[f] # None /\ Family[t] = None /\ \A s \in Tokens : Family[s] # f
    BY <1>1, <1>2, <1>3 DEF Owner, Family, Recorded, Issued
<1> QED
    BY <1>3, <1>5, <1>8, <1>9, <1>10 DEF Store!Issue, Owner, Over, Family, Heir, LiveOf

LEMMA RotateMapped ==
    ASSUME IInv, IInv', GroundInv, NEW r \in Requests, RotateCommit(r)
    PROVE  \E f \in Families, n \in Tokens : Store!Rotate(f, n)
<1>0. tokens \in [Tokens -> TokenRow] /\ OneLiveToken /\ OneLiveToken'
    BY DEF IInv, TypeOK
<1>1. PICK f \in Families, s \in Tokens :
         /\ f = req[r].family /\ s = req[r].token
         /\ Live(s) /\ tokens[s].family = f
  <2>1. req[r].pc = "successor" /\ Claim(r)
      BY DEF RotateCommit, IInv
  <2>2. /\ req[r].token \in Tokens /\ req[r].family \in Families
        /\ tokens[req[r].token].family = req[r].family /\ ~tokens[req[r].token].revoked
      BY <2>1 DEF Claim, ClaimToken, ClaimLock, Owns, Live
  <2> QED
      BY <2>2, NoneIsFresh DEF Live, Issued
<1>2. PICK n \in Tokens :
         /\ ~Issued(n)
         /\ tokens' = [tokens EXCEPT ![s].revoked = TRUE, ![s].replacedBy = n,
                                     ![n].family = f]
    BY <1>1 DEF RotateCommit
<1>3. n # s /\ f # None
    BY <1>1, <1>2, NoneIsFresh DEF Live
<1>4. /\ tokens'[n].family = f /\ tokens'[n].replacedBy = tokens[n].replacedBy
      /\ tokens'[n].revoked = tokens[n].revoked
      /\ tokens'[s].family = f /\ tokens'[s].replacedBy = n /\ tokens'[s].revoked
      /\ \A t \in Tokens \ {n, s} : tokens'[t] = tokens[t]
  <2>1. /\ tokens' = [tokens EXCEPT ![s] = [tokens[s] EXCEPT !.revoked = TRUE, !.replacedBy = n],
                                    ![n] = [tokens[n] EXCEPT !.family = f]]
        /\ tokens[n] \in TokenRow /\ tokens[s] \in TokenRow
      BY <1>0, <1>1, <1>2, <1>3
  <2> QED
      BY <1>0, <1>1, <1>3, <2>1 DEF TokenRow
<1>5. Family' = [Family EXCEPT ![n] = f] /\ Heir' = [Heir EXCEPT ![s] = n]
    BY <1>1, <1>4 DEF Family, Heir
<1>6. LiveToken(f) = s
    BY <1>0, <1>1, TheLiveToken
<1>7. ASSUME ~tokens[n].revoked
      PROVE  LiveToken(f)' = n
  <2>1. Live(n)'
      BY <1>3, <1>4, <1>7 DEF Live, Issued
  <2> QED
      BY <1>0, <1>4, <2>1, TheNextLiveToken
<1>8. ASSUME NEW g \in Families, g # f
      PROVE  LiveToken(g)' = LiveToken(g)
  <2>1. \A t \in Tokens : (Live(t) /\ tokens[t].family = g)
                             <=> (Live(t)' /\ tokens'[t].family = g)
      BY <1>1, <1>2, <1>4, <1>8 DEF Live, Issued
  <2> QED
      BY <1>0, <2>1, SameLiveToken
<1>9. ~tokens[n].revoked
    BY <1>2 DEF GroundInv
<1>10. LiveOf[f] = s /\ s # None /\ LiveOf' = [LiveOf EXCEPT ![f] = n]
    BY <1>6, <1>7, <1>8, <1>9, NoneIsFresh DEF LiveOf
<1>11. Owner' = Owner /\ Over' = Over
    BY DEF RotateCommit, Owner, Over
<1>12. Family[n] = None
    BY <1>2 DEF Family, Issued
<1> QED
    BY <1>5, <1>10, <1>11, <1>12 DEF Store!Rotate, Owner, Over, Family, Heir, LiveOf

LEMMA KillMapped ==
    ASSUME IInv, IInv', GroundInv, NEW r \in Requests, RevokeFamilyFinish(r)
    PROVE  Store!Next \/ UNCHANGED Store!store
<1>0. tokens \in [Tokens -> TokenRow] /\ OneLiveToken /\ OneLiveToken'
    BY DEF IInv, TypeOK
<1>1. PICK f \in Families : /\ f = req[r].family
                            /\ \A t \in req[r].snapshot : tokens[t].family = f
    BY DEF RevokeFamilyFinish, GroundInv, Grounded, Ending
<1>2. \A t \in Tokens : /\ tokens'[t].family = tokens[t].family
                        /\ tokens'[t].replacedBy = tokens[t].replacedBy
                        /\ tokens'[t].revoked
                              <=> tokens[t].revoked \/ t \in req[r].snapshot
    BY <1>0 DEF RevokeFamilyFinish, TokenRow
<1>3. /\ Owner' = Owner /\ Over' = Over /\ Family' = Family /\ Heir' = Heir
    BY <1>2 DEF RevokeFamilyFinish, Owner, Over, Family, Heir
<1>4. ASSUME NEW g \in Families,
             g # f \/ ~\E t \in req[r].snapshot : t \in Tokens /\ Live(t)
      PROVE  LiveToken(g)' = LiveToken(g)
  <2>1. \A t \in Tokens : (Live(t) /\ tokens[t].family = g)
                             <=> (Live(t)' /\ tokens'[t].family = g)
      BY <1>1, <1>2, <1>4 DEF Live, Issued
  <2> QED
      BY <1>0, <2>1, SameLiveToken
<1>5. CASE \E t \in req[r].snapshot : t \in Tokens /\ Live(t)
  <2>1. PICK t \in req[r].snapshot : t \in Tokens /\ Live(t)
      BY <1>5
  <2>2. LiveToken(f) = t /\ t # None
      BY <1>0, <1>1, <2>1, TheLiveToken, NoneIsFresh
  <2>3. \A s \in Tokens : Live(s)' => tokens'[s].family # f
    <3>1. SUFFICES ASSUME NEW s \in Tokens, Live(s)', tokens'[s].family = f
                   PROVE  FALSE
        OBVIOUS
    <3>2. Live(s) /\ tokens[s].family = f /\ s \notin req[r].snapshot
        BY <1>2, <3>1 DEF Live, Issued
    <3> QED
        BY <1>0, <1>1, <2>1, <3>2 DEF OneLiveToken
  <2>4. LiveToken(f)' = None
      BY <2>3, NoNextLiveToken
  <2>5. LiveOf[f] # None /\ LiveOf' = [LiveOf EXCEPT ![f] = None]
      BY <1>4, <2>2, <2>4 DEF LiveOf
  <2>6. Store!Kill(f)
      BY <1>3, <2>5 DEF Store!Kill, Owner, Over, Family, Heir, LiveOf
  <2> QED
      BY <2>6 DEF Store!Next
<1>6. CASE ~\E t \in req[r].snapshot : t \in Tokens /\ Live(t)
  <2>1. LiveOf' = LiveOf
      BY <1>4, <1>6 DEF LiveOf
  <2> QED
      BY <1>3, <2>1 DEF Store!store, Owner, Over, Family, Heir, LiveOf
<1> QED
    BY <1>5, <1>6

LEMMA EndMapped ==
    ASSUME IInv, NEW fs \in SUBSET Families, NEW u \in Users,
           \A f \in fs : sessions[f].user = u,
           RevokeRows(fs), UNCHANGED tokens
    PROVE  Store!Next
<1>0. sessions \in [Families -> SessionRow]
    BY DEF IInv, TypeOK
<1>1. Owner' = Owner /\ Over' = Over \cup fs
    BY <1>0 DEF RevokeRows, Owner, Over, SessionRow
<1>2. \E v \in Users : \A f \in fs : Owner[f] = v
    BY DEF Owner
<1>3. Store!End(fs)
    BY <1>1, <1>2, SameTokens DEF Store!End, Owner, Over, Family, Heir, LiveOf
<1> QED
    BY <1>3 DEF Store!Next

LEMMA StepMapped ==
    ASSUME IInv, IInv', GroundInv, [Next]_vars
    PROVE  [Store!Next]_(Store!store)
<1>0. sessions \in [Families -> SessionRow]
    BY DEF IInv, TypeOK
<1>1. ASSUME UNCHANGED <<sessions, tokens>>
      PROVE  UNCHANGED Store!store
    BY <1>1, SameTokens DEF Store!store, Owner, Over, Family, Heir, LiveOf
<1>2. ASSUME NEW r \in Requests, NEW d \in Devices, RecordSession(r, d)
      PROVE  Store!Next
    BY <1>2, OpenMapped, UserOfType DEF Store!Next
<1>3. ASSUME NEW r \in Requests, StartRefreshFamily(r) \/ RotateCommit(r)
      PROVE  Store!Next
    BY <1>3, IssueMapped, RotateMapped DEF Store!Next
<1>4. ASSUME NEW r \in Requests, RevokeRow(r)
      PROVE  Store!Next
  <2>1. /\ req[r].family \in Families /\ sessions[req[r].family].user \in Users
      BY <1>0, <1>4 DEF RevokeRow, GroundInv, Grounded, Ending, Recorded, SessionRow
  <2>2. RevokeRows({req[r].family}) /\ UNCHANGED tokens
      BY <1>0, <1>4 DEF RevokeRow, RevokeRows
  <2> QED
      BY <2>1, <2>2, EndMapped
<1>5. ASSUME NEW r \in Requests, RevokeBulk(r) \/ FaultCutsBulk(r)
      PROVE  Store!Next
  <2>1. UserOf[req[r].device] \in Users
      BY <1>5, UserOfType DEF RevokeBulk, FaultCutsBulk, GroundInv, Grounded, Busy
  <2>2. /\ BulkRows(r) \subseteq Families
        /\ \A f \in BulkRows(r) : sessions[f].user = UserOf[req[r].device]
      BY DEF BulkRows
  <2> QED
      BY <1>5, <2>1, <2>2, EndMapped DEF RevokeBulk, FaultCutsBulk
<1>6. ASSUME NEW r \in Requests, NEW d \in Devices, Send(r, d)
      PROVE  UNCHANGED <<sessions, tokens>> \/ RecordSession(r, d)
    BY <1>6 DEF Send, SendRefresh, SendLogout, SendRevoke, SendBulkRevoke
<1>7. ASSUME NEW r \in Requests, Serve(r)
      PROVE  \/ UNCHANGED <<sessions, tokens>>
             \/ StartRefreshFamily(r) \/ RotateCommit(r) \/ RevokeFamilyFinish(r)
             \/ RevokeRow(r) \/ RevokeBulk(r)
    BY <1>7 DEF Serve, RefreshLookup, RenewRefused, RotateSpend, RotateReused,
                RevokeFamilyStart, LogoutLookup, Admit, RevokeTarget, DrainBatch, Respond
<1>8. ASSUME NEW r \in Requests,
             LoseResponse(r) \/ FaultAnswered(r) \/ FaultLogged(r)
      PROVE  UNCHANGED <<sessions, tokens>>
    BY <1>8 DEF LoseResponse, FaultAnswered, FaultLogged
<1>9. ASSUME (\E f \in Families : Expire(f)) \/ UNCHANGED vars
      PROVE  UNCHANGED <<sessions, tokens>>
    BY <1>9 DEF Expire, vars
<1> QED
    BY <1>1, <1>2, <1>3, <1>4, <1>5, <1>6, <1>7, <1>8, <1>9, KillMapped DEF Next

(* Sessions implements SessionStore for every set of devices and requests, *)
(* whatever they interleave and whichever statement fails: every line of   *)
(* tokens has one live end at most, and a revoked session stays revoked.   *)
THEOREM SessionsImplementStore == Spec => StoreImplemented
<1>1. Init => GroundInv /\ Store!Init
    BY InitGrounded, InitMapped
<1>2. IInv /\ GroundInv /\ [Next]_vars => GroundInv'
    BY GroundStep
<1>3. IInv /\ IInv' /\ GroundInv /\ [Next]_vars => [Store!Next]_(Store!store)
    BY StepMapped
<1> QED
    BY <1>1, <1>2, <1>3, Safe, PTL DEF Spec, StoreImplemented, Store!Spec
=============================================================================
