------------------------------- MODULE Client -------------------------------
(***************************************************************************)
(* The Go API client (src/client/api): calls made side by side over one    *)
(* pair of session cookies.  A call refused with 401 trades the refresh    *)
(* token for a new pair, one exchange at a time, and is replayed once.     *)
(*                                                                         *)
(* The server is the one Sessions models, seen from here: the n-th pair it *)
(* issues is n, the pairs of one sign-in are a family, a refresh token     *)
(* presented twice ends its family, an access token goes stale.  A request *)
(* or an answer may be lost on the way.                                    *)
(***************************************************************************)
EXTENDS Naturals, Sequences, FiniteSets

CONSTANTS MaxPairs    \* bound: pairs of tokens the server issues

VARIABLES
    client,    \* the cookies held, and how often they have changed
    flight,    \* calls that have not been given back to their caller
    server,    \* pairs issued and what became of them; data: writes served
    faults     \* bound: how often a token may go stale or a call may fail

clientVars == <<client, flight, server, faults>>

\* A call: the job it does for its caller, and where it stands.
Call(job) == [job |-> job, pc |-> "ready", gen |-> 0, token |-> 0, replay |-> FALSE,
              result |-> "none", data |-> 0]

Step(c, d) == flight' = (flight \ {c}) \cup {d}
At(c, pc) == Step(c, [c EXCEPT !.pc = pc])
Back(c, r) == Step(c, [c EXCEPT !.pc = "answered", !.result = r])

CanFail == faults > 0
Fault == faults' = faults - 1

-----------------------------------------------------------------------------
(* The cookies.                                                            *)

SetTokens(access, refresh) ==
    client' = IF access = client.access /\ refresh = client.refresh THEN client
              ELSE [access |-> access, refresh |-> refresh, gen |-> client.gen + 1]

ClearSession == SetTokens(0, 0)

-----------------------------------------------------------------------------
(* The server.                                                             *)

Issued == Len(server.family)
Family(n) == server.family[n]
MayIssue == Issued < MaxPairs

SignedIn == [server EXCEPT !.family = Append(@, Issued + 1)]
Rotated(n) == [server EXCEPT !.family = Append(@, Family(n)), !.spent = @ \cup {n}]
Replayed(n) == [server EXCEPT !.ended = @ \cup {Family(n)}, !.reused = @ \cup ({Family(n)} \ server.ended)]
Admits(n) == n # 0 /\ n \notin server.stale /\ Family(n) \notin server.ended

-----------------------------------------------------------------------------
(* One call.                                                               *)

\* The generation is read with the token, so that whoever changes the cookies
\* meanwhile is noticed.  The credential endpoints carry no token.
Send(c) ==
    /\ c.pc = "ready"
    /\ Step(c, [c EXCEPT !.pc = "sent", !.token = client.access,
                         !.gen = IF c.replay THEN @ ELSE client.gen])
    /\ UNCHANGED <<client, server, faults>>

\* A write the server serves counts whether or not its answer arrives.
Admitted(c) == c.pc = "sent" /\ ~c.job.cmd.signsIn /\ Admits(c.token)
Written(c) == IF c.job.cmd.writes THEN [server EXCEPT !.data = @ + 1] ELSE server

Serve(c) ==
    /\ Admitted(c)
    /\ server' = Written(c)
    /\ Step(c, [c EXCEPT !.pc = "answered", !.result = "ok", !.data = server'.data])
    /\ UNCHANGED <<client, faults>>

ServeAndLose(c) ==
    /\ Admitted(c) /\ c.job.cmd.writes
    /\ CanFail /\ Fault
    /\ server' = Written(c)
    /\ Back(c, "failed")
    /\ UNCHANGED client

\* Refused for its contents, by a server in trouble, or lost on the way there.
Fail(c) ==
    /\ c.pc = "sent"
    /\ CanFail /\ Fault
    /\ Back(c, "failed")
    /\ UNCHANGED <<client, server>>

\* A second 401 is reported as it stands.
Refuse(c) ==
    /\ c.pc = "sent" /\ ~c.job.cmd.signsIn /\ ~Admits(c.token)
    /\ IF c.replay THEN Back(c, "unauthorized") ELSE At(c, "refused")
    /\ UNCHANGED <<client, server, faults>>

\* Sign-in: the pair is issued, then recorded from the answer.
SignIn(c) ==
    /\ c.pc = "sent" /\ c.job.cmd.signsIn
    /\ MayIssue
    /\ server' = SignedIn
    /\ Step(c, [c EXCEPT !.pc = "admitted", !.token = Issued + 1])
    /\ UNCHANGED <<client, faults>>

CaptureSignIn(c) ==
    /\ c.pc = "admitted"
    /\ SetTokens(c.token, c.token)
    /\ Back(c, "ok")
    /\ UNCHANGED <<server, faults>>

-----------------------------------------------------------------------------
(* refreshAccess, under the refresh lock.                                  *)

Exchanging == {"exchanging", "issued", "rejected"}
NoLock == TRUE                   \* what if exchanges ran side by side
Unlocked == \A d \in flight : d.pc \notin Exchanging

\* Whoever takes the lock second sees that the generation has moved.
Moved(c) == client.gen # c.gen

LockAndReplay(c) ==
    /\ c.pc = "refused" /\ Unlocked /\ Moved(c)
    /\ Step(c, [c EXCEPT !.pc = "ready", !.replay = TRUE])
    /\ UNCHANGED <<client, server, faults>>

LockAndGiveUp(c) ==
    /\ c.pc = "refused" /\ Unlocked /\ ~Moved(c)
    /\ client.refresh = 0
    /\ Back(c, "unauthorized")
    /\ UNCHANGED <<client, server, faults>>

LockAndExchange(c) ==
    /\ c.pc = "refused" /\ Unlocked /\ ~Moved(c)
    /\ client.refresh # 0
    /\ Step(c, [c EXCEPT !.pc = "exchanging", !.token = client.refresh])
    /\ UNCHANGED <<client, server, faults>>

Rotate(c) ==
    /\ c.pc = "exchanging"
    /\ c.token \notin server.spent /\ Family(c.token) \notin server.ended
    /\ MayIssue
    /\ server' = Rotated(c.token)
    /\ Step(c, [c EXCEPT !.pc = "issued", !.token = Issued + 1])
    /\ UNCHANGED <<client, faults>>

\* A token that was spent before ends its family; the answer clears the cookies.
Reject(c) ==
    /\ c.pc = "exchanging"
    /\ c.token \in server.spent \/ Family(c.token) \in server.ended
    /\ server' = Replayed(c.token)
    /\ At(c, "rejected")
    /\ UNCHANGED <<client, faults>>

\* A transient failure leaves the tokens in place for the next 401.
ExchangeFails(c) ==
    /\ c.pc = "exchanging"
    /\ CanFail /\ Fault
    /\ Back(c, "failed")
    /\ UNCHANGED <<client, server>>

\* The family moved on and the client does not know: the next exchange reuses.
LoseExchange(c) ==
    /\ c.pc = "issued"
    /\ CanFail /\ Fault
    /\ server' = [server EXCEPT !.lost = @ \cup {Family(c.token)}]
    /\ Back(c, "failed")
    /\ UNCHANGED client

CaptureExchange(c) ==
    /\ c.pc = "issued"
    /\ SetTokens(c.token, c.token)
    /\ Step(c, [c EXCEPT !.pc = "ready", !.replay = TRUE])
    /\ UNCHANGED <<server, faults>>

CaptureRejection(c) ==
    /\ c.pc = "rejected"
    /\ ClearSession
    /\ Back(c, "unauthorized")
    /\ UNCHANGED <<server, faults>>

-----------------------------------------------------------------------------
(* Time: every access token issued so far is past its quarter of an hour,  *)
(* or a sign-in is revoked from another device.                            *)

GoStale ==
    /\ CanFail /\ Fault
    /\ 1 .. Issued # server.stale
    /\ server' = [server EXCEPT !.stale = 1 .. Issued]
    /\ UNCHANGED <<client, flight>>

EndElsewhere ==
    /\ CanFail /\ Fault
    /\ \E f \in {Family(n) : n \in 1 .. Issued} \ server.ended :
          server' = [server EXCEPT !.ended = @ \cup {f}]
    /\ UNCHANGED <<client, flight>>

CallNext(c) ==
    \/ Send(c) \/ Serve(c) \/ ServeAndLose(c) \/ Fail(c) \/ Refuse(c)
    \/ SignIn(c) \/ CaptureSignIn(c)
    \/ LockAndReplay(c) \/ LockAndGiveUp(c) \/ LockAndExchange(c)
    \/ Rotate(c) \/ Reject(c) \/ ExchangeFails(c) \/ LoseExchange(c)
    \/ CaptureExchange(c) \/ CaptureRejection(c)

ClientNext == (\E c \in flight : CallNext(c)) \/ GoStale \/ EndElsewhere

-----------------------------------------------------------------------------
(* A sign-in is ended for a refresh token used twice only after an answer  *)
(* to an exchange was lost: calls refused together trade the token once,   *)
(* whoever signs out or in meanwhile (refreshAccess, client.go:411).       *)
NoSelfReuse == server.reused \subseteq server.lost
=============================================================================
