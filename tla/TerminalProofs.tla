---------------------------- MODULE TerminalProofs ----------------------------
(* The client never ends its own sign-in by trading a refresh token twice,    *)
(* however many calls are refused together, and whatever keys the user        *)
(* presses meanwhile.                                                         *)
(* A form that waits for an answer has a call of its own under way.           *)
(* What a screen marked fresh shows is as new as the newest write heard of.    *)
EXTENDS Terminal, FiniteSetTheorems, TLAPS

Made(j, p, g, t, y, r, n) ==
    [job |-> j, pc |-> p, gen |-> g, token |-> t, replay |-> y, result |-> r, data |-> n]

IsCall(c) == \E j, p, g, t, y, r, n : c = Made(j, p, g, t, y, r, n)

IsServer == server = [family |-> server.family, spent |-> server.spent, stale |-> server.stale,
                      ended |-> server.ended, reused |-> server.reused, lost |-> server.lost,
                      data |-> server.data]

Pairs == 1 .. Issued

(* A call that has a pair the client has not recorded yet.                    *)
Minted(c) == c.pc \in {"admitted", "issued"}

(* The client may present this token: if it was traded, its sign-in is over,  *)
(* or the answer to the trade was lost.                                       *)
Gone(n) == Family(n) \in server.lost \cup server.ended

TypeInv ==
    /\ IsServer
    /\ server.family \in Seq(Nat)
    /\ server.spent \subseteq Pairs
    /\ client.refresh \in 0 .. Issued
    /\ \A c \in flight : IsCall(c)
    /\ \A c \in flight : c.pc \in Exchanging \cup {"admitted"} => c.token \in Pairs

(* One exchange at a time.                                                    *)
OneExchange == \A c, d \in flight : c.pc \in Exchanging /\ d.pc \in Exchanging => c = d

(* A pair on its way to the client is known to nobody else.                   *)
MintedIsNew ==
    \A c \in flight : Minted(c) =>
        /\ c.token \notin server.spent
        /\ c.token # client.refresh
        /\ \A d \in flight : d.pc = "exchanging" => d.token # c.token
        /\ \A d \in flight : Minted(d) /\ d.token = c.token => d = c

PresentedIsFresh ==
    \A c \in flight : c.pc = "exchanging" /\ c.token \in server.spent => Gone(c.token)

Replaced(n) == \E d \in flight : d.pc = "issued" /\ Family(d.token) = Family(n)

HeldIsFresh ==
    client.refresh \in server.spent => Gone(client.refresh) \/ Replaced(client.refresh)

ReuseInv ==
    /\ TypeInv
    /\ OneExchange
    /\ MintedIsNew
    /\ PresentedIsFresh
    /\ HeldIsFresh
    /\ NoSelfReuse

-----------------------------------------------------------------------------
(* Steps that neither issue nor record a pair.                                *)

Quiet ==
    /\ IsServer'
    /\ server'.family = server.family /\ server'.spent = server.spent
    /\ server'.lost = server.lost /\ server'.reused = server.reused
    /\ server.ended \subseteq server'.ended
    /\ client'.refresh \in {client.refresh, 0}
    /\ \A d \in flight' : d \in flight \/ (IsCall(d) /\ d.pc \notin Exchanging \cup {"admitted"})
    /\ \A d \in flight : d.pc = "issued" => d \in flight'

LEMMA QuietKeepsReuse ==
    ASSUME ReuseInv, Quiet
    PROVE  ReuseInv'
<1>0. Issued' = Issued /\ Pairs' = Pairs /\ Len(server.family) \in Nat
    BY DEF Quiet, Issued, Pairs, ReuseInv, TypeInv
<1>1. TypeInv'
    BY <1>0 DEF Quiet, ReuseInv, TypeInv, Issued, Pairs
<1>2. OneExchange'
    BY DEF Quiet, ReuseInv, OneExchange
<1>3. MintedIsNew'
  <2>1. \A c \in flight' : Minted(c) => c \in flight /\ c.token \in Pairs
      BY DEF Quiet, Minted, Exchanging, ReuseInv, TypeInv
  <2>2. \A d \in flight' : d.pc = "exchanging" => d \in flight
      BY DEF Quiet, Exchanging
  <2> QED
      BY <1>0, <2>1, <2>2 DEF ReuseInv, MintedIsNew, Quiet, Minted, Pairs, Issued
<1>4. PresentedIsFresh'
    BY DEF Quiet, ReuseInv, PresentedIsFresh, Gone, Family, Exchanging
<1>5. HeldIsFresh'
  <2>1. CASE client'.refresh = client.refresh
      BY <2>1 DEF Quiet, ReuseInv, HeldIsFresh, Gone, Replaced, Family
  <2>2. CASE client'.refresh = 0
      BY <1>0, <2>2 DEF Quiet, ReuseInv, TypeInv, HeldIsFresh, Pairs, Issued
  <2> QED
      BY <2>1, <2>2 DEF Quiet
<1>6. NoSelfReuse'
    BY DEF Quiet, ReuseInv, NoSelfReuse
<1> QED
    BY <1>1, <1>2, <1>3, <1>4, <1>5, <1>6 DEF ReuseInv

(* A call moves on without a pair in hand.                                    *)
LEMMA PlainMoveIsQuiet ==
    ASSUME ReuseInv, NEW c \in flight, c.pc # "issued", NEW d, IsCall(d),
           d.pc \notin Exchanging \cup {"admitted"}, Step(c, d),
           client'.refresh \in {client.refresh, 0},
           server' = server \/ \E n : server' = [server EXCEPT !.data = n]
    PROVE  Quiet
<1>1. /\ IsServer'
      /\ server'.family = server.family /\ server'.spent = server.spent
      /\ server'.lost = server.lost /\ server'.reused = server.reused
      /\ server'.ended = server.ended
    BY DEF ReuseInv, TypeInv, IsServer
<1>2. flight' = (flight \ {c}) \cup {d}
    BY DEF Step
<1> QED
    BY <1>1, <1>2 DEF Quiet

LEMMA CookiesAreCleared ==
    ASSUME ClearSession
    PROVE  client'.refresh = 0
BY DEF ClearSession, SetTokens

(* How the actions write a call back, a field at a time and several at once.  *)
Kept(d, p, t) == IsCall(d) /\ d.pc = p /\ d.token = t

LEMMA Fields ==
    ASSUME NEW c, IsCall(c), NEW v
    PROVE  /\ Kept([c EXCEPT !.pc = v], v, c.token)
           /\ Kept([c EXCEPT !.token = v], c.pc, v)
           /\ Kept([c EXCEPT !.gen = v], c.pc, c.token)
           /\ Kept([c EXCEPT !.replay = v], c.pc, c.token)
           /\ Kept([c EXCEPT !.result = v], c.pc, c.token)
           /\ Kept([c EXCEPT !.data = v], c.pc, c.token)
<1>1. PICK j, p, g, t, y, r, n : c = Made(j, p, g, t, y, r, n)
    BY DEF IsCall
<1>2. c.pc = p /\ c.token = t
    BY <1>1 DEF Made
<1>3. /\ Made(j, v, g, t, y, r, n).pc = v /\ Made(j, v, g, t, y, r, n).token = t
      /\ Made(j, p, g, v, y, r, n).pc = p /\ Made(j, p, g, v, y, r, n).token = v
      /\ Made(j, p, v, t, y, r, n).pc = p /\ Made(j, p, v, t, y, r, n).token = t
      /\ Made(j, p, g, t, v, r, n).pc = p /\ Made(j, p, g, t, v, r, n).token = t
      /\ Made(j, p, g, t, y, v, n).pc = p /\ Made(j, p, g, t, y, v, n).token = t
      /\ Made(j, p, g, t, y, r, v).pc = p /\ Made(j, p, g, t, y, r, v).token = t
    BY DEF Made
<1>4. [c EXCEPT !.pc = v] = Made(j, v, g, t, y, r, n)
    BY <1>1 DEF Made
<1>5. [c EXCEPT !.token = v] = Made(j, p, g, v, y, r, n)
    BY <1>1 DEF Made
<1>6. [c EXCEPT !.gen = v] = Made(j, p, v, t, y, r, n)
    BY <1>1 DEF Made
<1>7. [c EXCEPT !.replay = v] = Made(j, p, g, t, v, r, n)
    BY <1>1 DEF Made
<1>8. [c EXCEPT !.result = v] = Made(j, p, g, t, y, v, n)
    BY <1>1 DEF Made
<1>9. [c EXCEPT !.data = v] = Made(j, p, g, t, y, r, v)
    BY <1>1 DEF Made
<1> QED
    BY <1>2, <1>3, <1>4, <1>5, <1>6, <1>7, <1>8, <1>9 DEF Kept, IsCall

LEMMA Moves ==
    ASSUME NEW c, IsCall(c), NEW p, NEW t, NEW g, NEW r, NEW n
    PROVE  /\ Kept([c EXCEPT !.pc = p], p, c.token)
           /\ Kept([c EXCEPT !.pc = p, !.token = t], p, t)
           /\ Kept([c EXCEPT !.pc = p, !.token = t, !.gen = g], p, t)
           /\ Kept([c EXCEPT !.pc = p, !.replay = r], p, c.token)
           /\ Kept([c EXCEPT !.pc = p, !.result = r], p, c.token)
           /\ Kept([c EXCEPT !.pc = p, !.result = r, !.data = n], p, c.token)
<1> DEFINE a == [c EXCEPT !.pc = p]
           b == [a EXCEPT !.token = t]
           d == [a EXCEPT !.result = r]
<1>1. Kept(a, p, c.token)
    BY Fields
<1>2. IsCall(a) /\ a.pc = p /\ a.token = c.token
    BY <1>1 DEF Kept
<1> HIDE DEF a
<1>3. Kept(b, p, t) /\ Kept([a EXCEPT !.replay = r], p, c.token) /\ Kept(d, p, c.token)
    BY <1>2, Fields
<1>4. IsCall(b) /\ b.pc = p /\ b.token = t /\ IsCall(d) /\ d.pc = p /\ d.token = c.token
    BY <1>3 DEF Kept
<1> HIDE DEF b, d
<1>5. Kept([b EXCEPT !.gen = g], p, t) /\ Kept([d EXCEPT !.data = n], p, c.token)
    BY <1>4, Fields
<1>6. /\ [c EXCEPT !.pc = p, !.token = t] = b
      /\ [c EXCEPT !.pc = p, !.token = t, !.gen = g] = [b EXCEPT !.gen = g]
      /\ [c EXCEPT !.pc = p, !.replay = r] = [a EXCEPT !.replay = r]
      /\ [c EXCEPT !.pc = p, !.result = r] = d
      /\ [c EXCEPT !.pc = p, !.result = r, !.data = n] = [d EXCEPT !.data = n]
    BY DEF a, b, d
<1> QED
    BY <1>1, <1>3, <1>5, <1>6 DEF a

(* A request, its answer, and the answer of an exchange that brought nothing. *)
LEMMA PlainCallsAreQuiet ==
    ASSUME ReuseInv, NEW c \in flight,
           \/ Send(c) \/ Serve(c) \/ ServeAndLose(c) \/ Fail(c) \/ Refuse(c)
           \/ LockAndReplay(c) \/ LockAndGiveUp(c) \/ ExchangeFails(c) \/ CaptureRejection(c)
    PROVE  Quiet
<1>1. IsCall(c)
    BY DEF ReuseInv, TypeInv
<1> DEFINE Plain(d) == IsCall(d) /\ d.pc \notin Exchanging \cup {"admitted"} /\ Step(c, d)
<1>2. c.pc # "issued" /\ \E d : Plain(d)
  <2>1. CASE Send(c)
    <3>1. PICK g : Step(c, [c EXCEPT !.pc = "sent", !.token = client.access, !.gen = g])
        BY <2>1 DEF Send
    <3>2. Kept([c EXCEPT !.pc = "sent", !.token = client.access, !.gen = g], "sent", client.access)
        BY <1>1, Moves
    <3> QED
        BY <2>1, <3>1, <3>2 DEF Send, Exchanging, Kept
  <2>2. CASE Serve(c)
    <3>1. PICK n : Step(c, [c EXCEPT !.pc = "answered", !.result = "ok", !.data = n])
        BY <2>2 DEF Serve
    <3>2. Kept([c EXCEPT !.pc = "answered", !.result = "ok", !.data = n], "answered", c.token)
        BY <1>1, Moves
    <3> QED
        BY <2>2, <3>1, <3>2 DEF Serve, Admitted, Exchanging, Kept
  <2>3. ASSUME NEW r, Back(c, r)
        PROVE  \E d : Plain(d)
    <3>1. Kept([c EXCEPT !.pc = "answered", !.result = r], "answered", c.token)
        BY <1>1, Moves
    <3> QED
        BY <2>3, <3>1 DEF Exchanging, Back, Kept
  <2>4. CASE \/ ServeAndLose(c) \/ Fail(c) \/ LockAndGiveUp(c) \/ ExchangeFails(c)
             \/ CaptureRejection(c)
      BY <2>3, <2>4 DEF ServeAndLose, Admitted, Fail, LockAndGiveUp, ExchangeFails, CaptureRejection
  <2>5. ASSUME At(c, "refused")
        PROVE  \E d : Plain(d)
    <3>1. Kept([c EXCEPT !.pc = "refused"], "refused", c.token)
        BY <1>1, Moves
    <3> QED
        BY <2>5, <3>1 DEF Exchanging, At, Kept
  <2>6. CASE Refuse(c)
      BY <2>3, <2>5, <2>6 DEF Refuse
  <2>7. CASE LockAndReplay(c)
    <3>1. Kept([c EXCEPT !.pc = "ready", !.replay = TRUE], "ready", c.token)
        BY <1>1, Moves
    <3> QED
        BY <2>7, <3>1 DEF LockAndReplay, Exchanging, Kept
  <2> QED
      BY <2>1, <2>2, <2>4, <2>6, <2>7
<1>3. client' = client \/ ClearSession
    BY DEF Send, Serve, ServeAndLose, Fail, Refuse, LockAndReplay, LockAndGiveUp, ExchangeFails,
           CaptureRejection
<1>4. server' = server \/ \E n : server' = [server EXCEPT !.data = n]
    BY DEF Send, Serve, ServeAndLose, Written, Fail, Refuse, LockAndReplay, LockAndGiveUp,
           ExchangeFails, CaptureRejection
<1> QED
    BY <1>2, <1>3, <1>4, CookiesAreCleared, PlainMoveIsQuiet

LEMMA WorldIsQuiet ==
    ASSUME ReuseInv, GoStale \/ EndElsewhere
    PROVE  Quiet
<1>1. UNCHANGED <<client, flight>>
    BY DEF GoStale, EndElsewhere
<1>2. CASE server' = [server EXCEPT !.stale = 1 .. Issued]
    BY <1>1, <1>2 DEF ReuseInv, TypeInv, IsServer, Quiet
<1>3. ASSUME NEW f, server' = [server EXCEPT !.ended = @ \cup {f}]
      PROVE  Quiet
    BY <1>1, <1>3 DEF ReuseInv, TypeInv, IsServer, Quiet
<1> QED
    BY <1>2, <1>3 DEF GoStale, EndElsewhere

-----------------------------------------------------------------------------
(* Steps that issue a pair, present one, or record one.                       *)

LEMMA SessionGrows ==
    ASSUME ReuseInv, NEW f \in Nat, server'.family = Append(server.family, f)
    PROVE  /\ Issued \in Nat /\ Issued' = Issued + 1
           /\ server'.family \in Seq(Nat)
           /\ \A n \in Pairs : Family(n)' = Family(n) /\ n \in Pairs' /\ n # Issued + 1
           /\ server'.family[Issued + 1] = f /\ Issued + 1 \in Pairs'
           /\ f \in Nat /\ client.refresh # Issued + 1 /\ client.refresh \in 0 .. Issued'
<1> DEFINE s == server.family
<1>1. s \in Seq(Nat) /\ client.refresh \in 0 .. Len(s)
    BY DEF ReuseInv, TypeInv, Issued
<1>2. /\ Append(s, f) \in Seq(Nat) /\ Len(Append(s, f)) = Len(s) + 1 /\ Len(s) \in Nat
      /\ \A n \in 1 .. Len(s) : Append(s, f)[n] = s[n]
      /\ Append(s, f)[Len(s) + 1] = f
    BY <1>1
<1>3. Issued = Len(s) /\ Issued' = Len(s) + 1 /\ Pairs = 1 .. Len(s) /\ Pairs' = 1 .. (Len(s) + 1)
    BY <1>2 DEF Issued, Pairs
<1>4. \A n \in Pairs : Family(n)' = Family(n)
    BY <1>2, <1>3 DEF Family
<1> HIDE DEF s
<1>5. \A n \in Pairs : n \in Pairs' /\ n # Issued + 1
    BY <1>2, <1>3
<1>6. Issued + 1 \in Pairs' /\ client.refresh # Issued + 1 /\ client.refresh \in 0 .. Issued'
    BY <1>1, <1>2, <1>3
<1> QED
    BY <1>2, <1>3, <1>4, <1>5, <1>6 DEF s

LEMMA SignInKeepsReuse ==
    ASSUME ReuseInv, NEW c \in flight, SignIn(c)
    PROVE  ReuseInv'
<1> DEFINE d == [c EXCEPT !.pc = "admitted", !.token = Issued + 1]
<1>0. Kept(d, "admitted", Issued + 1)
    BY Moves DEF ReuseInv, TypeInv
<1>1. IsCall(d) /\ d.pc = "admitted" /\ d.token = Issued + 1
    BY <1>0 DEF Kept
<1>2. flight' = (flight \ {c}) \cup {d} /\ UNCHANGED client /\ c.pc = "sent"
    BY DEF SignIn, Step
<1> HIDE DEF d
<1>3. /\ IsServer' /\ server'.family = Append(server.family, Issued + 1)
      /\ server'.spent = server.spent /\ server'.ended = server.ended
      /\ server'.reused = server.reused /\ server'.lost = server.lost
    BY DEF SignIn, SignedIn, ReuseInv, TypeInv, IsServer
<1>4. Issued + 1 \in Nat
    BY DEF ReuseInv, TypeInv, Issued
<1>5. /\ \A n \in Pairs : Family(n)' = Family(n) /\ n \in Pairs' /\ n # Issued + 1
      /\ server'.family \in Seq(Nat) /\ Issued + 1 \in Pairs'
      /\ client.refresh # Issued + 1 /\ client.refresh \in 0 .. Issued'
    BY <1>3, <1>4, SessionGrows
<1>6. TypeInv'
    BY <1>1, <1>2, <1>3, <1>5 DEF ReuseInv, TypeInv
<1>7. OneExchange'
    BY <1>1, <1>2 DEF ReuseInv, OneExchange, Exchanging
<1>8. MintedIsNew'
    BY <1>1, <1>2, <1>3, <1>5 DEF ReuseInv, TypeInv, MintedIsNew, Minted, Exchanging
<1>9. PresentedIsFresh'
    BY <1>1, <1>2, <1>3, <1>5 DEF ReuseInv, TypeInv, PresentedIsFresh, Gone, Exchanging
<1>10. HeldIsFresh'
    BY <1>1, <1>2, <1>3, <1>5 DEF ReuseInv, TypeInv, HeldIsFresh, Gone, Replaced, Exchanging
<1>11. NoSelfReuse'
    BY <1>3 DEF ReuseInv, NoSelfReuse
<1> QED
    BY <1>6, <1>7, <1>8, <1>9, <1>10, <1>11 DEF ReuseInv

LEMMA CaptureKeepsReuse ==
    ASSUME ReuseInv, NEW c \in flight, CaptureSignIn(c) \/ CaptureExchange(c)
    PROVE  ReuseInv'
<1>1. Minted(c) /\ UNCHANGED server
    BY DEF CaptureSignIn, CaptureExchange, Minted
<1>2. client'.refresh = c.token
    BY DEF CaptureSignIn, CaptureExchange, SetTokens
<1>3. PICK d : IsCall(d) /\ d.pc \in {"answered", "ready"} /\ flight' = (flight \ {c}) \cup {d}
  <2>1. CASE CaptureSignIn(c)
    <3>1. Kept([c EXCEPT !.pc = "answered", !.result = "ok"], "answered", c.token)
        BY Moves DEF ReuseInv, TypeInv
    <3> QED
        BY <2>1, <3>1 DEF CaptureSignIn, Back, Step, Kept
  <2>2. CASE CaptureExchange(c)
    <3>1. Kept([c EXCEPT !.pc = "ready", !.replay = TRUE], "ready", c.token)
        BY Moves DEF ReuseInv, TypeInv
    <3> QED
        BY <2>2, <3>1 DEF CaptureExchange, Step, Kept
  <2> QED
      BY <2>1, <2>2
<1>4. c.token \in Pairs /\ c.token \notin server.spent
    BY <1>1 DEF ReuseInv, TypeInv, MintedIsNew, Minted, Exchanging
<1>5. TypeInv'
    BY <1>1, <1>2, <1>3, <1>4 DEF ReuseInv, TypeInv, Exchanging, Issued, Pairs, IsServer
<1>6. OneExchange'
    BY <1>3 DEF ReuseInv, OneExchange, Exchanging
<1>7. MintedIsNew'
    BY <1>1, <1>2, <1>3 DEF ReuseInv, MintedIsNew, Minted
<1>8. PresentedIsFresh'
    BY <1>1, <1>3 DEF ReuseInv, PresentedIsFresh, Gone, Family
<1>9. HeldIsFresh'
    BY <1>1, <1>2, <1>4 DEF HeldIsFresh
<1>10. NoSelfReuse'
    BY <1>1 DEF ReuseInv, NoSelfReuse
<1> QED
    BY <1>5, <1>6, <1>7, <1>8, <1>9, <1>10 DEF ReuseInv

LEMMA PresentKeepsReuse ==
    ASSUME ReuseInv, NEW c \in flight, LockAndExchange(c)
    PROVE  ReuseInv'
<1> DEFINE d == [c EXCEPT !.pc = "exchanging", !.token = client.refresh]
<1>0. Kept(d, "exchanging", client.refresh)
    BY Moves DEF ReuseInv, TypeInv
<1>1. IsCall(d) /\ d.pc = "exchanging" /\ d.token = client.refresh
    BY <1>0 DEF Kept
<1>2. flight' = (flight \ {c}) \cup {d} /\ UNCHANGED <<client, server>> /\ client.refresh # 0
    BY DEF LockAndExchange, Step
<1> HIDE DEF d
<1>3. \A e \in flight : e.pc \notin Exchanging
    BY DEF LockAndExchange, Unlocked
<1>4. client.refresh \in Pairs /\ Pairs' = Pairs /\ Issued' = Issued
    BY <1>2 DEF ReuseInv, TypeInv, Pairs, Issued
<1>5. client.refresh \in server.spent => Gone(client.refresh)
    BY <1>3 DEF ReuseInv, HeldIsFresh, Replaced, Exchanging
<1>6. TypeInv'
    BY <1>1, <1>2, <1>4 DEF ReuseInv, TypeInv, IsServer
<1>7. OneExchange'
    BY <1>1, <1>2, <1>3 DEF OneExchange
<1>8. MintedIsNew'
    BY <1>1, <1>2, <1>3 DEF ReuseInv, MintedIsNew, Minted, Exchanging
<1>9. PresentedIsFresh'
    BY <1>1, <1>2, <1>3, <1>5 DEF PresentedIsFresh, Gone, Family, Exchanging
<1>10. HeldIsFresh'
    BY <1>2, <1>5 DEF HeldIsFresh, Gone, Family
<1>11. NoSelfReuse'
    BY <1>2 DEF ReuseInv, NoSelfReuse
<1> QED
    BY <1>6, <1>7, <1>8, <1>9, <1>10, <1>11 DEF ReuseInv

(* The pair that replaces the one held is on its way.                         *)
LEMMA RotateKeepsReuse ==
    ASSUME ReuseInv, NEW c \in flight, Rotate(c)
    PROVE  ReuseInv'
<1> DEFINE d == [c EXCEPT !.pc = "issued", !.token = Issued + 1]
<1>0. Kept(d, "issued", Issued + 1)
    BY Moves DEF ReuseInv, TypeInv
<1>1. IsCall(d) /\ d.pc = "issued" /\ d.token = Issued + 1
    BY <1>0 DEF Kept
<1>2. flight' = (flight \ {c}) \cup {d} /\ UNCHANGED client /\ c.pc = "exchanging"
    BY DEF Rotate, Step
<1> HIDE DEF d
<1>3. /\ IsServer' /\ server'.family = Append(server.family, Family(c.token))
      /\ server'.spent = server.spent \cup {c.token} /\ server'.ended = server.ended
      /\ server'.reused = server.reused /\ server'.lost = server.lost
    BY DEF Rotate, Rotated, ReuseInv, TypeInv, IsServer
<1>4. c.token \in Pairs /\ Family(c.token) \in Nat
    BY <1>2 DEF ReuseInv, TypeInv, Exchanging, Family, Issued, Pairs
<1>5. /\ \A n \in Pairs : Family(n)' = Family(n) /\ n \in Pairs' /\ n # Issued + 1
      /\ server'.family \in Seq(Nat) /\ Issued + 1 \in Pairs'
      /\ server'.family[Issued + 1] = Family(c.token)
      /\ client.refresh # Issued + 1 /\ client.refresh \in 0 .. Issued'
    BY <1>3, <1>4, SessionGrows
<1>6. \A e \in flight \ {c} : e.pc \notin Exchanging
    BY <1>2 DEF ReuseInv, OneExchange, Exchanging
<1>7. TypeInv'
    BY <1>1, <1>2, <1>3, <1>4, <1>5 DEF ReuseInv, TypeInv
<1>8. OneExchange'
    BY <1>1, <1>2, <1>6 DEF OneExchange
<1>9. MintedIsNew'
  <2>1. Issued + 1 \notin server'.spent
      BY <1>3, <1>4, <1>5 DEF ReuseInv, TypeInv
  <2>2. \A e \in flight : Minted(e) => e.token \notin server'.spent
      BY <1>2, <1>3 DEF ReuseInv, MintedIsNew
  <2>3. \A e \in flight' : e.pc # "exchanging"
      BY <1>1, <1>2, <1>6 DEF Exchanging
  <2>4. \A e \in flight : Minted(e) => e.token # Issued + 1 /\ e.token # client.refresh
      BY <1>5 DEF ReuseInv, TypeInv, MintedIsNew, Minted, Exchanging
  <2> QED
      BY <1>1, <1>2, <1>5, <2>1, <2>2, <2>3, <2>4 DEF ReuseInv, MintedIsNew, Minted
<1>10. PresentedIsFresh'
    BY <1>1, <1>2, <1>6 DEF PresentedIsFresh, Exchanging
<1>11. HeldIsFresh'
  <2>1. CASE client.refresh = c.token
    <3>1. server'.family[d.token] = server'.family[client'.refresh]
        BY <1>1, <1>2, <1>4, <1>5, <2>1 DEF Family
    <3>2. Replaced(client.refresh)'
        BY <1>1, <1>2, <3>1 DEF Replaced, Family
    <3> QED
        BY <3>2 DEF HeldIsFresh
  <2>2. CASE client.refresh \in server.spent
    <3>1. ~Replaced(client.refresh)
        BY <1>2, <1>6 DEF Replaced, Exchanging
    <3>2. Gone(client.refresh)'
        BY <1>2, <1>3, <1>5, <2>2, <3>1 DEF ReuseInv, TypeInv, HeldIsFresh, Gone
    <3> QED
        BY <3>2 DEF HeldIsFresh
  <2> QED
      BY <1>2, <1>3, <2>1, <2>2 DEF HeldIsFresh
<1>12. NoSelfReuse'
    BY <1>3 DEF ReuseInv, NoSelfReuse
<1> QED
    BY <1>7, <1>8, <1>9, <1>10, <1>11, <1>12 DEF ReuseInv

(* A token rejected in a sign-in that was still alive was traded by an        *)
(* exchange whose answer was lost.                                            *)
LEMMA RejectKeepsReuse ==
    ASSUME ReuseInv, NEW c \in flight, Reject(c)
    PROVE  ReuseInv'
<1> DEFINE d == [c EXCEPT !.pc = "rejected"]
<1>0. Kept(d, "rejected", c.token)
    BY Moves DEF ReuseInv, TypeInv
<1>1. IsCall(d) /\ d.pc = "rejected" /\ d.token = c.token
    BY <1>0 DEF Kept
<1>2. flight' = (flight \ {c}) \cup {d} /\ UNCHANGED client /\ c.pc = "exchanging"
    BY DEF Reject, At, Step
<1> HIDE DEF d
<1>3. /\ IsServer' /\ server'.family = server.family /\ server'.spent = server.spent
      /\ server'.ended = server.ended \cup {Family(c.token)} /\ server'.lost = server.lost
      /\ server'.reused = server.reused \cup ({Family(c.token)} \ server.ended)
    BY DEF Reject, Replayed, ReuseInv, TypeInv, IsServer
<1>4. Family(c.token) \in server.ended \cup server.lost
    BY <1>2 DEF Reject, ReuseInv, PresentedIsFresh, Gone
<1>5. TypeInv'
    BY <1>1, <1>2, <1>3 DEF ReuseInv, TypeInv, Issued, Pairs, Exchanging
<1>6. OneExchange'
    BY <1>1, <1>2 DEF ReuseInv, OneExchange, Exchanging
<1>7. MintedIsNew'
    BY <1>1, <1>2, <1>3 DEF ReuseInv, MintedIsNew, Minted
<1>8. PresentedIsFresh'
    BY <1>1, <1>2, <1>3 DEF ReuseInv, PresentedIsFresh, Gone, Family
<1>9. HeldIsFresh'
    BY <1>1, <1>2, <1>3 DEF ReuseInv, HeldIsFresh, Gone, Replaced, Family
<1>10. NoSelfReuse'
    BY <1>3, <1>4 DEF ReuseInv, NoSelfReuse
<1> QED
    BY <1>5, <1>6, <1>7, <1>8, <1>9, <1>10 DEF ReuseInv

LEMMA LossKeepsReuse ==
    ASSUME ReuseInv, NEW c \in flight, LoseExchange(c)
    PROVE  ReuseInv'
<1> DEFINE d == [c EXCEPT !.pc = "answered", !.result = "failed"]
<1>0. Kept(d, "answered", c.token)
    BY Moves DEF ReuseInv, TypeInv
<1>1. IsCall(d) /\ d.pc = "answered"
    BY <1>0 DEF Kept
<1>2. flight' = (flight \ {c}) \cup {d} /\ UNCHANGED client /\ c.pc = "issued"
    BY DEF LoseExchange, Back, Step
<1> HIDE DEF d
<1>3. /\ IsServer' /\ server'.family = server.family /\ server'.spent = server.spent
      /\ server'.ended = server.ended /\ server'.lost = server.lost \cup {Family(c.token)}
      /\ server'.reused = server.reused
    BY DEF LoseExchange, ReuseInv, TypeInv, IsServer
<1>4. \A e \in flight : e.pc = "issued" => e = c
    BY <1>2 DEF ReuseInv, OneExchange, Exchanging
<1>5. TypeInv'
    BY <1>1, <1>2, <1>3 DEF ReuseInv, TypeInv, Issued, Pairs, Exchanging
<1>6. OneExchange'
    BY <1>1, <1>2 DEF ReuseInv, OneExchange, Exchanging
<1>7. MintedIsNew'
    BY <1>1, <1>2, <1>3 DEF ReuseInv, MintedIsNew, Minted
<1>8. PresentedIsFresh'
    BY <1>1, <1>2, <1>3 DEF ReuseInv, PresentedIsFresh, Gone, Family
<1>9. HeldIsFresh'
    BY <1>2, <1>3, <1>4 DEF ReuseInv, HeldIsFresh, Gone, Replaced, Family
<1>10. NoSelfReuse'
    BY <1>3 DEF ReuseInv, NoSelfReuse
<1> QED
    BY <1>5, <1>6, <1>7, <1>8, <1>9, <1>10 DEF ReuseInv

LEMMA TransportKeepsReuse ==
    ASSUME ReuseInv, ClientNext
    PROVE  ReuseInv'
<1>1. CASE GoStale \/ EndElsewhere
    BY <1>1, WorldIsQuiet, QuietKeepsReuse
<1>2. ASSUME NEW c \in flight, CallNext(c)
      PROVE  ReuseInv'
  <2>1. CASE \/ Send(c) \/ Serve(c) \/ ServeAndLose(c) \/ Fail(c) \/ Refuse(c)
             \/ LockAndReplay(c) \/ LockAndGiveUp(c) \/ ExchangeFails(c) \/ CaptureRejection(c)
      BY <2>1, PlainCallsAreQuiet, QuietKeepsReuse
  <2>2. CASE \/ SignIn(c) \/ CaptureSignIn(c) \/ CaptureExchange(c) \/ LockAndExchange(c)
             \/ Rotate(c) \/ Reject(c) \/ LoseExchange(c)
      BY <2>2, SignInKeepsReuse, CaptureKeepsReuse, PresentKeepsReuse, RotateKeepsReuse,
         RejectKeepsReuse, LossKeepsReuse
  <2> QED
      BY <1>2, <2>1, <2>2 DEF CallNext
<1> QED
    BY <1>1, <1>2 DEF ClientNext

-----------------------------------------------------------------------------
(* What the user and the screens do: they ask for calls, they take answers,   *)
(* and they clear the cookies.                                                *)

Ready(d) == IsCall(d) /\ d.pc = "ready"

Leaves(calls) ==
    /\ \A d \in calls : d \in flight \/ Ready(d)
    /\ \A d \in flight : d.pc # "answered" => d \in calls

Asking == UNCHANGED server /\ (UNCHANGED client \/ ClearSession) /\ Leaves(flight')

LEMMA NewCallIsReady == \A job : Ready(Call(job))
<1>1. \A job : Call(job) = Made(job, "ready", 0, 0, FALSE, "none", 0)
    BY DEF Call, Made
<1>2. \A job : Made(job, "ready", 0, 0, FALSE, "none", 0).pc = "ready"
    BY DEF Made
<1> QED
    BY <1>1, <1>2 DEF Ready, IsCall

LEMMA CallsAreReady ==
    ASSUME NEW v, NEW s, NEW cs
    PROVE  \A d \in Calls(v, s, cs) : Ready(d)
BY NewCallIsReady DEF Calls

LEMMA RunLeaves ==
    ASSUME NEW others, Leaves(others), NEW v, NEW s, NEW cs, Run(others, v, s, cs)
    PROVE  Leaves(flight')
BY CallsAreReady DEF Run, Leaves

LEMMA PerformLeaves ==
    ASSUME NEW others, Leaves(others), NEW v, NEW s, NEW e, NEW m, Perform(others, v, s, e, m)
    PROVE  Leaves(flight')
BY RunLeaves DEF Perform

LEMMA FirstCallLeaves ==
    ASSUME NEW others, Leaves(others)
    PROVE  /\ Leaves(others \cup SessionCall)
           /\ Leaves(others \cup {[c EXCEPT !.job.visit = @ + 1] : c \in SessionCall})
<1>1. \A c \in SessionCall : Ready(c)
    BY CallsAreReady DEF SessionCall
<1>2. ASSUME NEW c \in SessionCall
      PROVE  Ready([c EXCEPT !.job.visit = @ + 1])
  <2>1. PICK j, p, g, t, y, r, n : c = Made(j, p, g, t, y, r, n)
      BY <1>1 DEF Ready, IsCall
  <2>2. c.pc = p
      BY <2>1 DEF Made
  <2>3. PICK k : [c EXCEPT !.job.visit = @ + 1] = [c EXCEPT !.job = k]
      OBVIOUS
  <2>4. [c EXCEPT !.job = k] = Made(k, p, g, t, y, r, n)
      BY <2>1 DEF Made
  <2>5. Made(k, p, g, t, y, r, n).pc = p
      BY DEF Made
  <2> QED
      BY <1>1, <2>2, <2>3, <2>4, <2>5 DEF Ready, IsCall
<1> QED
    BY <1>1, <1>2 DEF Leaves

LEMMA LoginLeaves ==
    ASSUME NEW others, Leaves(others), NEW l, NEW cs, AtLogin(l, others, cs)
    PROVE  Leaves(flight') /\ UNCHANGED client
<1>1. CASE flight' = others \cup {[c EXCEPT !.job.visit = @ + 1] : c \in SessionCall}
    BY <1>1, FirstCallLeaves DEF AtLogin
<1>2. CASE flight' = others \cup Calls(view, "login", cs)
    BY <1>2, CallsAreReady DEF AtLogin, Leaves
<1> QED
    BY <1>1, <1>2 DEF AtLogin

LEMMA KeysAsk ==
    ASSUME KeyNext
    PROVE  Asking
<1>1. UNCHANGED server
    BY DEF KeyNext, Press, SubmitForm, Agree, Dismiss, ScreenKey, RefreshKey, RetryKey, SignOutKey,
           GoTo, SubmitLogin, SwitchMode, ClearLogin
<1>2. Leaves(flight)
    BY DEF Leaves
<1>3. CASE SubmitForm \/ RefreshKey \/ RetryKey
    BY <1>1, <1>2, <1>3, RunLeaves DEF SubmitForm, RefreshKey, Refreshed, RetryKey, StartSession,
       Asking
<1>4. CASE Agree \/ ScreenKey
    BY <1>1, <1>2, <1>4, PerformLeaves DEF Agree, ScreenKey, Asking
<1>5. CASE Dismiss \/ SignOutKey
    BY <1>1, <1>2, <1>5 DEF Dismiss, SignOutKey, SignOut, Asking, Leaves
<1>6. ASSUME NEW s \in tour.screens, GoTo(s)
      PROVE  Asking
    BY <1>1, <1>2, <1>6, RunLeaves DEF GoTo, Refreshed, Asking, Leaves
<1>7. CASE SubmitLogin \/ SwitchMode \/ ClearLogin
    BY <1>1, <1>2, <1>7, LoginLeaves DEF SubmitLogin, SwitchMode, ClearLogin, Asking
<1> QED
    BY <1>3, <1>4, <1>5, <1>6, <1>7 DEF KeyNext

LEMMA MessagesAsk ==
    ASSUME MessageNext
    PROVE  Asking
<1>1. PICK c \in flight :
          \/ DeliverAtLogin(c) \/ DeliverRefData(c) \/ DeliverRejection(c) \/ DeliverDone(c)
          \/ DeliverLoaded(c) \/ DeliverParse(c)
    BY DEF MessageNext
<1>2. UNCHANGED server /\ c.pc = "answered"
    BY <1>1 DEF Deliver, DeliverAtLogin, DeliverRefData, DeliverRejection, DeliverDone,
                DeliverLoaded, DeliverParse
<1>3. Leaves(Others(c))
    BY <1>2 DEF Leaves, Others
<1>4. CASE DeliverAtLogin(c)
    BY <1>2, <1>3, <1>4, LoginLeaves DEF DeliverAtLogin, Asking
<1>5. CASE DeliverRefData(c)
    BY <1>2, <1>3, <1>5, RunLeaves DEF DeliverRefData, Refreshed, SignOut, Drop, Asking
<1>6. CASE DeliverRejection(c)
    BY <1>2, <1>3, <1>6, RunLeaves DEF DeliverRejection, StartSession, Asking
<1>7. CASE DeliverDone(c)
  <2> DEFINE others == Others(c) \cup (IF c.job.cmd.invalidate THEN SessionCall ELSE {})
  <2>1. Leaves(others)
      BY <1>3, FirstCallLeaves DEF Leaves
  <2>2. UNCHANGED client /\ \E v, s, e, m : Perform(others, v, s, e, m)
      BY <1>7 DEF DeliverDone
  <2> HIDE DEF others
  <2> QED
      BY <1>2, <2>1, <2>2, PerformLeaves DEF Asking
<1>8. CASE DeliverLoaded(c)
    BY <1>2, <1>3, <1>8, PerformLeaves DEF DeliverLoaded, Drop, Asking
<1>9. CASE DeliverParse(c)
    BY <1>2, <1>3, <1>9 DEF DeliverParse, Asking
<1> QED
    BY <1>1, <1>4, <1>5, <1>6, <1>7, <1>8, <1>9

LEMMA AskingIsQuiet ==
    ASSUME ReuseInv, Asking
    PROVE  Quiet
<1>1. client'.refresh \in {client.refresh, 0}
    BY CookiesAreCleared DEF Asking
<1> QED
    BY <1>1 DEF Asking, Leaves, Ready, Quiet, Exchanging, ReuseInv, TypeInv, IsServer

-----------------------------------------------------------------------------

LEMMA ReuseInvHolds == Spec => []ReuseInv
<1>1. Init => ReuseInv
  <2> SUFFICES ASSUME Init PROVE ReuseInv
      OBVIOUS
  <2>1. PICK door \in BOOLEAN :
           /\ client = IF door THEN [access |-> 1, refresh |-> 1, gen |-> 1]
                               ELSE [access |-> 0, refresh |-> 0, gen |-> 0]
           /\ server = [family |-> IF door THEN <<1>> ELSE <<>>, spent |-> {}, stale |-> {},
                        ended |-> {}, reused |-> {}, lost |-> {}, data |-> 0]
           /\ \A c \in flight : \E job : c = Call(job)
      BY DEF Init
  <2>2. \A c \in flight : Ready(c)
      BY <2>1, NewCallIsReady
  <2>3. /\ IsServer /\ server.family \in Seq(Nat) /\ server.spent = {} /\ server.reused = {}
        /\ client.refresh \in 0 .. Issued
      BY <2>1 DEF IsServer, Issued
  <2>4. \A c \in flight : IsCall(c) /\ ~Minted(c) /\ c.pc \notin Exchanging \cup {"admitted"}
      BY <2>2 DEF Ready, Minted, Exchanging
  <2>5. TypeInv
      BY <2>3, <2>4 DEF TypeInv
  <2>6. OneExchange /\ MintedIsNew
      BY <2>4 DEF OneExchange, MintedIsNew
  <2>7. PresentedIsFresh /\ HeldIsFresh /\ NoSelfReuse
      BY <2>3 DEF PresentedIsFresh, HeldIsFresh, NoSelfReuse
  <2> QED
      BY <2>5, <2>6, <2>7 DEF ReuseInv
<1>2. ReuseInv /\ [Next]_termVars => ReuseInv'
  <2> SUFFICES ASSUME ReuseInv, [Next]_termVars PROVE ReuseInv'
      OBVIOUS
  <2>1. CASE KeyNext \/ MessageNext
      BY <2>1, KeysAsk, MessagesAsk, AskingIsQuiet, QuietKeepsReuse
  <2>2. CASE Transport
      BY <2>2, TransportKeepsReuse DEF Transport
  <2>3. CASE UNCHANGED termVars
    <3>1. Asking
        BY <2>3 DEF termVars, clientVars, Asking, Leaves
    <3> QED
        BY <3>1, AskingIsQuiet, QuietKeepsReuse
  <2> QED
      BY <2>1, <2>2, <2>3 DEF Next
<1> QED
    BY <1>1, <1>2, PTL DEF Spec

(* A sign-in is ended for a refresh token used twice only after the answer to *)
(* an exchange was lost: refreshAccess (client.go:411) trades the token under *)
(* its lock, and the server issues a pair no call in flight has seen.         *)
THEOREM TokensAreTradedOnce == Spec => []NoSelfReuse
<1>1. ReuseInv => NoSelfReuse
    BY DEF ReuseInv
<1> QED
    BY <1>1, ReuseInvHolds, PTL

-----------------------------------------------------------------------------
(* What the screens have their forms send: writes with tags of their own, and *)
(* the two uploads.  What follows an answer, or a write that went through, is *)
(* loads of other tags.                                                       *)

RowTags ==
    {"accounts.list", "calendar.list", "dashboard.summary", "payees.list", "rules.list", "tags.list",
     "links.list", "links.suggest", "links.cycles", "moneyflow.graph", "moneyflow.timeline",
     "recurring.list", "recurring.terms", "recurring.suggestions", "recurring.transactions",
     "settings.paperless.list", "settings.types.list", "import.extractors", "import.settings",
     "import.docs", "txn.list"}

Reserved == RowTags \cup Uploads \cup {"app.refdata", "login"}

OfForm(c) == c.kind = "done" /\ c.tag \notin Reserved
OfUpload(c) == c.kind = "load" /\ c.tag \in Uploads

Loads(cs) == IsFiniteSet(cs) /\ \A c \in cs : c.kind = "load" /\ c.tag \notin Uploads

Opens(e) ==
    /\ IsFiniteSet(e.runs)
    /\ e.opens = "form" => \E c : e.runs = {c} /\ OfForm(c)
    /\ e.opens = "upload" => \E c : e.runs = {c} /\ OfUpload(c)

(* An effect that may follow an answer.                                       *)
Follows(e) == Opens(e) /\ (e.opens \in {"none", "info"} => Loads(e.runs))

LEMMA Commands ==
    /\ \A t : Load(t).kind = "load" /\ Load(t).tag = t
    /\ \A t : Act(t).kind = "done" /\ Act(t).tag = t
    /\ \A t : ActShared(t).kind = "done" /\ ActShared(t).tag = t
    /\ \A t : Fetch(t).kind = "done" /\ Fetch(t).tag = t
<1>1. ASSUME NEW t
      PROVE  Load(t).kind = "load" /\ Load(t).tag = t
    BY DEF Load
<1>2. ASSUME NEW t
      PROVE  Act(t).kind = "done" /\ Act(t).tag = t
    BY DEF Act, Load
<1>3. ASSUME NEW t
      PROVE  ActShared(t).kind = "done" /\ ActShared(t).tag = t
    BY DEF ActShared, Act, Load
<1>4. ASSUME NEW t
      PROVE  Fetch(t).kind = "done" /\ Fetch(t).tag = t
    BY DEF Fetch, Act, Load
<1> QED
    BY <1>1, <1>2, <1>3, <1>4

LEMMA LoadsAre ==
    /\ Loads({})
    /\ \A t : t \notin Uploads => Loads({Load(t)})
    /\ \A a, b : Loads(a) /\ Loads(b) => Loads(a \cup b)
    /\ \A a : \A b \in SUBSET a : Loads(a) => Loads(b)
<1>1. Loads({})
    BY FS_EmptySet DEF Loads
<1>2. ASSUME NEW t, t \notin Uploads
      PROVE  Loads({Load(t)})
  <2>1. IsFiniteSet({Load(t)})
      BY FS_Singleton
  <2> QED
      BY <1>2, <2>1, Commands DEF Loads
<1>3. ASSUME NEW a, NEW b, Loads(a), Loads(b)
      PROVE  Loads(a \cup b)
    BY <1>3, FS_Union DEF Loads
<1>4. ASSUME NEW a, NEW b \in SUBSET a, Loads(a)
      PROVE  Loads(b)
    BY <1>4, FS_Subset DEF Loads
<1> QED
    BY <1>1, <1>2, <1>3, <1>4

LEMMA EffectsAre ==
    /\ Nothing.opens = "none" /\ Nothing.runs = {}
    /\ Info.opens = "info" /\ Info.runs = {}
    /\ \A c : Form(c).opens = "form" /\ Form(c).runs = {c}
    /\ \A c : Upload(c).opens = "upload" /\ Upload(c).runs = {c}
    /\ \A cs : Now(cs).opens = "none" /\ Now(cs).runs = cs
    /\ \A cs : Local(cs).opens = "local" /\ Local(cs).runs = cs
    /\ \A cs : Confirm(cs).opens = "confirm" /\ Confirm(cs).runs = cs
    /\ \A cs : Picker(cs).opens = "picker" /\ Picker(cs).runs = cs
    /\ \A p, cs : Show(p, cs).opens = "none" /\ Show(p, cs).runs = cs
    /\ \A p, cs : /\ [Local(cs) EXCEPT !.to = p].opens = "local"
                  /\ [Local(cs) EXCEPT !.to = p].runs = cs
    /\ \A cs : [Info EXCEPT !.runs = cs].opens = "info" /\ [Info EXCEPT !.runs = cs].runs = cs
    /\ \A p, cs : /\ [Info EXCEPT !.to = p, !.runs = cs].opens = "info"
                  /\ [Info EXCEPT !.to = p, !.runs = cs].runs = cs
BY DEF Nothing, Now, Form, Upload, Local, Confirm, Picker, Info, Show

LEMMA Following ==
    /\ Follows(Nothing) /\ Follows(Info)
    /\ \A t : t \notin Reserved => /\ Follows(Form(Act(t))) /\ Follows(Form(ActShared(t)))
                                   /\ Follows(Form(Fetch(t)))
    /\ \A c : Follows(Confirm({c})) /\ Follows(Picker({c}))
    /\ \A t \in Uploads : Follows(Upload(Load(t)))
    /\ \A cs : Loads(cs) => /\ Follows(Now(cs)) /\ Follows(Local(cs))
                            /\ Follows([Info EXCEPT !.runs = cs])
    /\ \A cs, p : Loads(cs) => /\ Follows(Show(p, cs)) /\ Follows([Local(cs) EXCEPT !.to = p])
                               /\ Follows([Info EXCEPT !.to = p, !.runs = cs])
<1>0. IsFiniteSet({}) /\ \A x : IsFiniteSet({x})
    BY FS_EmptySet, FS_Singleton
<1>1. Follows(Nothing) /\ Follows(Info)
    BY <1>0, EffectsAre, LoadsAre DEF Follows, Opens
<1>2. ASSUME NEW c
      PROVE  /\ OfForm(c) => Follows(Form(c))
             /\ OfUpload(c) => Follows(Upload(c))
             /\ Follows(Confirm({c})) /\ Follows(Picker({c}))
  <2>1. OfForm(c) => Follows(Form(c))
    <3>1. Form(c).opens = "form" /\ Form(c).runs = {c}
        BY EffectsAre
    <3>2. OfForm(c) => Opens(Form(c))
        BY <1>0, <3>1 DEF Opens
    <3> QED
        BY <3>1, <3>2 DEF Follows
  <2>2. OfUpload(c) => Follows(Upload(c))
    <3>1. Upload(c).opens = "upload" /\ Upload(c).runs = {c}
        BY EffectsAre
    <3>2. OfUpload(c) => Opens(Upload(c))
        BY <1>0, <3>1 DEF Opens
    <3> QED
        BY <3>1, <3>2 DEF Follows
  <2>3. Follows(Confirm({c}))
    <3>1. Confirm({c}).opens = "confirm" /\ Confirm({c}).runs = {c}
        BY EffectsAre
    <3>2. Opens(Confirm({c}))
        BY <1>0, <3>1 DEF Opens
    <3> QED
        BY <3>1, <3>2 DEF Follows
  <2>4. Follows(Picker({c}))
    <3>1. Picker({c}).opens = "picker" /\ Picker({c}).runs = {c}
        BY EffectsAre
    <3>2. Opens(Picker({c}))
        BY <1>0, <3>1 DEF Opens
    <3> QED
        BY <3>1, <3>2 DEF Follows
  <2> QED
      BY <2>1, <2>2, <2>3, <2>4
<1>3. ASSUME NEW t
      PROVE  /\ t \notin Reserved => /\ Follows(Form(Act(t))) /\ Follows(Form(ActShared(t)))
                                     /\ Follows(Form(Fetch(t)))
             /\ t \in Uploads => Follows(Upload(Load(t)))
  <2>1. t \notin Reserved => OfForm(Act(t)) /\ OfForm(ActShared(t)) /\ OfForm(Fetch(t))
      BY Commands DEF OfForm
  <2>2. t \in Uploads => OfUpload(Load(t))
      BY Commands DEF OfUpload
  <2> QED
      BY <1>2, <2>1, <2>2
<1>4. ASSUME NEW cs, NEW p, Loads(cs)
      PROVE  /\ Follows(Now(cs)) /\ Follows(Local(cs)) /\ Follows([Info EXCEPT !.runs = cs])
             /\ Follows(Show(p, cs)) /\ Follows([Local(cs) EXCEPT !.to = p])
             /\ Follows([Info EXCEPT !.to = p, !.runs = cs])
  <2>1. IsFiniteSet(cs)
      BY <1>4 DEF Loads
  <2> QED
      BY <1>4, <2>1, EffectsAre DEF Follows, Opens
<1> QED
    BY <1>1, <1>2, <1>3, <1>4

(* Screen by screen.                                                          *)

LEMMA OneEach ==
    /\ \A c : Opens(Now({c})) /\ Opens(Confirm({c})) /\ Opens(Picker({c}))
    /\ \A e : Follows(e) => Opens(e)
    /\ Follows(Nothing) /\ Follows(Info)
<1>1. ASSUME NEW c
      PROVE  Opens(Now({c}))
  <2>1. Now({c}).opens = "none" /\ Now({c}).runs = {c} /\ IsFiniteSet({c})
      BY EffectsAre, FS_Singleton
  <2> QED
      BY <2>1 DEF Opens
<1> QED
    BY <1>1, Following DEF Follows

LEMMA AccountsTable ==
    /\ Loads(AccountsRefresh)
    /\ \A e \in AccountsKeys : Opens(e)
    /\ \A t : \A e \in AccountsAnswer(t) : Follows(e)
    /\ \A t : Follows(AccountsAfter(t))
<1>1. \A t \in {"accounts.list", "accounts.detail", "accounts.cycles", "accounts.schedule",
               "accounts.disbursement", "accounts.disbursement.credits"} : Loads({Load(t)})
    BY LoadsAre DEF Uploads
<1>2. \A t \in {"accounts.save", "accounts.export", "accounts.schedule.save", "accounts.transfer"} :
          t \notin Reserved
    BY DEF Reserved, RowTags, Uploads
<1>3. Loads(AccountsRefresh)
    BY <1>1 DEF AccountsRefresh
<1>4. \A e \in AccountsKeys : Opens(e)
    BY <1>2, OneEach, Following
       DEF AccountsKeys, AccountEdits, AccountLookups, ScheduleEdits, AccountTransfer
<1>5. \A t : \A e \in AccountsAnswer(t) : Follows(e)
    BY <1>1, Following
       DEF AccountsAnswer, DisbursementAnswer, CreditsAnswer
<1>6. \A t : Follows(AccountsAfter(t))
    BY <1>1, <1>3, LoadsAre, Following DEF AccountsAfter
<1> QED
    BY <1>3, <1>4, <1>5, <1>6

LEMMA ViewsTable ==
    /\ Loads(CalendarRefresh) /\ Loads(DashboardRefresh) /\ Loads(FlowRefresh)
    /\ \A e \in CalendarKeys \cup DashboardKeys \cup FlowKeys : Opens(e)
<1>1. \A t \in {"calendar.list", "dashboard.summary", "moneyflow.graph", "moneyflow.timeline"} :
          Loads({Load(t)})
    BY LoadsAre DEF Uploads
<1>2. /\ Loads(CalendarRefresh) /\ Loads(DashboardRefresh) /\ Loads(FlowGraph)
      /\ Loads(FlowTimeline) /\ Loads(FlowRefresh)
    BY <1>1, LoadsAre DEF CalendarRefresh, DashboardRefresh, FlowGraph, FlowTimeline, FlowRefresh
<1>3. \A e \in CalendarKeys \cup DashboardKeys \cup FlowKeys : Follows(e)
    BY <1>2, Following
       DEF CalendarKeys, CalendarWindow, DashboardKeys, DashboardFraming, DashboardWindow, FlowKeys,
           FlowScrub, FlowFraming, FlowForms
<1> QED
    BY <1>2, <1>3, OneEach

LEMMA CategoriesTable ==
    /\ \A e \in CategoriesKeys : Opens(e)
    /\ \A e \in ImpactAnswer : Follows(e)
    /\ \A t : \A e \in CategoriesAnswer(t) : Follows(e)
<1>1. \A t \in {"categories.group.create", "categories.group.update", "categories.category.create",
               "categories.category.update", "categories.global.group",
               "categories.global.category.create", "categories.global.category.update"} :
          Follows(Form(ActShared(t)))
  <2>1. \A t \in {"categories.group.create", "categories.group.update", "categories.category.create",
                 "categories.category.update", "categories.global.group",
                 "categories.global.category.create", "categories.global.category.update"} :
            t \notin Reserved
      BY DEF Reserved, RowTags, Uploads
  <2> QED
      BY <2>1, Following
<1>2. \A e \in ImpactAnswer : Follows(e)
    BY Following DEF ImpactAnswer
<1>3. \A e \in CategoriesKeys : Opens(e)
    BY <1>1, OneEach DEF CategoriesKeys, CategoryEdits, CategoryDelete, GlobalEdits
<1>4. \A t : \A e \in CategoriesAnswer(t) : Follows(e)
    BY <1>2, Following DEF CategoriesAnswer
<1> QED
    BY <1>2, <1>3, <1>4

LEMMA ListsTable ==
    /\ Loads(PayeesRefresh) /\ Loads(RulesRefresh) /\ Loads(TagsRefresh)
    /\ \A e \in PayeesKeys \cup RulesKeys \cup TagsKeys : Opens(e)
    /\ \A t : \A e \in RulesAnswer(t) : Follows(e)
    /\ Follows(PayeesAfter) /\ Follows(TagsAfter)
    /\ \A t : Follows(RulesAfter(t))
<1>1. \A t \in {"payees.list", "rules.list", "rules.preview", "tags.list"} : Loads({Load(t)})
    BY LoadsAre DEF Uploads
<1>2. \A t \in {"payees.save", "rules.save", "tags.rename"} : t \notin Reserved
    BY DEF Reserved, RowTags, Uploads
<1>3. Loads(PayeesRefresh) /\ Loads(RulesRefresh) /\ Loads(TagsRefresh)
    BY <1>1 DEF PayeesRefresh, RulesRefresh, TagsRefresh
<1>4. \A e \in PayeesKeys \cup RulesKeys \cup TagsKeys : Opens(e)
    BY <1>2, OneEach, Following
       DEF PayeesKeys, PayeesWrites, RulesKeys, RulesSaves, RulesRuns, TagsKeys, TagsRename
<1>5. \A t : \A e \in RulesAnswer(t) : Follows(e)
    BY Following DEF RulesAnswer
<1>6. Follows(PayeesAfter) /\ Follows(TagsAfter) /\ \A t : Follows(RulesAfter(t))
    BY <1>3, Following DEF PayeesAfter, TagsAfter, RulesAfter
<1> QED
    BY <1>3, <1>4, <1>5, <1>6

LEMMA LinksTable ==
    ASSUME NEW p
    PROVE  /\ Loads(LinksRefresh(p))
           /\ \A e \in LinksKeys(p) : Opens(e)
           /\ Follows(LinksAfter(p))
<1>1. \A t \in {"links.list", "links.suggest", "links.cycles"} : Loads({Load(t)})
    BY LoadsAre DEF Uploads
<1>2. \A t \in {"links.create", "links.bulk"} : t \notin Reserved
    BY DEF Reserved, RowTags, Uploads
<1>3. \A q : Loads(LinksRefresh(q))
    BY <1>1 DEF LinksRefresh
<1>4. Opens(LinksNext(p))
    BY <1>3, OneEach, Following DEF LinksNext
<1>5. \A e \in LinksWrites \cup {LinksType, Info} \cup LinksConfirm \cup LinksSuggestions
               \cup {LinksWindow} : Opens(e)
    BY <1>1, <1>2, OneEach, Following
       DEF LinksWrites, LinksType, LinksConfirm, LinksSuggestions, LinksWindow
<1>6. \A e \in LinksKeys(p) : Opens(e)
    BY <1>4, <1>5 DEF LinksKeys
<1> QED
    BY <1>3, <1>6, Following DEF LinksAfter

LEMMA RecurringTable ==
    ASSUME NEW p
    PROVE  /\ Loads(RecurringRefresh(p))
           /\ \A e \in RecurringKeys(p) : Opens(e)
           /\ \A t : \A e \in RecurringAnswer(t) : Follows(e)
           /\ \A t : Follows(RecurringAfter(t, p))
<1>1. \A t \in {"recurring.list", "recurring.terms", "recurring.suggestions",
               "recurring.transactions", "recurring.forecast"} : Loads({Load(t)})
    BY LoadsAre DEF Uploads
<1>2. \A t \in {"recurring.save", "recurring.term.save"} : t \notin Reserved
    BY DEF Reserved, RowTags, Uploads
<1>3. \A q : Loads(RecurringPane(q))
    BY <1>1, LoadsAre DEF RecurringPane
<1>4. \A q : Loads(RecurringRefresh(q))
    BY <1>1, <1>3, LoadsAre DEF RecurringRefresh
<1>5. \A e \in SeriesWrites \cup SeriesPanes \cup {SeriesForecast} : Opens(e)
    BY <1>1, <1>2, <1>3, OneEach, Following DEF SeriesWrites, SeriesPanes, SeriesForecast
<1>6. \A e \in TermWrites \cup {Show("list", {}), AttachWrites(p)} : Opens(e)
    BY <1>2, LoadsAre, OneEach, Following DEF TermWrites, AttachWrites
<1>7. \A e \in RecurringKeys(p) : Opens(e)
    BY <1>5, <1>6 DEF RecurringKeys
<1>8. \A t : \A e \in RecurringAnswer(t) : Follows(e)
    BY Following DEF RecurringAnswer
<1>9. \A t : Follows(RecurringAfter(t, p))
    BY <1>4, Following DEF RecurringAfter
<1> QED
    BY <1>4, <1>7, <1>8, <1>9

LEMMA SettingsTable ==
    ASSUME NEW p, NEW ready
    PROVE  /\ Loads(SettingsRefresh)
           /\ \A e \in SettingsKeys(p, ready) : Opens(e)
           /\ \A t : Follows(SettingsAfter(t))
<1>1. \A t \in {"settings.paperless.list", "settings.types.list"} : Loads({Load(t)})
    BY LoadsAre DEF Uploads
<1>2. \A t \in {"settings.paperless", "settings.export", "settings.types"} : t \notin Reserved
    BY DEF Reserved, RowTags, Uploads
<1>3. Loads(SettingsPaperless) /\ Loads(SettingsTypes) /\ Loads(SettingsRefresh)
    BY <1>1, LoadsAre DEF SettingsPaperless, SettingsTypes, SettingsRefresh
<1>4. \A e \in TypeEdits \cup {TypeCreate, Show("overview", {}), Show("catalog", {}), SettingsRestore}
               \cup SettingsForms : Opens(e)
    BY <1>2, LoadsAre, OneEach, Following DEF TypeEdits, TypeCreate, SettingsRestore, SettingsForms
<1>5. \A e \in SettingsKeys(p, ready) : Opens(e)
    BY <1>4 DEF SettingsKeys
<1>6. \A t : Follows(SettingsAfter(t))
    BY <1>3, Following DEF SettingsAfter
<1> QED
    BY <1>3, <1>5, <1>6

LEMMA ImportTable ==
    ASSUME NEW p
    PROVE  /\ Loads(ImportRefresh(p))
           /\ \A ready : \A e \in ImportKeys(p, ready) : Opens(e)
           /\ \A t, ok : \A e \in ImportAnswer(t, p, ok) : Follows(e)
<1>1. \A t \in {"import.extractors", "import.settings", "import.docs", "import.cycles",
               "import.check"} : Loads({Load(t)})
    BY LoadsAre DEF Uploads
<1>2. \A q : Loads(ImportRefresh(q))
    BY <1>1, LoadsAre DEF ImportRefresh
<1>3. Loads(ImportDocs) /\ Loads({})
    BY <1>1, LoadsAre DEF ImportDocs
<1>4. \A ready : Opens(ImportNext(p, ready))
  <2>1. \A q, ready : Loads({c \in ImportRefresh(q) : c.tag \notin ready})
    <3>1. \A q, ready : {c \in ImportRefresh(q) : c.tag \notin ready} \in SUBSET ImportRefresh(q)
        OBVIOUS
    <3> QED
        BY <1>2, <3>1, LoadsAre
  <2> QED
      BY <2>1, OneEach, Following DEF ImportNext
<1>5. Opens(StatementUpload) /\ Opens(PaperlessUpload)
    BY OneEach, Following DEF StatementUpload, PaperlessUpload, Uploads
<1>6. Opens(CsvMapping) /\ Opens(ImportTarget) /\ Opens(Discard(p))
    BY <1>1, <1>3, OneEach, Following DEF CsvMapping, ImportTarget, Discard
<1>7. \A e \in PaperlessSearch : Opens(e)
    BY <1>3, OneEach, Following DEF PaperlessSearch
<1>8. \A ready : \A e \in ImportKeys(p, ready) : Opens(e)
    BY <1>4, <1>5, <1>6, <1>7 DEF ImportKeys
<1>9. ASSUME NEW ok
      PROVE  \A e \in SettingsLanded(ok) \cup CyclesLanded(p, ok) \cup CheckLanded(p, ok)
                       \cup CommitLanded(p, ok) : Follows(e)
  <2>1. \A e \in SettingsLanded(ok) : Follows(e)
      BY <1>3, Following DEF SettingsLanded
  <2>2. Follows(ImportCheck(p)) /\ Loads(ImportCheck(p).runs)
      BY <1>1, <1>3, EffectsAre, Following DEF ImportCheck
  <2>3. \A e \in CyclesLanded(p, ok) : Follows(e)
      BY <2>2, Following DEF CyclesLanded
  <2>4. \A e \in CheckLanded(p, ok) : Follows(e)
      BY Following DEF CheckLanded
  <2>5. \A e \in CommitLanded(p, ok) : Follows(e)
    <3>1. ASSUME NEW d \in {{}, ImportDocs}
          PROVE  Follows([Info EXCEPT !.to = Source(p), !.runs = d])
        BY <1>3, Following
    <3> QED
        BY <3>1, Following DEF CommitLanded
  <2> QED
      BY <2>1, <2>3, <2>4, <2>5
<1>10. \A t, ok : \A e \in ImportAnswer(t, p, ok) : Follows(e)
    BY <1>9, Following DEF ImportAnswer
<1> QED
    BY <1>2, <1>8, <1>10

LEMMA TransactionsTable ==
    /\ Loads(TxnRefresh)
    /\ \A e \in TxnKeys : Opens(e)
    /\ \A t : \A e \in TxnAnswer(t) : Follows(e)
    /\ \A t : Follows(TxnAfter(t))
<1>1. Loads(TxnRefresh)
    BY LoadsAre DEF TxnRefresh, Uploads
<1>2. \A t \in {"txn.save", "txn.bulk", "txn.export"} : t \notin Reserved
    BY DEF Reserved, RowTags, Uploads
<1>3. \A e \in TxnSaves \cup TxnBulk \cup {TxnFilter, TxnPaging, TxnDelete, TxnExport} : Opens(e)
    BY <1>1, <1>2, OneEach, Following
       DEF TxnSaves, TxnBulk, TxnFilter, TxnPaging, TxnDelete, TxnExport
<1>4. \A e \in TxnKeys : Opens(e)
    BY <1>3, OneEach DEF TxnKeys
<1>5. \A t : \A e \in TxnAnswer(t) : Follows(e)
    BY <1>2, Following DEF TxnAnswer
<1>6. \A t : Follows(TxnAfter(t))
    BY <1>1, Following DEF TxnAfter
<1> QED
    BY <1>1, <1>4, <1>5, <1>6

LEMMA RefreshLoads ==
    ASSUME NEW s \in Screens, NEW p
    PROVE  Loads(Refresh(s, p))
BY AccountsTable, ViewsTable, ListsTable, LinksTable, RecurringTable, SettingsTable, ImportTable,
   TransactionsTable, LoadsAre DEF Screens, Refresh

LEMMA KeysOpen ==
    ASSUME NEW s \in Screens, NEW p, NEW ready, NEW e \in Keys(s, p, ready)
    PROVE  Opens(e)
BY AccountsTable, ViewsTable, CategoriesTable, ListsTable, LinksTable, RecurringTable, SettingsTable,
   ImportTable, TransactionsTable DEF Screens, Keys

LEMMA AnswersFollow ==
    ASSUME NEW s, NEW t, NEW p, NEW ok, NEW e \in Answers(s, t, p, ok)
    PROVE  Follows(e)
BY AccountsTable, CategoriesTable, ListsTable, RecurringTable, ImportTable, TransactionsTable,
   Following DEF Answers

LEMMA AfterFollows ==
    ASSUME NEW s, NEW t, NEW p
    PROVE  Follows(After(s, t, p))
BY AccountsTable, ListsTable, LinksTable, RecurringTable, SettingsTable, TransactionsTable,
   Following DEF After

(* A form's calls are not what a screen keeps rows of.                        *)
LEMMA RowsAreTagged ==
    ASSUME NEW s \in Screens
    PROVE  Rows(s) \subseteq RowTags
<1> DEFINE Tagged(cs) == \A c \in cs : c.tag \in RowTags
<1>1. \A t \in RowTags : Tagged({Load(t)})
    BY Commands
<1>2. \A a, b : Tagged(a) /\ Tagged(b) => Tagged(a \cup b)
    OBVIOUS
<1>3. Tagged({})
    OBVIOUS
<1> HIDE DEF Tagged
<1>4. ASSUME NEW p
      PROVE  Tagged(Refresh(s, p))
  <2>1. Tagged(LinksRefresh(p))
      BY <1>1 DEF LinksRefresh, RowTags
  <2>2. Tagged(RecurringRefresh(p))
    <3>1. Tagged(RecurringPane(p)) /\ Tagged({Load("recurring.list")})
        BY <1>1, <1>3 DEF RecurringPane, RowTags
    <3> QED
        BY <1>2, <3>1 DEF RecurringRefresh
  <2>3. Tagged(ImportRefresh(p))
      BY <1>1, <1>3 DEF ImportRefresh, RowTags
  <2>4. Tagged(SettingsRefresh)
      BY <1>1, <1>2 DEF SettingsRefresh, SettingsPaperless, SettingsTypes, RowTags
  <2>5. Tagged(FlowRefresh)
      BY <1>1, <1>2 DEF FlowRefresh, FlowGraph, FlowTimeline, RowTags
  <2>6. /\ Tagged(DashboardRefresh) /\ Tagged(TxnRefresh) /\ Tagged(AccountsRefresh)
        /\ Tagged(PayeesRefresh) /\ Tagged(TagsRefresh) /\ Tagged(RulesRefresh)
        /\ Tagged(CalendarRefresh)
      BY <1>1 DEF DashboardRefresh, TxnRefresh, AccountsRefresh, PayeesRefresh, TagsRefresh,
                  RulesRefresh, CalendarRefresh, RowTags
  <2> QED
      BY <1>3, <2>1, <2>2, <2>3, <2>4, <2>5, <2>6 DEF Screens, Refresh
<1>5. \A p : \A c \in Refresh(s, p) : c.tag \in RowTags
    BY <1>4 DEF Tagged
<1> QED
    BY <1>5 DEF Rows, RowTags

-----------------------------------------------------------------------------
(* A form and its calls.                                                      *)

Base ==
    /\ tour \in Tours
    /\ app \in [signedIn : BOOLEAN, built : BOOLEAN, nav : tour.screens, visit : Nat]
    /\ IsFiniteSet(flight)

(* An overlay is seen with the screens, and a form has one command to send.   *)
OverlayOK ==
    /\ modal = [kind |-> modal.kind, screen |-> modal.screen, runs |-> modal.runs, to |-> modal.to,
                jobs |-> modal.jobs, submitting |-> modal.submitting, released |-> modal.released]
    /\ modal.submitting \in BOOLEAN /\ modal.released \in BOOLEAN
    /\ modal.kind # "none" => app.signedIn /\ app.built
    /\ IsFiniteSet(modal.runs)
    /\ modal.kind = "form" => \E c : modal.runs = {c} /\ OfForm(c)
    /\ modal.kind = "upload" => \E c : modal.runs = {c} /\ OfUpload(c)
    /\ modal.kind \in {"form", "upload"} => \A j \in modal.jobs : j.cmd \in modal.runs

(* The next batch to arrive is not dropped while the form that sent it waits. *)
Expected == Sent(modal) => upload # "cancelled"

Waits ==
    modal.kind \in {"form", "upload"} =>
        /\ modal.submitting => Own # {}
        /\ ~ modal.released => IF modal.submitting THEN \E c : Own = {c} ELSE Own = {}

FormInv == Base /\ OverlayOK /\ Expected /\ Waits

LEMMA WaitsForItsCall == FormInv => FormWaitsForItsCall
<1> SUFFICES ASSUME FormInv, modal.kind \in {"form", "upload"}
             PROVE  /\ modal.submitting => Own # {}
                    /\ ~ modal.released => Cardinality(Own) = IF modal.submitting THEN 1 ELSE 0
    BY DEF FormWaitsForItsCall
<1>1. modal.submitting \in BOOLEAN
    BY DEF FormInv, OverlayOK
<1>2. ASSUME NEW c, Own = {c}
      PROVE  Cardinality(Own) = 1
    BY <1>2, FS_Singleton
<1>3. ASSUME Own = {}
      PROVE  Cardinality(Own) = 0
    BY <1>3, FS_EmptySet
<1> QED
    BY <1>1, <1>2, <1>3 DEF FormInv, Waits

(* Calls.                                                                     *)
LEMMA CallsFinite ==
    ASSUME NEW v, NEW s, NEW cs, IsFiniteSet(cs)
    PROVE  IsFiniteSet(Calls(v, s, cs))
<1> DEFINE make(c) == Call([screen |-> s, cmd |-> c, n |-> Number(v, s, c.tag), visit |-> app.visit])
           f == [c \in cs |-> make(c)]
<1>1. Calls(v, s, cs) = {make(c) : c \in cs}
    BY DEF Calls
<1> HIDE DEF make
<1>2. f \in Surjection(cs, {make(c) : c \in cs})
    BY DEF Surjection
<1> HIDE DEF f
<1> QED
    BY <1>1, <1>2, FS_Surjection

LEMMA CallsCarry ==
    ASSUME NEW v, NEW s, NEW cs, NEW d \in Calls(v, s, cs)
    PROVE  d.job.cmd \in cs
<1>1. PICK c \in cs :
          d = Call([screen |-> s, cmd |-> c, n |-> Number(v, s, c.tag), visit |-> app.visit])
    BY DEF Calls
<1>2. d.job = [screen |-> s, cmd |-> c, n |-> Number(v, s, c.tag), visit |-> app.visit]
    BY <1>1 DEF Call
<1> QED
    BY <1>2

(* A call that no row waits for has a number no call of its kind under way    *)
(* has.                                                                       *)
LEMMA NumberIsNew ==
    ASSUME IsFiniteSet(flight), NEW v, NEW s, NEW t, s \notin tour.screens \/ t \notin Rows(s),
           NEW c \in flight, c.job.cmd.tag = t
    PROVE  c.job.n # Number(v, s, t)
<1> DEFINE K == Cardinality(flight)
           taken == {d.job.n : d \in flight}
           f == [d \in flight |-> d.job.n]
<1>1. K \in Nat
    BY FS_CardinalityType
<1>2. f \in Surjection(flight, taken)
    BY DEF Surjection
<1>3. IsFiniteSet(taken) /\ Cardinality(taken) <= K
  <2> HIDE DEF f, taken
  <2> QED
      BY <1>2, FS_Surjection
<1>4. Cardinality(1 .. K + 1) = K + 1
  <2>1. 1 \in Int /\ K + 1 \in Int /\ ~ (1 > K + 1) /\ (K + 1) - 1 + 1 = K + 1
      BY <1>1
  <2> HIDE DEF K
  <2> QED
      BY <2>1, FS_Interval
<1>5. \E n \in 1 .. K + 1 : n \notin taken
  <2> SUFFICES ASSUME 1 .. K + 1 \in SUBSET taken PROVE FALSE
      OBVIOUS
  <2>1. Cardinality(1 .. K + 1) <= Cardinality(taken) /\ Cardinality(taken) \in Nat
    <3> HIDE DEF K, taken
    <3> QED
        BY <1>3, FS_Subset, FS_CardinalityType
  <2> HIDE DEF K, taken
  <2> QED
      BY <1>1, <1>3, <1>4, <2>1
<1>6. \E n \in 1 .. K + 1 : \A d \in flight : d.job.cmd.tag = t => d.job.n # n
    BY <1>5
<1>7. Number(v, s, t) = CHOOSE n \in 1 .. K + 1 : \A d \in flight : d.job.cmd.tag = t => d.job.n # n
    BY DEF Number
<1> HIDE DEF K, taken, f
<1>8. \A d \in flight : d.job.cmd.tag = t => d.job.n # Number(v, s, t)
    BY <1>6, <1>7
<1> QED
    BY <1>8

(* What else is asked for meanwhile is not the form's.                        *)
LEMMA OthersAreNotOwn ==
    ASSUME OverlayOK, modal.kind \in {"form", "upload"}, NEW d,
           d.job.cmd.kind = "load", d.job.cmd.tag \notin Uploads
    PROVE  d.job \notin modal.jobs
<1> SUFFICES ASSUME d.job \in modal.jobs PROVE FALSE
    OBVIOUS
<1>1. d.job.cmd \in modal.runs
    BY DEF OverlayOK
<1>2. PICK c : modal.runs = {c} /\ (OfForm(c) \/ OfUpload(c))
    BY DEF OverlayOK
<1>3. d.job.cmd = c
    BY <1>1, <1>2
<1> QED
    BY <1>2, <1>3 DEF OfForm, OfUpload

LEMMA LoadsAreNotOwn ==
    ASSUME OverlayOK, modal.kind \in {"form", "upload"}, NEW v, NEW s, NEW cs, Loads(cs),
           NEW d \in Calls(v, s, cs)
    PROVE  d.job \notin modal.jobs
<1>1. d.job.cmd \in cs
    BY CallsCarry
<1> QED
    BY <1>1, OthersAreNotOwn DEF Loads

LEMMA RunFinite ==
    ASSUME NEW others, IsFiniteSet(others), NEW v, NEW s, NEW cs, IsFiniteSet(cs),
           Run(others, v, s, cs)
    PROVE  IsFiniteSet(flight')
BY CallsFinite, FS_Union DEF Run

LEMMA PerformFinite ==
    ASSUME NEW others, IsFiniteSet(others), NEW v, NEW s, NEW e, IsFiniteSet(e.runs), NEW m,
           Perform(others, v, s, e, m)
    PROVE  IsFiniteSet(flight')
<1>1. IsFiniteSet({})
    BY FS_EmptySet
<1> QED
    BY <1>1, RunFinite DEF Perform

LEMMA SessionLoads == Loads({RefData})
BY LoadsAre DEF RefData, Uploads

LEMMA LoginBase ==
    ASSUME Base, NEW others, IsFiniteSet(others), NEW l, NEW cs, IsFiniteSet(cs),
           AtLogin(l, others, cs), tour' = tour
    PROVE  Base'
<1>1. IsFiniteSet(SessionCall)
    BY SessionLoads, CallsFinite DEF SessionCall, Loads
<1>2. IsFiniteSet({[c EXCEPT !.job.visit = @ + 1] : c \in SessionCall})
  <2> DEFINE later(c) == [c EXCEPT !.job.visit = @ + 1]
             f == [c \in SessionCall |-> later(c)]
  <2> HIDE DEF later
  <2>1. f \in Surjection(SessionCall, {later(c) : c \in SessionCall})
      BY DEF Surjection
  <2> HIDE DEF f
  <2>2. IsFiniteSet({later(c) : c \in SessionCall})
      BY <1>1, <2>1, FS_Surjection
  <2> QED
      BY <2>2 DEF later
<1>3. CASE /\ app' = [app EXCEPT !.signedIn = TRUE, !.visit = @ + 1]
           /\ flight' = others \cup {[c EXCEPT !.job.visit = @ + 1] : c \in SessionCall}
  <2>1. app' \in [signedIn : BOOLEAN, built : BOOLEAN, nav : tour.screens, visit : Nat]
    <3> DEFINE App == [signedIn : BOOLEAN, built : BOOLEAN, nav : tour.screens, visit : Nat]
               in == [app EXCEPT !.signedIn = TRUE]
    <3>1. app \in App
        BY DEF Base
    <3>2. in \in App /\ in.visit = app.visit
        BY <3>1
    <3>3. app' = [in EXCEPT !.visit = @ + 1]
        BY <1>3, <3>1
    <3> HIDE DEF in
    <3> QED
        BY <3>2, <3>3
  <2>2. IsFiniteSet(flight')
      BY <1>2, <1>3, FS_Union
  <2> QED
      BY <2>1, <2>2 DEF Base
<1>4. CASE flight' = others \cup Calls(view, "login", cs) /\ UNCHANGED app
  <2>1. IsFiniteSet(flight')
      BY <1>4, CallsFinite, FS_Union
  <2> QED
      BY <1>4, <2>1 DEF Base
<1> QED
    BY <1>3, <1>4 DEF AtLogin

(* The overlay is a new one, or none.                                         *)
Anew(s, e) == NewModal(e.opens, s, e.runs, e.to)

LEMMA NewOverlay ==
    ASSUME Base', NEW s, NEW e, Opens(e),
           modal' = NoModal \/ (modal' = Anew(s, e) /\ app'.signedIn /\ app'.built)
    PROVE  FormInv'
<1>1. /\ modal' = [kind |-> modal'.kind, screen |-> modal'.screen, runs |-> modal'.runs,
                   to |-> modal'.to, jobs |-> modal'.jobs, submitting |-> modal'.submitting,
                   released |-> modal'.released]
      /\ modal'.jobs = {} /\ modal'.submitting = FALSE /\ modal'.released = FALSE
  <2>3. CASE modal' = NoModal
      BY <2>3 DEF NoModal, NewModal
  <2>4. CASE modal' = Anew(s, e)
      BY <2>4 DEF Anew, NewModal
  <2> QED
      BY <2>3, <2>4
<1>2. \/ modal'.kind = "none" /\ modal'.runs = {}
      \/ modal'.kind = e.opens /\ modal'.runs = e.runs /\ app'.signedIn /\ app'.built
  <2>1. NoModal.kind = "none" /\ NoModal.runs = {}
      BY DEF NoModal, NewModal
  <2>2. Anew(s, e).kind = e.opens /\ Anew(s, e).runs = e.runs
      BY DEF Anew, NewModal
  <2> QED
      BY <2>1, <2>2
<1>3. OverlayOK'
    BY <1>1, <1>2, FS_EmptySet DEF OverlayOK, Opens
<1>4. Own' = {}
    BY <1>1 DEF Own
<1>5. Expected' /\ Waits'
    BY <1>1, <1>4 DEF Expected, Sent, Waits
<1> QED
    BY <1>3, <1>5 DEF FormInv

LEMMA NoOverlay == ASSUME Base', modal' = NoModal PROVE FormInv'
<1>1. Opens(Nothing)
    BY OneEach
<1> QED
    BY <1>1, NewOverlay

(* The overlay stays, and so do its calls.                                    *)
LEMMA SameOverlay ==
    ASSUME FormInv, Base', modal' = modal,
           modal.kind \in {"form", "upload"} => Own' = Own /\ Expected',
           modal.kind # "none" => app'.signedIn /\ app'.built
    PROVE  FormInv'
<1>1. OverlayOK'
    BY DEF FormInv, OverlayOK
<1>2. Expected'
    BY DEF Expected, Sent
<1>3. Waits'
    BY DEF FormInv, Waits
<1> QED
    BY <1>1, <1>2, <1>3 DEF FormInv

LEMMA NoneIsOpen ==
    ASSUME FormInv, modal.kind = "none" \/ ~ app.signedIn \/ ~ app.built, Base', UNCHANGED modal
    PROVE  FormInv'
<1>1. modal.kind = "none"
    BY DEF FormInv, OverlayOK
<1> QED
    BY <1>1, SameOverlay

(* What an effect leaves behind.                                              *)
NotOwn(calls) ==
    modal.kind \in {"form", "upload"} => \A d \in calls : d.job \notin modal.jobs

LEMMA PerformKeeps ==
    ASSUME FormInv, Base', NEW others, others \subseteq flight, NEW more, NEW v, NEW s, NEW e, NEW m,
           Perform(others \cup more, v, s, e, m), Opens(e),
           (app'.signedIn /\ app'.built) \/ e.opens = "none",
           modal.kind # "none" => app'.signedIn /\ app'.built,
           m = NoModal \/ (m = modal /\ Follows(e) /\ NotOwn(more) /\ NotOwn(flight \ others))
    PROVE  FormInv'
<1>1. CASE e.opens = "none" /\ m = NoModal
    BY <1>1, NoOverlay DEF Perform, Overlay
<1>2. CASE e.opens = "none" /\ m = modal /\ m # NoModal
  <2>0. Follows(e) /\ NotOwn(more) /\ NotOwn(flight \ others)
      BY <1>2
  <2>1. modal' = modal /\ upload' = upload
      BY <1>2 DEF Perform, Overlay
  <2>2. PICK w : flight' = others \cup more \cup Calls(w, s, e.runs)
      BY <1>2 DEF Perform, Run
  <2>3. Loads(e.runs)
      BY <1>2, <2>0 DEF Follows
  <2>4. ASSUME modal.kind \in {"form", "upload"}
        PROVE  Own' = Own
    <3>1. \A d \in Calls(w, s, e.runs) : d.job \notin modal.jobs
        BY <2>3, <2>4, LoadsAreNotOwn DEF FormInv
    <3> QED
        BY <2>0, <2>1, <2>2, <2>4, <3>1 DEF Own, NotOwn
  <2>5. Expected'
      BY <2>1 DEF FormInv, Expected, Sent
  <2> QED
      BY <2>1, <2>4, <2>5, SameOverlay
<1>3. CASE e.opens # "none"
  <2>1. modal' = Anew(s, e)
      BY <1>3 DEF Perform, Overlay, Anew
  <2> QED
      BY <1>3, <2>1, NewOverlay
<1> QED
    BY <1>1, <1>2, <1>3

(* Keys.                                                                      *)

LEMMA BaseKept ==
    ASSUME Base, tour' = tour, IsFiniteSet(flight'),
           \/ app' = app
           \/ \E s \in tour.screens : app' = [app EXCEPT !.nav = s]
           \/ app' = [app EXCEPT !.built = TRUE]
           \/ app' = [app EXCEPT !.signedIn = FALSE, !.built = FALSE]
    PROVE  Base'
<1> DEFINE App == [signedIn : BOOLEAN, built : BOOLEAN, nav : tour.screens, visit : Nat]
<1>1. app \in App
    BY DEF Base
<1>2. ASSUME NEW s \in tour.screens, app' = [app EXCEPT !.nav = s]
      PROVE  app' \in App
    BY <1>1, <1>2
<1>3. ASSUME app' = [app EXCEPT !.built = TRUE]
      PROVE  app' \in App
    BY <1>1, <1>3
<1>4. ASSUME app' = [app EXCEPT !.signedIn = FALSE, !.built = FALSE]
      PROVE  app' \in App
  <2> DEFINE out == [app EXCEPT !.signedIn = FALSE]
  <2>1. out \in App
      BY <1>1
  <2>2. app' = [out EXCEPT !.built = FALSE]
      BY <1>1, <1>4
  <2> HIDE DEF out
  <2> QED
      BY <2>1, <2>2
<1>5. app' \in App
    BY <1>1, <1>2, <1>3, <1>4
<1> QED
    BY <1>5 DEF Base

LEMMA NavIsScreen == ASSUME Base PROVE app.nav \in tour.screens /\ tour.screens \subseteq Screens
BY ToursAssumption DEF Base

LEMMA SubmitKeepsForm ==
    ASSUME FormInv, SubmitForm
    PROVE  FormInv'
<1>1. /\ modal.kind \in {"form", "upload"} /\ ~ modal.submitting
      /\ Run(flight, view, modal.screen, modal.runs)
      /\ modal' = [modal EXCEPT !.submitting = TRUE,
                                !.jobs = @ \cup {c.job : c \in flight' \ flight}]
      /\ upload' = IF modal.kind = "upload" THEN "none" ELSE upload
      /\ app' = app /\ tour' = tour
    BY DEF SubmitForm, MaySubmit, Press
<1>2. PICK x : modal.runs = {x} /\ x.tag \notin RowTags
             /\ ((modal.kind = "form" /\ OfForm(x)) \/ (modal.kind = "upload" /\ OfUpload(x)))
  <2>1. \A t \in Uploads : t \notin RowTags
      BY DEF Uploads, RowTags
  <2>2. CASE modal.kind = "form"
    <3>1. PICK x : modal.runs = {x} /\ OfForm(x)
        BY <2>2 DEF FormInv, OverlayOK
    <3> QED
      <4>1. x.tag \notin RowTags
          BY <3>1 DEF OfForm, Reserved
      <4> QED
          BY <2>2, <3>1, <4>1
  <2>3. CASE modal.kind = "upload"
    <3>1. PICK x : modal.runs = {x} /\ OfUpload(x)
        BY <2>3 DEF FormInv, OverlayOK
    <3> QED
      <4>1. x.tag \notin RowTags
          BY <2>1, <3>1 DEF OfUpload
      <4> QED
          BY <2>3, <3>1, <4>1
  <2> QED
      BY <1>1, <2>2, <2>3
<1>3. PICK w : flight' = flight \cup Calls(w, modal.screen, {x})
    BY <1>1, <1>2 DEF Run
<1> DEFINE n == Number(w, modal.screen, x.tag)
           j == [screen |-> modal.screen, cmd |-> x, n |-> n, visit |-> app.visit]
           c == Call(j)
<1>4. flight' = flight \cup {c}
    BY <1>3 DEF Calls
<1>5. c.job = j
    BY DEF Call
<1>6. j.cmd = x /\ j.n = n
    OBVIOUS
<1>7. \A d \in flight : d.job # j
  <2>1. modal.screen \notin tour.screens \/ x.tag \notin Rows(modal.screen)
      BY <1>2, NavIsScreen, RowsAreTagged DEF FormInv
  <2>2. \A d \in flight : d.job.cmd.tag = x.tag => d.job.n # n
      BY <2>1, NumberIsNew DEF FormInv, Base
  <2> HIDE DEF j, n
  <2> QED
      BY <1>6, <2>2
<1> HIDE DEF c, j, n
<1>8. {d.job : d \in flight' \ flight} = {j}
    BY <1>4, <1>5, <1>7
<1>9. /\ modal' = [kind |-> modal.kind, screen |-> modal.screen, runs |-> modal.runs, to |-> modal.to,
                   jobs |-> modal.jobs \cup {j}, submitting |-> TRUE, released |-> modal.released]
    BY <1>1, <1>8 DEF FormInv, OverlayOK
<1>10. /\ modal'.kind = modal.kind /\ modal'.runs = modal.runs /\ modal'.jobs = modal.jobs \cup {j}
       /\ modal'.submitting = TRUE /\ modal'.released = modal.released
       /\ modal'.screen = modal.screen /\ modal'.to = modal.to
    BY <1>9
<1>11. Base'
  <2>1. IsFiniteSet(flight')
      BY <1>4, FS_AddElement DEF FormInv, Base
  <2> QED
      BY <1>1, <2>1, BaseKept DEF FormInv
<1>12. OverlayOK'
  <2>1. modal' = [kind |-> modal'.kind, screen |-> modal'.screen, runs |-> modal'.runs,
                  to |-> modal'.to, jobs |-> modal'.jobs, submitting |-> modal'.submitting,
                  released |-> modal'.released]
      BY <1>9, <1>10
  <2>2. \A k \in modal'.jobs : k.cmd \in modal'.runs
      BY <1>1, <1>2, <1>6, <1>10 DEF FormInv, OverlayOK
  <2> QED
      BY <1>1, <1>10, <2>1, <2>2 DEF FormInv, OverlayOK
<1>13. Expected'
    BY <1>1, <1>10 DEF Expected, Sent
<1>14. Own' = Own \cup {c}
  <2>1. Own' = {d \in flight \cup {c} : d.job \in modal.jobs \cup {j}}
      BY <1>4, <1>10 DEF Own
  <2> QED
      BY <1>5, <1>7, <2>1 DEF Own
<1>15. Waits'
    BY <1>1, <1>10, <1>14 DEF FormInv, Waits
<1> QED
    BY <1>11, <1>12, <1>13, <1>15 DEF FormInv

LEMMA AgreeKeepsForm ==
    ASSUME FormInv, Agree
    PROVE  FormInv'
<1> DEFINE e == [Now(modal.runs) EXCEPT !.to = modal.to]
<1>1. Perform(flight, view, modal.screen, e, NoModal) /\ app' = app /\ tour' = tour
    BY DEF Agree, Press
<1>2. e.opens = "none" /\ e.runs = modal.runs
    BY DEF Now, Nothing
<1> HIDE DEF e
<1>3. IsFiniteSet(flight')
    BY <1>1, <1>2, PerformFinite DEF FormInv, Base, OverlayOK
<1>4. Base'
    BY <1>1, <1>3, BaseKept DEF FormInv
<1>5. modal' = NoModal
    BY <1>1, <1>2 DEF Perform, Overlay
<1> QED
    BY <1>4, <1>5, NoOverlay

LEMMA LeavingKeepsForm ==
    ASSUME FormInv, Dismiss \/ SignOutKey
    PROVE  FormInv'
<1>1. modal' = NoModal /\ flight' = flight /\ tour' = tour
    BY DEF Dismiss, SignOutKey, SignOut, Press
<1>2. Base'
    BY <1>1, BaseKept DEF Dismiss, SignOutKey, SignOut, FormInv, Base
<1> QED
    BY <1>1, <1>2, NoOverlay

LEMMA ScreenKeepsForm ==
    ASSUME FormInv, ScreenKey
    PROVE  FormInv'
<1> DEFINE s == app.nav
<1>1. PICK e \in Keys(s, view[s].pane, view[s].ready) : Perform(flight, view, s, e, NoModal)
    BY DEF ScreenKey
<1>2. app.signedIn /\ app.built /\ app' = app /\ tour' = tour
    BY DEF ScreenKey, AtScreen, Press
<1>3. Opens(e)
    BY NavIsScreen, KeysOpen DEF FormInv
<1>4. IsFiniteSet(flight')
    BY <1>1, <1>3, PerformFinite DEF FormInv, Base, Opens
<1>5. Base'
    BY <1>2, <1>4, BaseKept DEF FormInv
<1>6. modal' = NoModal \/ modal' = Anew(s, e)
    BY <1>1 DEF Perform, Overlay, Anew
<1> QED
    BY <1>2, <1>3, <1>5, <1>6, NewOverlay

(* A screen is loaded while no overlay is open.                               *)
LEMMA LoadingKeepsForm ==
    ASSUME FormInv, RefreshKey \/ RetryKey \/ \E s \in tour.screens : GoTo(s)
    PROVE  FormInv'
<1>1. (modal.kind = "none" \/ ~ app.built) /\ modal' = modal /\ tour' = tour
    BY DEF RefreshKey, RetryKey, GoTo, AtScreen, Press
<1>2. /\ IsFiniteSet(flight)
      /\ \A s \in tour.screens : \A p : IsFiniteSet(Refresh(s, p))
    BY NavIsScreen, RefreshLoads DEF FormInv, Base, Loads
<1>3. ASSUME NEW s \in tour.screens, Refreshed(flight, s)
      PROVE  IsFiniteSet(flight')
    BY <1>2, <1>3, RunFinite DEF Refreshed
<1>4. CASE RefreshKey
  <2>1. IsFiniteSet(flight') /\ app' = app
      BY <1>3, <1>4, NavIsScreen DEF RefreshKey, FormInv
  <2>2. Base'
      BY <1>1, <2>1, BaseKept DEF FormInv
  <2> QED
      BY <1>1, <2>2, NoneIsOpen
<1>5. CASE RetryKey
  <2>1. IsFiniteSet(flight') /\ app' = app
      BY <1>2, <1>5, SessionLoads, RunFinite DEF RetryKey, StartSession, Loads
  <2>2. Base'
      BY <1>1, <2>1, BaseKept DEF FormInv
  <2> QED
      BY <1>1, <2>2, NoneIsOpen
<1>6. ASSUME NEW s \in tour.screens, GoTo(s)
      PROVE  FormInv'
  <2>1. IsFiniteSet(flight') /\ app' = [app EXCEPT !.nav = s]
      BY <1>2, <1>3, <1>6 DEF GoTo
  <2>2. Base'
      BY <1>1, <2>1, BaseKept DEF FormInv
  <2> QED
      BY <1>1, <2>2, NoneIsOpen
<1> QED
    BY <1>4, <1>5, <1>6

LEMMA LoginKeepsForm ==
    ASSUME FormInv, NEW l, NEW others, IsFiniteSet(others), NEW cs, IsFiniteSet(cs),
           AtLogin(l, others, cs), tour' = tour
    PROVE  FormInv'
<1>1. Base'
    BY LoginBase DEF FormInv
<1>2. ~ app.signedIn /\ modal' = modal
    BY DEF AtLogin
<1> QED
    BY <1>1, <1>2, NoneIsOpen

LEMMA KeysKeepForms ==
    ASSUME FormInv, KeyNext
    PROVE  FormInv'
<1>1. CASE SubmitLogin \/ SwitchMode \/ ClearLogin
  <2>1. IsFiniteSet(flight) /\ IsFiniteSet({}) /\ IsFiniteSet({SignInCommand})
      BY FS_EmptySet, FS_Singleton DEF FormInv, Base
  <2>2. tour' = tour
      BY <1>1 DEF SubmitLogin, SwitchMode, ClearLogin, Press
  <2>3. (\E l : AtLogin(l, flight, {SignInCommand})) \/ (\E l : AtLogin(l, flight, {}))
      BY <1>1 DEF SubmitLogin, SwitchMode, ClearLogin
  <2> QED
      BY <2>1, <2>2, <2>3, LoginKeepsForm
<1> QED
    BY <1>1, SubmitKeepsForm, AgreeKeepsForm, LeavingKeepsForm, ScreenKeepsForm, LoadingKeepsForm
       DEF KeyNext

(* Messages.                                                                  *)

LEMMA ItsCalls ==
    ASSUME OverlayOK, modal.kind \in {"form", "upload"}, NEW c, c.job \in modal.jobs
    PROVE  /\ modal.kind = "form" => ItsForm(c) /\ OfForm(c.job.cmd)
           /\ modal.kind = "upload" => OfUpload(c.job.cmd)
<1>1. c.job.cmd \in modal.runs
    BY DEF OverlayOK
<1>2. ASSUME modal.kind = "form"
      PROVE  ItsForm(c) /\ OfForm(c.job.cmd)
  <2>1. PICK x : modal.runs = {x} /\ OfForm(x)
      BY <1>2 DEF OverlayOK
  <2>2. c.job.cmd = x
      BY <1>1, <2>1
  <2> QED
      BY <1>2, <2>1, <2>2 DEF ItsForm, Tag
<1>3. ASSUME modal.kind = "upload"
      PROVE  OfUpload(c.job.cmd)
  <2>1. PICK x : modal.runs = {x} /\ OfUpload(x)
      BY <1>3 DEF OverlayOK
  <2>2. c.job.cmd = x
      BY <1>1, <2>1
  <2> QED
      BY <2>1, <2>2
<1> QED
    BY <1>2, <1>3

(* An answer the form did not ask for leaves it its calls.                    *)
LEMMA OwnKept ==
    ASSUME OverlayOK, modal.kind \in {"form", "upload"}, modal' = modal,
           NEW c, c.job \notin modal.jobs, NEW w, NEW s, NEW cs, Loads(cs),
           flight' = Others(c) \/ flight' = Others(c) \cup Calls(w, s, cs)
    PROVE  Own' = Own
<1>1. \A d \in Calls(w, s, cs) : d.job \notin modal.jobs
    BY LoadsAreNotOwn
<1> QED
    BY <1>1 DEF Own, Others

LEMMA OthersFinite ==
    ASSUME FormInv, NEW c
    PROVE  IsFiniteSet(Others(c))
BY FS_RemoveElement DEF FormInv, Base, Others

LEMMA RefDataKeepsForm ==
    ASSUME FormInv, NEW c \in flight, DeliverRefData(c)
    PROVE  FormInv'
<1>1. app.signedIn /\ Tag(c) = "app.refdata" /\ tour' = tour
    BY Commands DEF DeliverRefData, Deliver, RefData
<1>2. ASSUME modal.kind \in {"form", "upload"}
      PROVE  c.job \notin modal.jobs
    BY <1>1, <1>2, ItsCalls DEF FormInv, OfForm, OfUpload, Reserved, Uploads, Tag
<1>3. Loads(Refresh(app.nav, view[app.nav].pane)) /\ Loads({})
    BY NavIsScreen, RefreshLoads, LoadsAre DEF FormInv
<1>4. CASE app' = [app EXCEPT !.built = TRUE] /\ Refreshed(Others(c), app.nav) /\ UNCHANGED <<modal, upload>>
  <2>1. IsFiniteSet(flight')
      BY <1>3, <1>4, OthersFinite, RunFinite DEF Refreshed, Loads
  <2>2. Base'
      BY <1>1, <1>4, <2>1, BaseKept DEF FormInv
  <2>3. PICK w : flight' = Others(c) \cup Calls(w, app.nav, Refresh(app.nav, view[app.nav].pane))
      BY <1>4 DEF Refreshed, Run
  <2>4. modal.kind \in {"form", "upload"} => Own' = Own
      BY <1>2, <1>3, <1>4, <2>3, OwnKept DEF FormInv
  <2>5. Expected'
      BY <1>4 DEF FormInv, Expected, Sent
  <2>6. app'.built = TRUE /\ app'.signedIn = app.signedIn
      BY <1>4 DEF FormInv, Base
  <2> QED
      BY <1>1, <1>4, <2>2, <2>4, <2>5, <2>6, SameOverlay
<1>5. CASE SignOut /\ flight' = Others(c)
  <2>1. Base'
      BY <1>1, <1>5, OthersFinite, BaseKept DEF FormInv, SignOut
  <2> QED
      BY <1>5, <2>1, NoOverlay DEF SignOut
<1>6. CASE Drop(c)
  <2>1. Base' /\ modal' = modal /\ app' = app /\ flight' = Others(c) /\ upload' = upload
      BY <1>1, <1>6, OthersFinite, BaseKept DEF FormInv, Drop, uiVars
  <2>2. modal.kind \in {"form", "upload"} => Own' = Own
      BY <1>2, <1>3, <2>1, OwnKept DEF FormInv
  <2>3. Expected'
      BY <2>1 DEF FormInv, Expected, Sent
  <2> QED
      BY <2>1, <2>2, <2>3, SameOverlay DEF FormInv, OverlayOK
<1> QED
    BY <1>4, <1>5, <1>6 DEF DeliverRefData

(* An error ends the wait; a form that was not waiting for this call is       *)
(* released.                                                                  *)
LEMMA ErrorKeepsForm ==
    ASSUME FormInv, NEW c \in flight, modal.kind \in {"form", "upload"},
           modal' = SetError(modal, c), flight' = Others(c), app' = app, tour' = tour,
           upload' = upload
    PROVE  FormInv'
<1> DEFINE r == modal.released \/ c.job \notin modal.jobs
<1>1. /\ modal'.kind = modal.kind /\ modal'.runs = modal.runs /\ modal'.jobs = modal.jobs
      /\ modal'.submitting = FALSE /\ modal'.screen = modal.screen /\ modal'.to = modal.to
    BY DEF SetError, FormInv, OverlayOK
<1>2. modal'.released = r
    BY DEF SetError, FormInv, OverlayOK
<1>3. modal' = [kind |-> modal.kind, screen |-> modal.screen, runs |-> modal.runs, to |-> modal.to,
                jobs |-> modal.jobs, submitting |-> FALSE, released |-> r]
    BY DEF SetError, FormInv, OverlayOK
<1>4. r \in BOOLEAN
    OBVIOUS
<1>5. Base'
    BY OthersFinite, BaseKept DEF FormInv
<1>6. OverlayOK'
  <2> HIDE DEF r
  <2>1. modal' = [kind |-> modal'.kind, screen |-> modal'.screen, runs |-> modal'.runs,
                  to |-> modal'.to, jobs |-> modal'.jobs, submitting |-> modal'.submitting,
                  released |-> modal'.released]
      BY <1>1, <1>2, <1>3
  <2> QED
      BY <1>1, <1>2, <1>4, <2>1 DEF FormInv, OverlayOK
<1>7. Own' = Own \ {c}
    BY <1>1 DEF Own, Others
<1>8. Waits'
  <2>1. ASSUME ~ r
        PROVE  Own' = {}
    <3>1. ~ modal.released /\ c \in Own
        BY <2>1 DEF Own
    <3>2. Own = {c}
        BY <3>1 DEF FormInv, Waits
    <3> QED
        BY <1>7, <3>2
  <2> HIDE DEF r
  <2> QED
      BY <1>1, <1>2, <2>1 DEF Waits
<1>9. Expected'
    BY <1>1 DEF FormInv, Expected, Sent
<1> QED
    BY <1>5, <1>6, <1>8, <1>9 DEF FormInv

LEMMA RejectionKeepsForm ==
    ASSUME FormInv, NEW c \in flight, DeliverRejection(c)
    PROVE  FormInv'
<1>1. c.job.cmd.kind = "done" /\ app' = app /\ tour' = tour /\ upload' = upload
    BY DEF DeliverRejection, Deliver
<1>2. CASE ItsForm(c)
  <2>1. modal' = SetError(modal, c) /\ flight' = Others(c) /\ modal.kind = "form"
      BY <1>2 DEF DeliverRejection, ItsForm
  <2> QED
      BY <1>1, <2>1, ErrorKeepsForm
<1>3. CASE ~ ItsForm(c)
  <2>1. modal' = modal
      BY <1>3 DEF DeliverRejection
  <2>2. PICK w : flight' = Others(c) \/ flight' = Others(c) \cup Calls(w, "app", {RefData})
      BY <1>3 DEF DeliverRejection, StartSession, Run
  <2>3. IsFiniteSet(flight')
      BY <2>2, OthersFinite, SessionLoads, CallsFinite, FS_Union DEF Loads
  <2>4. Base'
      BY <1>1, <2>3, BaseKept DEF FormInv
  <2>5. ASSUME modal.kind \in {"form", "upload"}
        PROVE  Own' = Own
    <3>1. c.job \notin modal.jobs
        BY <1>1, <1>3, <2>5, ItsCalls DEF FormInv, OfUpload
    <3> QED
        BY <2>1, <2>2, <2>5, <3>1, SessionLoads, OwnKept DEF FormInv
  <2>6. Expected'
      BY <1>1, <2>1 DEF FormInv, Expected, Sent
  <2> QED
      BY <1>1, <2>1, <2>4, <2>5, <2>6, SameOverlay DEF FormInv, OverlayOK
<1> QED
    BY <1>2, <1>3

LEMMA DoneKeepsForm ==
    ASSUME FormInv, NEW c \in flight, DeliverDone(c)
    PROVE  FormInv'
<1> DEFINE more == IF c.job.cmd.invalidate THEN SessionCall ELSE {}
           s == c.job.screen
           e == IF app.built THEN After(s, Tag(c), view[s].pane) ELSE Nothing
           m == IF ItsForm(c) THEN NoModal ELSE modal
<1>1. /\ app.signedIn /\ c.job.cmd.kind = "done" /\ app' = app /\ tour' = tour
      /\ Perform(Others(c) \cup more, view, s, e, m)
    BY DEF DeliverDone, Deliver
<1>2. Follows(e)
    BY AfterFollows, OneEach
<1>3. app.built \/ e.opens = "none"
    BY EffectsAre
<1>4. NotOwn(more) /\ IsFiniteSet(more)
  <2>1. NotOwn(SessionCall)
      BY SessionLoads, LoadsAreNotOwn DEF NotOwn, SessionCall, FormInv
  <2>2. IsFiniteSet(SessionCall)
      BY SessionLoads, CallsFinite DEF SessionCall, Loads
  <2> QED
      BY <2>1, <2>2, FS_EmptySet DEF NotOwn
<1> HIDE DEF more, s, e
<1>5. Opens(e) /\ IsFiniteSet(e.runs)
    BY <1>2 DEF Follows, Opens
<1>6. IsFiniteSet(Others(c) \cup more)
    BY <1>4, OthersFinite, FS_Union
<1>7. IsFiniteSet(flight')
    BY <1>1, <1>5, <1>6, PerformFinite
<1>8. Base'
    BY <1>1, <1>7, BaseKept DEF FormInv
<1>9. ASSUME ~ ItsForm(c)
      PROVE  NotOwn(flight \ Others(c))
  <2>1. \A d \in flight \ Others(c) : d = c
      BY DEF Others
  <2>2. modal.kind \in {"form", "upload"} => c.job \notin modal.jobs
      BY <1>1, <1>9, ItsCalls DEF FormInv, OfUpload
  <2> QED
      BY <2>1, <2>2 DEF NotOwn
<1>10. m = NoModal \/ (m = modal /\ Follows(e) /\ NotOwn(more) /\ NotOwn(flight \ Others(c)))
    BY <1>2, <1>4, <1>9
<1>11. modal.kind # "none" => app.built
    BY DEF FormInv, OverlayOK
<1> HIDE DEF m
<1>12. Others(c) \subseteq flight
    BY DEF Others
<1> QED
    BY <1>1, <1>3, <1>5, <1>8, <1>10, <1>11, <1>12, PerformKeeps

LEMMA LoadedKeepsForm ==
    ASSUME FormInv, NEW c \in flight, DeliverLoaded(c)
    PROVE  FormInv'
<1>1. /\ app.signedIn /\ c.job.cmd.kind = "load" /\ c.job.cmd.tag \notin Uploads /\ tour' = tour
      /\ app' = app
    BY DEF DeliverLoaded, Deliver, Drop, uiVars, Tag
<1>2. modal.kind \in {"form", "upload"} => c.job \notin modal.jobs
    BY <1>1, OthersAreNotOwn DEF FormInv
<1>3. ASSUME app.built, NEW v, NEW s, NEW p,
             NEW e \in Answers(s, Tag(c), p, Ok(c)), Perform(Others(c), v, s, e, modal)
      PROVE  FormInv'
  <2>1. Follows(e)
      BY <1>3, AnswersFollow
  <2>2. Opens(e) /\ IsFiniteSet(e.runs)
      BY <2>1 DEF Follows, Opens
  <2>3. IsFiniteSet(flight')
      BY <1>3, <2>2, OthersFinite, PerformFinite
  <2>4. Base'
      BY <1>1, <2>3, BaseKept DEF FormInv
  <2>5. NotOwn({}) /\ NotOwn(flight \ Others(c)) /\ Others(c) \subseteq flight
      BY <1>2 DEF NotOwn, Others
  <2>6. Perform(Others(c) \cup {}, v, s, e, modal)
      BY <1>3
  <2> QED
      BY <1>1, <1>3, <2>1, <2>2, <2>4, <2>5, <2>6, PerformKeeps
<1>4. CASE Drop(c)
  <2>1. Base' /\ modal' = modal /\ flight' = Others(c) /\ upload' = upload
      BY <1>1, <1>4, OthersFinite, BaseKept DEF FormInv, Drop, uiVars
  <2>2. modal.kind \in {"form", "upload"} => Own' = Own
      BY <1>2, <2>1, LoadsAre, OwnKept DEF FormInv
  <2>3. Expected'
      BY <2>1 DEF FormInv, Expected, Sent
  <2> QED
      BY <1>1, <2>1, <2>2, <2>3, SameOverlay DEF FormInv, OverlayOK
<1> QED
    BY <1>3, <1>4 DEF DeliverLoaded

LEMMA ParseKeepsForm ==
    ASSUME FormInv, NEW c \in flight, DeliverParse(c)
    PROVE  FormInv'
<1>1. /\ app.signedIn /\ c.job.cmd.tag \in Uploads /\ tour' = tour /\ app' = app
      /\ flight' = Others(c)
    BY DEF DeliverParse, Deliver, Tag
<1>2. Base'
    BY <1>1, OthersFinite, BaseKept DEF FormInv
<1>3. ASSUME ~ Sent(modal), modal.kind \in {"form", "upload"}
      PROVE  c.job \notin modal.jobs
    BY <1>1, <1>3, ItsCalls DEF Sent, FormInv, OfForm, Reserved
<1>4. ASSUME ~ Sent(modal), modal' = modal
      PROVE  FormInv'
  <2>1. modal.kind \in {"form", "upload"} => Own' = Own
      BY <1>1, <1>3, <1>4, LoadsAre, OwnKept DEF FormInv
  <2>2. Expected'
      BY <1>4 DEF Expected, Sent
  <2> QED
      BY <1>1, <1>2, <1>4, <2>1, <2>2, SameOverlay DEF FormInv, OverlayOK
<1>5. CASE Sent(modal)
  <2>1. app.built /\ upload # "cancelled" /\ modal.kind = "upload"
      BY <1>5 DEF FormInv, Expected, OverlayOK, Sent
  <2>2. (modal' = SetError(modal, c) /\ upload' = upload) \/ modal' = NoModal
      BY <1>5, <2>1 DEF DeliverParse
  <2> QED
      BY <1>1, <1>2, <2>1, <2>2, ErrorKeepsForm, NoOverlay
<1>6. CASE ~ Sent(modal)
    BY <1>4, <1>6 DEF DeliverParse
<1> QED
    BY <1>5, <1>6

LEMMA MessagesKeepForms ==
    ASSUME FormInv, MessageNext
    PROVE  FormInv'
<1>1. PICK c \in flight :
          \/ DeliverAtLogin(c) \/ DeliverRefData(c) \/ DeliverRejection(c) \/ DeliverDone(c)
          \/ DeliverLoaded(c) \/ DeliverParse(c)
    BY DEF MessageNext
<1>2. CASE DeliverAtLogin(c)
  <2>1. tour' = tour /\ \E l : AtLogin(l, Others(c), {})
      BY <1>2 DEF DeliverAtLogin, Deliver
  <2>2. IsFiniteSet({})
      BY FS_EmptySet
  <2> QED
      BY <2>1, <2>2, OthersFinite, LoginKeepsForm
<1> QED
    BY <1>1, <1>2, RefDataKeepsForm, RejectionKeepsForm, DoneKeepsForm, LoadedKeepsForm, ParseKeepsForm

(* The calls themselves: a call keeps its job on its way.                     *)

LEMMA CallKeepsJob ==
    ASSUME TypeInv, NEW c \in flight, CallNext(c)
    PROVE  \E d : d.job = c.job /\ flight' = (flight \ {c}) \cup {d}
<1>1. PICK j, p, g, t, y, r, n : c = Made(j, p, g, t, y, r, n)
    BY DEF TypeInv, IsCall
<1>2. c.job = j
    BY <1>1 DEF Made
<1>3. \A k, q, h, u, z, x, o : Made(k, q, h, u, z, x, o).job = k
    BY DEF Made
<1>4. CASE Send(c)
    BY <1>1, <1>2, <1>4 DEF Send, Step, Made
<1>5. CASE Serve(c) \/ ServeAndLose(c) \/ Fail(c)
    BY <1>1, <1>2, <1>5 DEF Serve, ServeAndLose, Fail, Back, Step, Made
<1>6. CASE Refuse(c)
    BY <1>1, <1>2, <1>6 DEF Refuse, Back, At, Step, Made
<1>7. CASE SignIn(c) \/ CaptureSignIn(c)
    BY <1>1, <1>2, <1>7 DEF SignIn, CaptureSignIn, Back, Step, Made
<1>8. CASE LockAndReplay(c) \/ LockAndGiveUp(c) \/ LockAndExchange(c)
    BY <1>1, <1>2, <1>8 DEF LockAndReplay, LockAndGiveUp, LockAndExchange, Back, Step, Made
<1>9. CASE Rotate(c) \/ Reject(c)
    BY <1>1, <1>2, <1>9 DEF Rotate, Reject, At, Step, Made
<1>10. CASE ExchangeFails(c) \/ LoseExchange(c)
    BY <1>1, <1>2, <1>10 DEF ExchangeFails, LoseExchange, Back, Step, Made
<1>11. CASE CaptureExchange(c) \/ CaptureRejection(c)
    BY <1>1, <1>2, <1>11 DEF CaptureExchange, CaptureRejection, Back, Step, Made
<1> QED
    BY <1>4, <1>5, <1>6, <1>7, <1>8, <1>9, <1>10, <1>11 DEF CallNext

LEMMA TransportKeepsForms ==
    ASSUME FormInv, TypeInv, Transport
    PROVE  FormInv'
<1>1. app' = app /\ modal' = modal /\ upload' = upload /\ tour' = tour
    BY DEF Transport, uiVars
<1>2. Expected'
    BY <1>1 DEF FormInv, Expected, Sent
<1>3. OverlayOK'
    BY <1>1 DEF FormInv, OverlayOK
<1>4. CASE flight' = flight
  <2>1. Base' /\ Waits'
      BY <1>1, <1>4 DEF FormInv, Base, Waits, Own
  <2> QED
      BY <1>2, <1>3, <2>1 DEF FormInv
<1>5. CASE \E c \in flight : CallNext(c)
  <2>0. PICK c \in flight : CallNext(c)
      BY <1>5
  <2>1. PICK d : d.job = c.job /\ flight' = (flight \ {c}) \cup {d}
      BY <2>0, CallKeepsJob
  <2>2. IsFiniteSet(flight')
      BY <2>1, FS_AddElement, FS_RemoveElement DEF FormInv, Base
  <2>3. Base'
      BY <1>1, <2>2, BaseKept DEF FormInv
  <2>4. Own' = IF c \in Own THEN (Own \ {c}) \cup {d} ELSE Own
      BY <1>1, <2>1 DEF Own
  <2>5. Waits'
      BY <1>1, <2>4 DEF FormInv, Waits
  <2> QED
      BY <1>2, <1>3, <2>3, <2>5 DEF FormInv
<1> QED
    BY <1>4, <1>5 DEF Transport, ClientNext, GoStale, EndElsewhere

LEMMA FormInvHolds == Spec => []FormInv
<1>1. Init => FormInv
  <2> SUFFICES ASSUME Init PROVE FormInv
      OBVIOUS
  <2>1. PICK door \in BOOLEAN :
           /\ app = [signedIn |-> door, built |-> FALSE, nav |-> tour.first, visit |-> 0]
           /\ \E job : flight = IF door THEN {Call(job)} ELSE {}
      BY DEF Init
  <2>2. IsFiniteSet(flight)
      BY <2>1, FS_EmptySet, FS_Singleton
  <2>3. tour \in Tours /\ modal = NoModal
      BY DEF Init
  <2>4. app \in [signedIn : BOOLEAN, built : BOOLEAN, nav : tour.screens, visit : Nat]
      BY <2>1, <2>3, ToursAssumption
  <2>5. Base
      BY <2>2, <2>3, <2>4 DEF Base
  <2>6. /\ modal.kind = "none" /\ modal.runs = {} /\ modal.submitting = FALSE
        /\ modal.released = FALSE
        /\ modal = [kind |-> modal.kind, screen |-> modal.screen, runs |-> modal.runs,
                    to |-> modal.to, jobs |-> modal.jobs, submitting |-> modal.submitting,
                    released |-> modal.released]
      BY <2>3 DEF NoModal, NewModal
  <2>7. OverlayOK
      BY <2>6, FS_EmptySet DEF OverlayOK
  <2>8. Expected /\ Waits
      BY <2>6 DEF Expected, Sent, Waits
  <2> QED
      BY <2>5, <2>7, <2>8 DEF FormInv
<1>2. FormInv /\ ReuseInv /\ [Next]_termVars => FormInv'
  <2> SUFFICES ASSUME FormInv, ReuseInv, [Next]_termVars PROVE FormInv'
      OBVIOUS
  <2>1. CASE Transport
      BY <2>1, TransportKeepsForms DEF ReuseInv
  <2>2. CASE UNCHANGED termVars
    <3>1. UNCHANGED <<app, modal, upload, tour, flight>>
        BY <2>2 DEF termVars, clientVars, uiVars
    <3>2. Base' /\ OverlayOK'
        BY <3>1 DEF FormInv, Base, OverlayOK
    <3>3. Expected' /\ Waits'
        BY <3>1 DEF FormInv, Expected, Sent, Waits, Own
    <3> QED
        BY <3>2, <3>3 DEF FormInv
  <2> QED
      BY <2>1, <2>2, KeysKeepForms, MessagesKeepForms DEF Next
<1> QED
    BY <1>1, <1>2, ReuseInvHolds, PTL DEF Spec

(* A form waits for an answer only while a call of its own is under way, and  *)
(* has then sent exactly one, unless the error of another form with its tag   *)
(* released it (Form.commit and SetError, form.go:305 and 140).               *)
THEOREM FormsWaitForTheirCall == Spec => []FormWaitsForItsCall
<1> QED
    BY FormInvHolds, WaitsForItsCall, PTL

-----------------------------------------------------------------------------
(* What the screens load.  Rows are asked for by loads alone, and a screen that *)
(* shows another pane asks for the rows of that pane, except for those that     *)
(* every pane shows.                                                            *)

Plain(c) == c.tag \in RowTags => c.kind = "load" /\ c.signsIn = FALSE
Plains(cs) == \A c \in cs : Plain(c)

Covers(s, p, cs) ==
    s = "import" \/ p = "same" \/ \A q : Refresh(s, p) \subseteq cs \cup Refresh(s, q)

Sound(s, e) == Plains(e.runs) /\ Covers(s, e.to, e.runs)

LEMMA PlainsAre ==
    /\ Plains({})
    /\ \A t : Plains({Load(t)}) /\ Plains({Save(t)})
    /\ \A t : t \notin RowTags => Plains({Act(t)}) /\ Plains({ActShared(t)}) /\ Plains({Fetch(t)})
    /\ \A a, b : Plains(a) /\ Plains(b) => Plains(a \cup b)
    /\ \A a : \A b \in SUBSET a : Plains(a) => Plains(b)
<1>1. ASSUME NEW t
      PROVE  /\ Plain(Load(t)) /\ Plain(Save(t))
             /\ t \notin RowTags => Plain(Act(t)) /\ Plain(ActShared(t)) /\ Plain(Fetch(t))
  <2>1. Load(t).kind = "load" /\ Load(t).signsIn = FALSE
      BY DEF Load
  <2>2. Save(t).kind = "load" /\ Save(t).signsIn = FALSE
      BY DEF Save, Load
  <2>3. Act(t).tag = t /\ ActShared(t).tag = t /\ Fetch(t).tag = t
      BY Commands
  <2> QED
      BY <2>1, <2>2, <2>3 DEF Plain
<1> QED
    BY <1>1 DEF Plains

LEMMA EffectsShow ==
    /\ Nothing.to = "same" /\ Info.to = "same"
    /\ \A c : Form(c).to = "same" /\ Upload(c).to = "same"
    /\ \A cs : /\ Now(cs).to = "same" /\ Local(cs).to = "same" /\ Confirm(cs).to = "same"
               /\ Picker(cs).to = "same" /\ [Info EXCEPT !.runs = cs].to = "same"
    /\ \A p, cs : /\ Show(p, cs).to = p /\ [Local(cs) EXCEPT !.to = p].to = p
                  /\ [Info EXCEPT !.to = p, !.runs = cs].to = p
BY DEF Nothing, Now, Form, Upload, Local, Confirm, Picker, Info, Show

LEMMA SoundAre ==
    ASSUME NEW s
    PROVE  /\ Sound(s, Nothing) /\ Sound(s, Info)
           /\ \A c : Plains({c}) => Sound(s, Form(c)) /\ Sound(s, Upload(c))
           /\ \A cs : Plains(cs) => /\ Sound(s, Now(cs)) /\ Sound(s, Local(cs))
                                    /\ Sound(s, Confirm(cs)) /\ Sound(s, Picker(cs))
                                    /\ Sound(s, [Info EXCEPT !.runs = cs])
           /\ \A p, cs : Plains(cs) /\ Covers(s, p, cs) =>
                 /\ Sound(s, Show(p, cs)) /\ Sound(s, [Local(cs) EXCEPT !.to = p])
                 /\ Sound(s, [Info EXCEPT !.to = p, !.runs = cs])
<1>1. \A p, cs : p = "same" => Covers(s, p, cs)
    BY DEF Covers
<1>2. Sound(s, Nothing) /\ Sound(s, Info)
    BY <1>1, EffectsAre, EffectsShow, PlainsAre DEF Sound
<1>3. ASSUME NEW c, Plains({c})
      PROVE  Sound(s, Form(c)) /\ Sound(s, Upload(c))
  <2>1. /\ Form(c).runs = {c} /\ Form(c).to = "same"
        /\ Upload(c).runs = {c} /\ Upload(c).to = "same"
      BY EffectsAre, EffectsShow
  <2> QED
      BY <1>1, <1>3, <2>1 DEF Sound
<1>4. ASSUME NEW cs, Plains(cs)
      PROVE  /\ Sound(s, Now(cs)) /\ Sound(s, Local(cs)) /\ Sound(s, Confirm(cs))
             /\ Sound(s, Picker(cs)) /\ Sound(s, [Info EXCEPT !.runs = cs])
    BY <1>1, <1>4, EffectsAre, EffectsShow DEF Sound
<1>5. ASSUME NEW p, NEW cs, Plains(cs), Covers(s, p, cs)
      PROVE  /\ Sound(s, Show(p, cs)) /\ Sound(s, [Local(cs) EXCEPT !.to = p])
             /\ Sound(s, [Info EXCEPT !.to = p, !.runs = cs])
    BY <1>5, EffectsAre, EffectsShow DEF Sound
<1> QED
    BY <1>2, <1>3, <1>4, <1>5

(* Screen by screen.                                                          *)

LEMMA AccountsSound ==
    ASSUME NEW s
    PROVE  /\ \A e \in AccountsKeys : Sound(s, e)
           /\ \A t : \A e \in AccountsAnswer(t) : Sound(s, e)
           /\ \A t : Sound(s, AccountsAfter(t))
<1>1. \A t \in {"accounts.save", "accounts.delete", "accounts.export", "accounts.schedule.save",
               "accounts.schedule.delete", "accounts.transfer", "accounts.disbursement.unlink"} :
          Plains({Act(t)}) /\ Plains({ActShared(t)}) /\ Plains({Fetch(t)})
    BY PlainsAre DEF RowTags
<1>2. \A e \in AccountsKeys : Sound(s, e)
  <2>1. \A e \in AccountEdits \cup ScheduleEdits \cup AccountTransfer : Sound(s, e)
      BY <1>1, SoundAre DEF AccountEdits, ScheduleEdits, AccountTransfer
  <2>2. \A e \in AccountLookups \cup {Now({Load("accounts.disbursement")})} : Sound(s, e)
    <3>1. Sound(s, Form(Fetch("accounts.export"))) /\ Sound(s, Info)
        BY <1>1, SoundAre
    <3>2. \A t : Sound(s, Now({Load(t)}))
        BY PlainsAre, SoundAre
    <3> QED
        BY <3>1, <3>2 DEF AccountLookups
  <2> QED
      BY <2>1, <2>2 DEF AccountsKeys
<1>3. \A t : \A e \in AccountsAnswer(t) : Sound(s, e)
    BY <1>1, PlainsAre, SoundAre DEF AccountsAnswer, DisbursementAnswer, CreditsAnswer
<1>4. \A t : Sound(s, AccountsAfter(t))
    BY PlainsAre, SoundAre DEF AccountsAfter, AccountsRefresh
<1> QED
    BY <1>2, <1>3, <1>4

LEMMA ViewsSound ==
    ASSUME NEW s
    PROVE  \A e \in CalendarKeys \cup DashboardKeys \cup FlowKeys : Sound(s, e)
<1>1. /\ Plains(CalendarRefresh) /\ Plains(DashboardRefresh) /\ Plains(FlowGraph)
      /\ Plains(FlowTimeline) /\ Plains(FlowRefresh)
    BY PlainsAre DEF CalendarRefresh, DashboardRefresh, FlowGraph, FlowTimeline, FlowRefresh
<1> QED
    BY <1>1, SoundAre
       DEF CalendarKeys, CalendarWindow, DashboardKeys, DashboardFraming, DashboardWindow, FlowKeys,
           FlowScrub, FlowFraming, FlowForms

LEMMA CategoriesSound ==
    ASSUME NEW s
    PROVE  /\ \A e \in CategoriesKeys : Sound(s, e)
           /\ \A e \in ImpactAnswer : Sound(s, e)
           /\ \A t : \A e \in CategoriesAnswer(t) : Sound(s, e)
<1>1. \A t \in {"categories.group.create", "categories.group.update", "categories.category.create",
               "categories.category.update", "categories.global.group",
               "categories.global.category.create", "categories.global.category.update",
               "categories.group.delete", "categories.category.delete",
               "categories.global.category.delete"} : Plains({ActShared(t)})
    BY PlainsAre DEF RowTags
<1>2. \A e \in ImpactAnswer : Sound(s, e)
    BY <1>1, SoundAre DEF ImpactAnswer
<1>3. \A e \in CategoryEdits : Sound(s, e)
    BY <1>1, SoundAre DEF CategoryEdits
<1>4. \A e \in CategoryDelete : Sound(s, e)
    BY <1>1, PlainsAre, SoundAre DEF CategoryDelete
<1>5. \A e \in GlobalEdits : Sound(s, e)
    BY <1>1, SoundAre DEF GlobalEdits
<1>6. \A e \in CategoriesKeys : Sound(s, e)
    BY <1>3, <1>4, <1>5, PlainsAre, SoundAre DEF CategoriesKeys
<1>7. \A t : \A e \in CategoriesAnswer(t) : Sound(s, e)
    BY <1>2, SoundAre DEF CategoriesAnswer
<1> QED
    BY <1>2, <1>6, <1>7

LEMMA ListsSound ==
    ASSUME NEW s
    PROVE  /\ \A e \in PayeesKeys \cup RulesKeys \cup TagsKeys : Sound(s, e)
           /\ \A t : \A e \in RulesAnswer(t) : Sound(s, e)
           /\ Sound(s, PayeesAfter) /\ Sound(s, TagsAfter)
           /\ \A t : Sound(s, RulesAfter(t))
<1>1. \A t \in {"payees.save", "payees.delete", "rules.save", "rules.delete", "rules.apply",
               "tags.rename"} : Plains({Act(t)}) /\ Plains({ActShared(t)})
    BY PlainsAre DEF RowTags
<1>2. Plains(PayeesRefresh) /\ Plains(RulesRefresh) /\ Plains(TagsRefresh)
    BY PlainsAre DEF PayeesRefresh, RulesRefresh, TagsRefresh
<1>3. \A e \in PayeesKeys \cup RulesKeys \cup TagsKeys : Sound(s, e)
    BY <1>1, PlainsAre, SoundAre
       DEF PayeesKeys, PayeesWrites, RulesKeys, RulesSaves, RulesRuns, TagsKeys, TagsRename
<1>4. \A t : \A e \in RulesAnswer(t) : Sound(s, e)
    BY SoundAre DEF RulesAnswer
<1>5. Sound(s, PayeesAfter) /\ Sound(s, TagsAfter) /\ \A t : Sound(s, RulesAfter(t))
    BY <1>2, SoundAre DEF PayeesAfter, TagsAfter, RulesAfter
<1> QED
    BY <1>3, <1>4, <1>5

LEMMA LinksSound ==
    ASSUME NEW p
    PROVE  /\ \A e \in LinksKeys(p) : Sound("links", e)
           /\ Sound("links", LinksAfter(p))
<1>1. \A t \in {"links.create", "links.bulk", "links.delete", "links.confirm"} : Plains({Act(t)})
    BY PlainsAre DEF RowTags
<1>2. \A q : Plains(LinksRefresh(q))
    BY PlainsAre DEF LinksRefresh
<1>3. \A q : Covers("links", q, LinksRefresh(q))
    BY DEF Covers, Refresh
<1>4. Sound("links", LinksNext(p))
    BY <1>2, <1>3, SoundAre DEF LinksNext
<1>5. \A e \in LinksWrites \cup {LinksType, Info} \cup LinksConfirm \cup LinksSuggestions
               \cup {LinksWindow} : Sound("links", e)
  <2>1. \A e \in LinksWrites \cup LinksConfirm : Sound("links", e)
      BY <1>1, SoundAre DEF LinksWrites, LinksConfirm
  <2>2. \A t : Sound("links", Picker({Load(t)})) /\ Sound("links", Now({Load(t)}))
                 /\ Sound("links", Local({Load(t)}))
      BY PlainsAre, SoundAre
  <2> QED
      BY <2>1, <2>2, SoundAre DEF LinksType, LinksSuggestions, LinksWindow
<1>6. \A e \in LinksKeys(p) : Sound("links", e)
    BY <1>4, <1>5 DEF LinksKeys
<1> QED
    BY <1>2, <1>6, SoundAre DEF LinksAfter

\* Each pane of this screen shows the series as well.
LEMMA RecurringSound ==
    ASSUME NEW p
    PROVE  /\ \A e \in RecurringKeys(p) : Sound("recurring", e)
           /\ \A t, s : \A e \in RecurringAnswer(t) : Sound(s, e)
           /\ \A t : Sound("recurring", RecurringAfter(t, p))
<1>1. \A t \in {"recurring.save", "recurring.delete", "recurring.term.save", "recurring.term.delete",
               "recurring.attach", "recurring.detach"} : Plains({Act(t)})
    BY PlainsAre DEF RowTags
<1>2. \A q : Plains(RecurringPane(q))
    BY PlainsAre DEF RecurringPane
<1>3. \A q : Plains(RecurringRefresh(q))
    BY <1>2, PlainsAre DEF RecurringRefresh
<1>4. \A q, cs : RecurringPane(q) \subseteq cs => Covers("recurring", q, cs)
    BY DEF Covers, Refresh, RecurringRefresh
<1>5. \A e \in SeriesWrites \cup {SeriesForecast} : Sound("recurring", e)
    BY <1>1, PlainsAre, SoundAre DEF SeriesWrites, SeriesForecast
<1>6. \A e \in SeriesPanes : Sound("recurring", e)
  <2>1. \A q : /\ Sound("recurring", Show(q, RecurringPane(q)))
               /\ Sound("recurring", [Local(RecurringPane(q)) EXCEPT !.to = q])
      BY <1>2, <1>4, SoundAre
  <2> QED
      BY <2>1 DEF SeriesPanes
<1>7. Sound("recurring", Show("list", {}))
  <2>1. RecurringPane("list") = {}
      BY DEF RecurringPane
  <2> QED
      BY <1>4, <2>1, PlainsAre, SoundAre
<1>8. \A e \in TermWrites \cup {AttachWrites(p)} : Sound("recurring", e)
  <2>1. \A e \in TermWrites : Sound("recurring", e)
      BY <1>1, SoundAre DEF TermWrites
  <2>2. /\ Sound("recurring", Now({Act("recurring.attach")}))
        /\ Sound("recurring", Confirm({Act("recurring.detach")}))
      BY <1>1, SoundAre
  <2> QED
      BY <2>1, <2>2 DEF AttachWrites
<1>9. \A e \in RecurringKeys(p) : Sound("recurring", e)
    BY <1>5, <1>6, <1>7, <1>8 DEF RecurringKeys
<1>10. \A t, s : \A e \in RecurringAnswer(t) : Sound(s, e)
    BY SoundAre DEF RecurringAnswer
<1>11. \A t : Sound("recurring", RecurringAfter(t, p))
  <2>1. Covers("recurring", "list", RecurringRefresh("list"))
      BY <1>4 DEF RecurringRefresh
  <2> QED
      BY <1>3, <2>1, SoundAre DEF RecurringAfter
<1> QED
    BY <1>9, <1>10, <1>11

LEMMA SettingsSound ==
    ASSUME NEW p, NEW ready
    PROVE  /\ \A e \in SettingsKeys(p, ready) : Sound("settings", e)
           /\ \A t, s : Sound(s, SettingsAfter(t))
<1>1. \A t \in {"settings.paperless", "settings.export", "settings.types", "settings.import"} :
          Plains({Act(t)}) /\ Plains({ActShared(t)}) /\ Plains({Fetch(t)})
    BY PlainsAre DEF RowTags
<1>2. Plains(SettingsPaperless) /\ Plains(SettingsTypes)
    BY PlainsAre DEF SettingsPaperless, SettingsTypes
<1>3. \A q : Covers("settings", q, {})
    BY DEF Covers, Refresh
<1>4. \A e \in TypeEdits \cup {TypeCreate, SettingsRestore} \cup SettingsForms : Sound("settings", e)
    BY <1>1, SoundAre DEF TypeEdits, TypeCreate, SettingsRestore, SettingsForms
<1>5. Sound("settings", Show("overview", {})) /\ Sound("settings", Show("catalog", {}))
    BY <1>3, PlainsAre, SoundAre
<1>6. \A e \in SettingsKeys(p, ready) : Sound("settings", e)
    BY <1>4, <1>5 DEF SettingsKeys
<1>7. \A t, s : Sound(s, SettingsAfter(t))
    BY <1>2, SoundAre DEF SettingsAfter
<1> QED
    BY <1>6, <1>7

\* What the import screen keeps is not followed.
LEMMA ImportSound ==
    ASSUME NEW p
    PROVE  /\ \A ready : \A e \in ImportKeys(p, ready) : Sound("import", e)
           /\ \A t, ok : \A e \in ImportAnswer(t, p, ok) : Sound("import", e)
<1>1. \A q, cs : Covers("import", q, cs)
    BY DEF Covers
<1>2. Plains(ImportDocs) /\ Plains({}) /\ \A q : Plains(ImportRefresh(q))
    BY PlainsAre DEF ImportDocs, ImportRefresh
<1>3. \A ready : Sound("import", ImportNext(p, ready))
  <2>1. \A q, ready : Plains({c \in ImportRefresh(q) : c.tag \notin ready})
      BY <1>2 DEF Plains
  <2> QED
      BY <1>1, <2>1, SoundAre DEF ImportNext
<1>4. /\ Sound("import", StatementUpload) /\ Sound("import", PaperlessUpload)
      /\ Sound("import", CsvMapping) /\ Sound("import", ImportTarget) /\ Sound("import", Discard(p))
    BY <1>1, <1>2, PlainsAre, SoundAre
       DEF StatementUpload, PaperlessUpload, CsvMapping, ImportTarget, Discard
<1>5. \A e \in PaperlessSearch : Sound("import", e)
    BY <1>2, SoundAre DEF PaperlessSearch
<1>6. \A ready : \A e \in ImportKeys(p, ready) : Sound("import", e)
    BY <1>3, <1>4, <1>5 DEF ImportKeys
<1>7. ASSUME NEW ok
      PROVE  \A e \in SettingsLanded(ok) \cup CyclesLanded(p, ok) \cup CheckLanded(p, ok)
                       \cup CommitLanded(p, ok) : Sound("import", e)
  <2>1. \A e \in SettingsLanded(ok) : Sound("import", e)
      BY <1>2, SoundAre DEF SettingsLanded
  <2>2. Sound("import", ImportCheck(p))
      BY PlainsAre, SoundAre DEF ImportCheck
  <2>3. Plains(ImportCheck(p).runs)
      BY <2>2 DEF Sound
  <2>4. \A e \in CyclesLanded(p, ok) : Sound("import", e)
      BY <2>2, <2>3, SoundAre DEF CyclesLanded
  <2>5. \A e \in CheckLanded(p, ok) : Sound("import", e)
      BY PlainsAre, SoundAre DEF CheckLanded
  <2>6. \A e \in CommitLanded(p, ok) : Sound("import", e)
    <3>1. ASSUME NEW d \in {{}, ImportDocs}
          PROVE  Sound("import", [Info EXCEPT !.to = Source(p), !.runs = d])
        BY <1>1, <1>2, SoundAre
    <3> QED
        BY <3>1, SoundAre DEF CommitLanded
  <2> QED
      BY <2>1, <2>4, <2>5, <2>6
<1>8. \A t, ok : \A e \in ImportAnswer(t, p, ok) : Sound("import", e)
    BY <1>7, SoundAre DEF ImportAnswer
<1> QED
    BY <1>6, <1>8

LEMMA TransactionsSound ==
    ASSUME NEW s
    PROVE  /\ \A e \in TxnKeys : Sound(s, e)
           /\ \A t : \A e \in TxnAnswer(t) : Sound(s, e)
           /\ \A t : Sound(s, TxnAfter(t))
<1>1. \A t \in {"txn.save", "txn.bulk", "txn.export", "txn.delete"} :
          Plains({Act(t)}) /\ Plains({ActShared(t)}) /\ Plains({Fetch(t)})
    BY PlainsAre DEF RowTags
<1>2. Plains(TxnRefresh)
    BY PlainsAre DEF TxnRefresh
<1>3. \A e \in TxnSaves \cup TxnBulk \cup {TxnFilter, TxnPaging, TxnDelete, TxnExport} : Sound(s, e)
    BY <1>1, <1>2, SoundAre
       DEF TxnSaves, TxnBulk, TxnFilter, TxnPaging, TxnDelete, TxnExport
<1>4. \A e \in TxnKeys : Sound(s, e)
    BY <1>3, PlainsAre, SoundAre DEF TxnKeys
<1>5. \A t : \A e \in TxnAnswer(t) : Sound(s, e)
    BY <1>1, SoundAre DEF TxnAnswer
<1>6. \A t : Sound(s, TxnAfter(t))
    BY <1>2, SoundAre DEF TxnAfter
<1> QED
    BY <1>4, <1>5, <1>6

LEMMA KeysSound ==
    ASSUME NEW s \in Screens, NEW p, NEW ready, NEW e \in Keys(s, p, ready)
    PROVE  Sound(s, e)
BY AccountsSound, ViewsSound, CategoriesSound, ListsSound, LinksSound, RecurringSound, SettingsSound,
   ImportSound, TransactionsSound DEF Screens, Keys

LEMMA AnswersSound ==
    ASSUME NEW s, NEW t, NEW p, NEW ok, NEW e \in Answers(s, t, p, ok)
    PROVE  Sound(s, e)
BY AccountsSound, CategoriesSound, ListsSound, RecurringSound, ImportSound, TransactionsSound,
   SoundAre DEF Answers

LEMMA AfterSound ==
    ASSUME NEW s, NEW t, NEW p
    PROVE  Sound(s, After(s, t, p))
BY AccountsSound, ListsSound, LinksSound, RecurringSound, SettingsSound, TransactionsSound,
   SoundAre DEF After

LEMMA RefreshPlain ==
    ASSUME NEW s \in Screens, NEW p
    PROVE  Plains(Refresh(s, p))
<1>1. /\ Plains(AccountsRefresh) /\ Plains(CalendarRefresh) /\ Plains(DashboardRefresh)
      /\ Plains(PayeesRefresh) /\ Plains(RulesRefresh) /\ Plains(TagsRefresh) /\ Plains(TxnRefresh)
      /\ Plains(LinksRefresh(p)) /\ Plains(ImportRefresh(p)) /\ Plains({})
    BY PlainsAre DEF AccountsRefresh, CalendarRefresh, DashboardRefresh, PayeesRefresh, RulesRefresh,
                     TagsRefresh, TxnRefresh, LinksRefresh, ImportRefresh
<1>2. Plains(RecurringRefresh(p))
    BY PlainsAre DEF RecurringRefresh, RecurringPane
<1>3. Plains(FlowRefresh) /\ Plains(SettingsRefresh)
    BY PlainsAre DEF FlowRefresh, FlowGraph, FlowTimeline, SettingsRefresh, SettingsPaperless,
                     SettingsTypes
<1> QED
    BY <1>1, <1>2, <1>3 DEF Screens, Refresh

(* A screen other than the import keeps the rows every pane of it loads.      *)
LEMMA RefreshKept ==
    ASSUME NEW s \in Screens \ {"import"}, NEW p, NEW d \in Refresh(s, p)
    PROVE  d.tag \in Rows(s)
<1>1. ASSUME NEW q \in Panes(s), d \in Refresh(s, q)
      PROVE  d.tag \in Rows(s)
    BY <1>1 DEF Rows
<1>2. CASE s = "links"
  <2>1. \E q \in {"list", "suggestions", "cycles"} : LinksRefresh(q) = LinksRefresh(p)
      BY DEF LinksRefresh
  <2>2. Refresh(s, p) = LinksRefresh(p) /\ \A q : Refresh(s, q) = LinksRefresh(q)
      BY <1>2 DEF Refresh
  <2> QED
      BY <1>1, <1>2, <2>1, <2>2 DEF Panes
<1>3. CASE s = "recurring"
  <2>1. \E q \in {"list", "terms", "suggestions", "attached"} : RecurringPane(q) = RecurringPane(p)
      BY DEF RecurringPane
  <2>2. \A q : Refresh(s, q) = RecurringRefresh(q)
      BY <1>3 DEF Refresh
  <2> QED
      BY <1>1, <1>3, <2>1, <2>2 DEF Panes, RecurringRefresh
<1>4. CASE s \notin {"links", "recurring"}
  <2>1. \A q : Refresh(s, q) = Refresh(s, p)
      BY <1>4 DEF Refresh, Screens
  <2>2. \E q : q \in Panes(s)
    <3>1. "overview" \in {"overview", "catalog"} /\ "list" \in {"list"}
        OBVIOUS
    <3> QED
        BY <1>4, <3>1 DEF Panes, Screens
  <2> QED
      BY <1>1, <2>1, <2>2
<1> QED
    BY <1>2, <1>3, <1>4

-----------------------------------------------------------------------------
(* The rows a screen keeps, and the calls that answer for them.               *)

Hows == {"none", "asked", "newest", "failed", "late", "stray"}

IsView(v) ==
    /\ v = [s \in tour.screens |-> v[s]]
    /\ \A s \in tour.screens :
          /\ v[s] = [pane |-> v[s].pane, rows |-> v[s].rows, ready |-> v[s].ready]
          /\ v[s].rows \in [Rows(s) -> [data : Nat, how : Hows, asked : Nat]]

(* The call of visit n that was the last to ask for these rows.               *)
Newest(v, n, c, s, t) ==
    /\ c.job.screen = s /\ Tag(c) = t
    /\ c.job.visit = n /\ c.job.n = v[s].rows[t].asked

(* Rows that are marked fresh have been asked for, and both what they hold and *)
(* what the newest call brings are as new as the write k.                      *)
Row(v, calls, k, n, s, t) ==
    /\ v[s].rows[t].how # "none"
    /\ v[s].rows[t].how = "asked" => \E c \in calls : Newest(v, n, c, s, t)
    /\ v[s].rows[t].how = "newest" => v[s].rows[t].data >= k
    /\ s = "transactions" => v[s].rows[t].how # "late"
    /\ \A c \in calls : Newest(v, n, c, s, t) /\ Ok(c) => c.data >= k

AllFresh(f, v, calls, k, n) ==
    \A s \in f \ {"import"} : \A d \in Refresh(s, v[s].pane) : Row(v, calls, k, n, s, d.tag)

(* No call of this visit is newer than the rows it answers for.               *)
Numbered(v, calls, n) ==
    \A c \in calls :
        c.job.screen \in tour.screens /\ Tag(c) \in Rows(c.job.screen) /\ c.job.visit = n =>
            c.job.n \in 0 .. v[c.job.screen].rows[Tag(c)].asked

(* A call carries what the server had when it was served; only a sign-in       *)
(* waits for a pair to be recorded.                                            *)
Carries(calls, top, n) ==
    \A c \in calls :
        /\ Plain(c.job.cmd)
        /\ c.data \in 0 .. top
        /\ c.job.visit \in 0 .. n
        /\ c.pc = "admitted" => c.job.cmd.signsIn

FreshInv ==
    /\ IsView(view)
    /\ fresh \subseteq tour.screens
    /\ fresh # {} => app.signedIn /\ app.built
    /\ server.data \in Nat /\ known \in 0 .. server.data
    /\ Carries(flight, server.data, app.visit)
    /\ app.signedIn => Numbered(view, flight, app.visit)
    /\ AllFresh(fresh, view, flight, known, app.visit)
    /\ Plains(modal.runs) /\ Covers(modal.screen, modal.to, modal.runs)

LEMMA ShownAre ==
    ASSUME NEW v, IsView(v), NEW s, NEW p
    PROVE  /\ IsView(Shown(v, s, p))
           /\ \A x \in tour.screens :
                 /\ Shown(v, s, p)[x].rows = v[x].rows
                 /\ Shown(v, s, p)[x].pane = IF x = s /\ p # "same" THEN p ELSE v[x].pane
<1> DEFINE w == Shown(v, s, p)
<1>1. CASE p = "same"
    BY <1>1 DEF Shown
<1>2. CASE p # "same"
  <2>1. w = [x \in tour.screens |-> IF x = s THEN [v[x] EXCEPT !.pane = p] ELSE v[x]]
      BY <1>2 DEF Shown, IsView
  <2>2. ASSUME NEW x \in tour.screens
        PROVE  w[x] = [pane |-> IF x = s THEN p ELSE v[x].pane, rows |-> v[x].rows,
                       ready |-> v[x].ready]
    <3>1. v[x] = [pane |-> v[x].pane, rows |-> v[x].rows, ready |-> v[x].ready]
        BY DEF IsView
    <3> QED
        BY <2>1, <3>1
  <2> HIDE DEF w
  <2>3. ASSUME NEW x \in tour.screens
        PROVE  w[x].rows = v[x].rows /\ w[x].pane = IF x = s THEN p ELSE v[x].pane
    <3>1. w[x] = [pane |-> IF x = s THEN p ELSE v[x].pane, rows |-> v[x].rows, ready |-> v[x].ready]
        BY <2>2
    <3> QED
        BY <3>1
  <2>4. IsView(w)
      BY <2>1, <2>2, <2>3 DEF IsView
  <2> QED
      BY <1>2, <2>3, <2>4 DEF w
<1> QED
    BY <1>1, <1>2

TagsOf(cs) == {c.tag : c \in cs}

LEMMA AskedAre ==
    ASSUME NEW v, IsView(v), NEW s, NEW cs
    PROVE  /\ IsView(Asked(v, s, cs))
           /\ \A x \in tour.screens :
                 /\ Asked(v, s, cs)[x].pane = v[x].pane
                 /\ \A t \in Rows(x) :
                       Asked(v, s, cs)[x].rows[t] =
                          IF x = s /\ t \in TagsOf(cs)
                          THEN [data |-> v[x].rows[t].data, how |-> "asked",
                                asked |-> v[x].rows[t].asked + 1]
                          ELSE v[x].rows[t]
<1> DEFINE w == Asked(v, s, cs)
           rows == [t \in Rows(s) |->
                       IF t \in TagsOf(cs) THEN [v[s].rows[t] EXCEPT !.asked = @ + 1, !.how = "asked"]
                                           ELSE v[s].rows[t]]
<1>1. CASE s \notin tour.screens
    BY <1>1 DEF Asked
<1>2. CASE s \in tour.screens
  <2>1. /\ v[s] = [pane |-> v[s].pane, rows |-> v[s].rows, ready |-> v[s].ready]
        /\ v[s].rows \in [Rows(s) -> [data : Nat, how : Hows, asked : Nat]]
      BY <1>2 DEF IsView
  <2>2. \E r : w = [v EXCEPT ![s].rows = rows, ![s].ready = r]
      BY <1>2 DEF Asked, TagsOf
  <2> HIDE DEF rows
  <2>3. PICK r : w = [v EXCEPT ![s].rows = rows, ![s].ready = r]
      BY <2>2
  <2>4. w = [x \in tour.screens |-> IF x = s THEN [pane |-> v[s].pane, rows |-> rows, ready |-> r]
                                             ELSE v[x]]
      BY <1>2, <2>1, <2>3 DEF IsView
  <2> HIDE DEF w
  <2>5. \A t \in Rows(s) :
            rows[t] = IF t \in TagsOf(cs)
                      THEN [data |-> v[s].rows[t].data, how |-> "asked",
                            asked |-> v[s].rows[t].asked + 1]
                      ELSE v[s].rows[t]
    <3> SUFFICES ASSUME NEW t \in Rows(s), t \in TagsOf(cs)
                 PROVE  rows[t] = [data |-> v[s].rows[t].data, how |-> "asked",
                                   asked |-> v[s].rows[t].asked + 1]
        BY DEF rows
    <3> DEFINE row == v[s].rows[t]
    <3>1. row \in [data : Nat, how : Hows, asked : Nat]
        BY <2>1
    <3>2. rows[t] = [row EXCEPT !.asked = row.asked + 1, !.how = "asked"]
        BY DEF rows
    <3> HIDE DEF row
    <3>3. rows[t] = [data |-> row.data, how |-> "asked", asked |-> row.asked + 1]
        BY <3>1, <3>2
    <3> QED
        BY <3>3 DEF row
  <2>6. rows \in [Rows(s) -> [data : Nat, how : Hows, asked : Nat]]
    <3>1. ASSUME NEW t \in Rows(s)
          PROVE  rows[t] \in [data : Nat, how : Hows, asked : Nat]
      <4> DEFINE row == v[s].rows[t]
      <4>1. row \in [data : Nat, how : Hows, asked : Nat]
          BY <2>1
      <4>2. rows[t] = row \/ rows[t] = [data |-> row.data, how |-> "asked", asked |-> row.asked + 1]
          BY <2>5
      <4> HIDE DEF row
      <4>3. row.data \in Nat /\ row.asked + 1 \in Nat /\ "asked" \in Hows
          BY <4>1 DEF Hows
      <4> QED
          BY <4>1, <4>2, <4>3
    <3>2. rows = [t \in Rows(s) |-> rows[t]]
        BY DEF rows
    <3> QED
        BY <3>1, <3>2
  <2>7. /\ w[s] = [pane |-> v[s].pane, rows |-> rows, ready |-> r]
        /\ \A x \in tour.screens : x # s => w[x] = v[x]
      BY <1>2, <2>4
  <2>8. IsView(w)
      BY <2>4, <2>6, <2>7 DEF IsView
  <2> QED
      BY <2>5, <2>7, <2>8 DEF w
<1> QED
    BY <1>1, <1>2

(* What an answer makes of the rows it answers for.                           *)
Fresher(c, r) ==
    IF Ok(c) THEN [data |-> c.data, how |-> How(c, r), asked |-> r.asked]
    ELSE [data |-> r.data, how |-> IF How(c, r) = "failed" THEN "failed" ELSE r.how,
          asked |-> r.asked]

LEMMA LandedAre ==
    ASSUME IsView(view), NEW c, c.data \in Nat
    PROVE  /\ IsView(Landed(c))
           /\ \A x \in tour.screens :
                 /\ Landed(c)[x].pane = view[x].pane
                 /\ \A t \in Rows(x) :
                       Landed(c)[x].rows[t] =
                          IF x = c.job.screen /\ t = Tag(c) /\ Lands(c)
                          THEN Fresher(c, view[x].rows[t])
                          ELSE view[x].rows[t]
<1> DEFINE s == c.job.screen
           t == Tag(c)
           row == view[s].rows[t]
           w == Landed(c)
<1>1. CASE t \notin Rows(s) \/ ~ Lands(c) \/ s \notin tour.screens
  <2>1. w = view
    <3>1. s \notin tour.screens => \A f : [view EXCEPT ![s] = f] = view
        BY DEF IsView
    <3>2. s \notin tour.screens => w = view
        BY DEF IsView, Landed
    <3> QED
        BY <1>1, <3>2 DEF Landed
  <2> QED
      BY <1>1, <2>1
<1>2. CASE t \in Rows(s) /\ Lands(c) /\ s \in tour.screens
  <2>1. /\ view[s] = [pane |-> view[s].pane, rows |-> view[s].rows, ready |-> view[s].ready]
        /\ view[s].rows \in [Rows(s) -> [data : Nat, how : Hows, asked : Nat]]
      BY <1>2 DEF IsView
  <2>2. row \in [data : Nat, how : Hows, asked : Nat]
      BY <1>2, <2>1
  <2>3. \E h : /\ Fresher(c, row) = [data |-> IF Ok(c) THEN c.data ELSE row.data, how |-> h,
                                     asked |-> row.asked]
               /\ h \in Hows
      BY <2>2 DEF Fresher, How, Hows
  <2>4. \E ready : w = [view EXCEPT ![s].rows[t] = Fresher(c, row), ![s].ready = ready]
    <3> HIDE DEF row
    <3>1. CASE Ok(c)
      <4>0. ASSUME NEW d \in Nat, NEW h \in Hows
            PROVE  [row EXCEPT !.data = d, !.how = h] = [data |-> d, how |-> h, asked |-> row.asked]
        <5>1. row = [data |-> row.data, how |-> row.how, asked |-> row.asked]
            BY <2>2
        <5>2. [row EXCEPT !.data = d] = [data |-> d, how |-> row.how, asked |-> row.asked]
            BY <5>1
        <5> DEFINE mid == [data |-> d, how |-> row.how, asked |-> row.asked]
        <5>3. [mid EXCEPT !.how = h] = [data |-> d, how |-> h, asked |-> row.asked]
            OBVIOUS
        <5> QED
            BY <5>2, <5>3
      <4>1. How(c, row) \in Hows
          BY DEF How, Hows
      <4>2. [row EXCEPT !.data = c.data, !.how = How(c, row)] = Fresher(c, row)
          BY <3>1, <4>0, <4>1 DEF Fresher
      <4> QED
          BY <1>2, <3>1, <4>2 DEF Landed, row
    <3>2. CASE ~ Ok(c)
      <4>1. [row EXCEPT !.how = IF How(c, row) = "failed" THEN "failed" ELSE @] = Fresher(c, row)
          BY <2>2, <3>2 DEF Fresher
      <4>2. \E ready : w = [view EXCEPT ![s].rows[t] =
                               [row EXCEPT !.how = IF How(c, row) = "failed" THEN "failed" ELSE @],
                            ![s].ready = ready]
          BY <1>2, <3>2 DEF Landed, row
      <4> QED
          BY <4>1, <4>2
    <3> QED
        BY <3>1, <3>2
  <2> DEFINE new == Fresher(c, row)
  <2>5. new \in [data : Nat, how : Hows, asked : Nat]
      BY <2>2, <2>3
  <2> HIDE DEF new, row
  <2>6. PICK ready : w = [view EXCEPT ![s].rows[t] = new, ![s].ready = ready]
      BY <2>4 DEF new
  <2> DEFINE rows == [view[s].rows EXCEPT ![t] = new]
  <2>7. w = [x \in tour.screens |-> IF x = s THEN [pane |-> view[s].pane, rows |-> rows,
                                                   ready |-> ready]
                                             ELSE view[x]]
      BY <1>2, <2>1, <2>6 DEF IsView
  <2>8. /\ rows \in [Rows(s) -> [data : Nat, how : Hows, asked : Nat]]
        /\ \A u \in Rows(s) : rows[u] = IF u = t THEN new ELSE view[s].rows[u]
      BY <1>2, <2>1, <2>5
  <2> HIDE DEF rows, w
  <2>9. /\ w[s] = [pane |-> view[s].pane, rows |-> rows, ready |-> ready]
        /\ \A x \in tour.screens : x # s => w[x] = view[x]
      BY <1>2, <2>7
  <2>10. IsView(w)
      BY <2>7, <2>8, <2>9 DEF IsView
  <2> QED
      BY <1>2, <2>8, <2>9, <2>10 DEF w, new, row
<1> QED
    BY <1>1, <1>2

(* A call that is made now.                                                   *)
LEMMA CallsMade ==
    ASSUME NEW v, NEW s, NEW cs
    PROVE  /\ \A d \in Calls(v, s, cs) :
                 /\ \E c \in cs : d.job.cmd = c /\ Tag(d) = c.tag /\ d.job.n = Number(v, s, c.tag)
                 /\ d.job.screen = s /\ d.job.visit = app.visit
                 /\ d.data = 0 /\ ~ Ok(d) /\ d.pc = "ready"
           /\ \A c \in cs : \E d \in Calls(v, s, cs) :
                 d.job.cmd = c /\ d.job.n = Number(v, s, c.tag)
<1>1. ASSUME NEW c
      PROVE  LET j == [screen |-> s, cmd |-> c, n |-> Number(v, s, c.tag), visit |-> app.visit]
             IN  /\ Call(j).job.cmd = c /\ Tag(Call(j)) = c.tag
                 /\ Call(j).job.n = Number(v, s, c.tag)
                 /\ Call(j).job.screen = s /\ Call(j).job.visit = app.visit
                 /\ Call(j).data = 0 /\ ~ Ok(Call(j)) /\ Call(j).pc = "ready"
  <2> DEFINE j == [screen |-> s, cmd |-> c, n |-> Number(v, s, c.tag), visit |-> app.visit]
  <2>1. /\ j.screen = s /\ j.cmd = c /\ j.n = Number(v, s, c.tag) /\ j.visit = app.visit
      OBVIOUS
  <2> HIDE DEF j
  <2>2. /\ Call(j).job = j /\ Call(j).data = 0 /\ Call(j).result = "none" /\ Call(j).pc = "ready"
      BY DEF Call
  <2>3. ~ Ok(Call(j))
      BY <2>2 DEF Ok
  <2>4. Tag(Call(j)) = c.tag
      BY <2>1, <2>2 DEF Tag
  <2> QED
      BY <2>1, <2>2, <2>3, <2>4 DEF j
<1> DEFINE make(c) == Call([screen |-> s, cmd |-> c, n |-> Number(v, s, c.tag), visit |-> app.visit])
<1>2. \A c : /\ make(c).job.cmd = c /\ Tag(make(c)) = c.tag
             /\ make(c).job.n = Number(v, s, c.tag)
             /\ make(c).job.screen = s /\ make(c).job.visit = app.visit
             /\ make(c).data = 0 /\ ~ Ok(make(c)) /\ make(c).pc = "ready"
    BY <1>1
<1>3. Calls(v, s, cs) = {make(c) : c \in cs}
    BY DEF Calls
<1> HIDE DEF make
<1> QED
    BY <1>2, <1>3

LEMMA RowsKept ==
    ASSUME NEW s \in tour.screens \ {"import"}, Base, NEW p, NEW d \in Refresh(s, p)
    PROVE  d.tag \in Rows(s) /\ d.tag \in RowTags
<1>1. s \in Screens
    BY NavIsScreen
<1> QED
    BY <1>1, RefreshKept, RowsAreTagged

(* The call that asks for rows is the newest.                                 *)
LEMMA RunNumbered ==
    ASSUME NEW v, IsView(v), NEW s, NEW cs, NEW others, app.visit \in Nat,
           Numbered(v, others, app.visit)
    PROVE  Numbered(Asked(v, s, cs), others \cup Calls(Asked(v, s, cs), s, cs), app.visit)
<1> DEFINE w == Asked(v, s, cs)
<1>1. /\ IsView(w)
      /\ \A x \in tour.screens : \A t \in Rows(x) :
            w[x].rows[t] = IF x = s /\ t \in TagsOf(cs)
                           THEN [data |-> v[x].rows[t].data, how |-> "asked",
                                 asked |-> v[x].rows[t].asked + 1]
                           ELSE v[x].rows[t]
    BY AskedAre
<1> HIDE DEF w
<1>2. ASSUME NEW x \in tour.screens, NEW t \in Rows(x)
      PROVE  /\ w[x].rows[t].asked \in Nat /\ v[x].rows[t].asked \in Nat
             /\ v[x].rows[t].asked <= w[x].rows[t].asked
  <2>1. w[x].rows[t].asked \in Nat /\ v[x].rows[t].asked \in Nat
      BY <1>1 DEF IsView
  <2>2. w[x].rows[t].asked \in {v[x].rows[t].asked, v[x].rows[t].asked + 1}
    <3>1. CASE x = s /\ t \in TagsOf(cs)
      <4>1. w[x].rows[t] = [data |-> v[x].rows[t].data, how |-> "asked",
                            asked |-> v[x].rows[t].asked + 1]
          BY <1>1, <3>1
      <4> QED
          BY <4>1
    <3>2. CASE ~ (x = s /\ t \in TagsOf(cs))
      <4>1. w[x].rows[t] = v[x].rows[t]
          BY <1>1, <3>2
      <4> QED
          BY <4>1
    <3> QED
        BY <3>1, <3>2
  <2> QED
      BY <2>1, <2>2
<1>3. ASSUME NEW d \in others, d.job.screen \in tour.screens, Tag(d) \in Rows(d.job.screen),
             d.job.visit = app.visit
      PROVE  d.job.n \in 0 .. w[d.job.screen].rows[Tag(d)].asked
  <2>1. d.job.n \in 0 .. v[d.job.screen].rows[Tag(d)].asked
      BY <1>3 DEF Numbered
  <2> QED
      BY <1>2, <1>3, <2>1
<1>4. ASSUME NEW d \in Calls(w, s, cs), d.job.screen \in tour.screens,
             Tag(d) \in Rows(d.job.screen)
      PROVE  d.job.n \in 0 .. w[d.job.screen].rows[Tag(d)].asked
  <2>1. d.job.screen = s /\ d.job.n = Number(w, s, Tag(d))
      BY CallsMade
  <2>2. d.job.n = w[s].rows[Tag(d)].asked
      BY <1>4, <2>1 DEF Number
  <2> QED
      BY <1>2, <1>4, <2>1, <2>2
<1> QED
    BY <1>3, <1>4 DEF Numbered, w

(* Rows that are asked for now, or that were fresh already.                   *)
LEMMA RunRow ==
    ASSUME NEW v, IsView(v), NEW s, NEW cs, NEW others, app.visit \in Nat,
           Numbered(v, others, app.visit), NEW k, NEW x \in tour.screens, NEW t \in Rows(x),
           Row(v, others, k, app.visit, x, t) \/ (x = s /\ t \in TagsOf(cs))
    PROVE  Row(Asked(v, s, cs), others \cup Calls(Asked(v, s, cs), s, cs), k, app.visit, x, t)
<1> DEFINE w == Asked(v, s, cs)
           new == Calls(w, s, cs)
<1>1. w[x].rows[t] = IF x = s /\ t \in TagsOf(cs)
                     THEN [data |-> v[x].rows[t].data, how |-> "asked",
                           asked |-> v[x].rows[t].asked + 1]
                     ELSE v[x].rows[t]
    BY AskedAre
<1>2. v[x].rows[t].asked \in Nat
    BY DEF IsView
<1> HIDE DEF w
<1>3. \A d \in new : ~ Ok(d)
    BY CallsMade
<1>4. CASE x = s /\ t \in TagsOf(cs)
  <2>1. w[x].rows[t].how = "asked" /\ w[x].rows[t].asked = v[x].rows[t].asked + 1
      BY <1>1, <1>4
  <2>2. \E d \in new : Newest(w, app.visit, d, x, t)
    <3>1. PICK c \in cs : c.tag = t
        BY <1>4 DEF TagsOf
    <3>2. PICK d \in new : d.job.cmd = c /\ d.job.n = Number(w, s, c.tag)
        BY CallsMade
    <3>3. d.job.screen = s /\ d.job.visit = app.visit
        BY CallsMade
    <3>4. d.job.n = w[s].rows[t].asked
        BY <1>4, <3>1, <3>2 DEF Number
    <3> QED
        BY <1>4, <3>1, <3>2, <3>3, <3>4 DEF Newest, Tag
  <2>3. ASSUME NEW d \in others
        PROVE  ~ Newest(w, app.visit, d, x, t)
    <3> SUFFICES ASSUME d.job.screen = x, Tag(d) = t, d.job.visit = app.visit
                 PROVE  d.job.n # v[x].rows[t].asked + 1
        BY <2>1 DEF Newest
    <3>1. d.job.n \in 0 .. v[x].rows[t].asked
        BY DEF Numbered
    <3> QED
        BY <1>2, <3>1
  <2> QED
      BY <1>3, <2>1, <2>2, <2>3 DEF Row, w
<1>5. CASE ~ (x = s /\ t \in TagsOf(cs))
  <2>1. w[x].rows[t] = v[x].rows[t] /\ Row(v, others, k, app.visit, x, t)
      BY <1>1, <1>5
  <2>2. \A d : Newest(w, app.visit, d, x, t) <=> Newest(v, app.visit, d, x, t)
      BY <2>1 DEF Newest
  <2> HIDE DEF new
  <2>3. Row(w, others \cup new, k, app.visit, x, t)
      BY <1>3, <2>1, <2>2 DEF Row
  <2> QED
      BY <2>3 DEF w, new
<1> QED
    BY <1>4, <1>5

LEMMA RunCarries ==
    ASSUME NEW v, NEW s, NEW cs, Plains(cs), NEW others, NEW top \in Nat, app.visit \in Nat,
           Carries(others, top, app.visit)
    PROVE  Carries(others \cup Calls(v, s, cs), top, app.visit)
<1>1. ASSUME NEW d \in Calls(v, s, cs)
      PROVE  /\ Plain(d.job.cmd) /\ d.data \in 0 .. top /\ d.job.visit \in 0 .. app.visit
             /\ d.pc # "admitted"
  <2>1. d.job.cmd \in cs /\ d.data = 0 /\ d.job.visit = app.visit /\ d.pc = "ready"
      BY CallsMade
  <2>2. Plain(d.job.cmd)
      BY <2>1 DEF Plains
  <2> QED
      BY <2>1, <2>2
<1> QED
    BY <1>1 DEF Carries

(* A screen shows a pane and asks for what the pane lacks.                    *)
LEMMA RunFresh ==
    ASSUME Base, NEW v, IsView(v), NEW s, NEW p, NEW cs, NEW others,
           Numbered(v, others, app.visit), NEW k, NEW f, f \subseteq tour.screens,
           \A x \in f \ {"import"} : \A d \in Refresh(x, Shown(v, s, p)[x].pane) :
              Row(v, others, k, app.visit, x, d.tag) \/ (x = s /\ d \in cs)
    PROVE  LET w == Asked(Shown(v, s, p), s, cs)
           IN  /\ IsView(w)
               /\ Numbered(w, others \cup Calls(w, s, cs), app.visit)
               /\ AllFresh(f, w, others \cup Calls(w, s, cs), k, app.visit)
<1> DEFINE u == Shown(v, s, p)
           w == Asked(u, s, cs)
           calls == others \cup Calls(w, s, cs)
<1>1. app.visit \in Nat
    BY DEF Base
<1>2. IsView(u) /\ \A x \in tour.screens : u[x].rows = v[x].rows
    BY ShownAre
<1> HIDE DEF u
<1>3. IsView(w) /\ \A x \in tour.screens : w[x].pane = u[x].pane
    BY <1>2, AskedAre
<1>4. Numbered(u, others, app.visit)
    BY <1>2 DEF Numbered
<1>5. Numbered(w, calls, app.visit)
    BY <1>1, <1>2, <1>4, RunNumbered
<1>6. ASSUME NEW x \in f \ {"import"}, NEW d \in Refresh(x, w[x].pane)
      PROVE  Row(w, calls, k, app.visit, x, d.tag)
  <2>1. x \in tour.screens \ {"import"} /\ w[x].pane = u[x].pane
      BY <1>3
  <2>2. d.tag \in Rows(x)
      BY <2>1, RowsKept
  <2>3. Row(v, others, k, app.visit, x, d.tag) \/ (x = s /\ d.tag \in TagsOf(cs))
      BY <1>6, <2>1 DEF u, TagsOf
  <2>4. Row(v, others, k, app.visit, x, d.tag) => Row(u, others, k, app.visit, x, d.tag)
      BY <1>2, <2>1 DEF Row, Newest
  <2> QED
      BY <1>1, <1>2, <1>4, <2>1, <2>2, <2>3, <2>4, RunRow
<1>7. AllFresh(f, w, calls, k, app.visit)
    BY <1>6 DEF AllFresh
<1> QED
    BY <1>3, <1>5, <1>7 DEF u

(* Calls that answer for no rows go.                                          *)
LEMMA DropFresh ==
    ASSUME Base, NEW v, NEW calls, NEW fewer \in SUBSET calls,
           \A d \in calls \ fewer : Tag(d) \notin RowTags,
           NEW k, NEW f, f \subseteq tour.screens, AllFresh(f, v, calls, k, app.visit)
    PROVE  AllFresh(f, v, fewer, k, app.visit)
<1> SUFFICES ASSUME NEW s \in f \ {"import"}, NEW d \in Refresh(s, v[s].pane)
             PROVE  Row(v, fewer, k, app.visit, s, d.tag)
    BY DEF AllFresh
<1>1. d.tag \in RowTags
    BY RowsKept
<1>2. Row(v, calls, k, app.visit, s, d.tag)
    BY DEF AllFresh
<1>3. \A c \in calls : Newest(v, app.visit, c, s, d.tag) => c \in fewer
    BY <1>1 DEF Newest
<1> QED
    BY <1>2, <1>3 DEF Row

(* An answer lands.                                                           *)
LEMMA LandFresh ==
    ASSUME Base, IsView(view), NEW c \in flight, c.data \in Nat, NEW k, NEW f,
           f \subseteq tour.screens, AllFresh(f, view, flight, k, app.visit),
           Numbered(view, flight, app.visit)
    PROVE  /\ IsView(Landed(c))
           /\ Numbered(Landed(c), Others(c), app.visit)
           /\ AllFresh(f, Landed(c), Others(c), k, app.visit)
<1> DEFINE w == Landed(c)
<1>1. /\ IsView(w)
      /\ \A x \in tour.screens :
            /\ w[x].pane = view[x].pane
            /\ \A t \in Rows(x) :
                  w[x].rows[t] = IF x = c.job.screen /\ t = Tag(c) /\ Lands(c)
                                 THEN Fresher(c, view[x].rows[t])
                                 ELSE view[x].rows[t]
    BY LandedAre
<1> HIDE DEF w
<1>2. ASSUME NEW r
      PROVE  /\ Fresher(c, r).asked = r.asked
             /\ Ok(c) => Fresher(c, r).data = c.data /\ Fresher(c, r).how = How(c, r)
             /\ ~ Ok(c) => /\ Fresher(c, r).data = r.data
                           /\ Fresher(c, r).how = IF How(c, r) = "failed" THEN "failed" ELSE r.how
    BY DEF Fresher
<1>3. ASSUME NEW x \in tour.screens, NEW t \in Rows(x)
      PROVE  w[x].rows[t].asked = view[x].rows[t].asked
    BY <1>1, <1>2
<1>4. Numbered(w, Others(c), app.visit)
    BY <1>3 DEF Numbered, Others
<1>5. ASSUME NEW x \in tour.screens, NEW t \in Rows(x), Row(view, flight, k, app.visit, x, t)
      PROVE  Row(w, Others(c), k, app.visit, x, t)
  <2> DEFINE r == view[x].rows[t]
  <2>1. \A d : Newest(w, app.visit, d, x, t) <=> Newest(view, app.visit, d, x, t)
      BY <1>3 DEF Newest
  <2>2. CASE x = c.job.screen /\ t = Tag(c) /\ Lands(c)
    <3>1. w[x].rows[t] = Fresher(c, r)
        BY <1>1, <2>2
    <3>2. /\ x = "transactions" => c.job.n = r.asked
          /\ Newest(view, app.visit, c, x, t) <=> c.job.visit = app.visit /\ c.job.n = r.asked
        BY <2>2 DEF Lands, Newest
    <3>3. CASE Ok(c)
      <4>1. w[x].rows[t].data = c.data /\ w[x].rows[t].how = How(c, r)
          BY <1>2, <3>1, <3>3
      <4>2. /\ How(c, r) \in {"stray", "late", "newest"}
            /\ How(c, r) = "newest" => Newest(view, app.visit, c, x, t)
            /\ How(c, r) = "late" => x # "transactions"
          BY <3>2, <3>3 DEF How
      <4>3. How(c, r) = "newest" => c.data >= k
          BY <1>5, <3>3, <4>2 DEF Row
      <4> HIDE DEF r
      <4> QED
          BY <1>5, <2>1, <4>1, <4>2, <4>3 DEF Row, Others
    <3>4. CASE ~ Ok(c)
      <4>1. /\ w[x].rows[t].data = r.data
            /\ w[x].rows[t].how = IF How(c, r) = "failed" THEN "failed" ELSE r.how
          BY <1>2, <3>1, <3>4
      <4>2. Newest(view, app.visit, c, x, t) => How(c, r) = "failed"
          BY <3>2, <3>4 DEF How
      <4> QED
          BY <1>5, <2>1, <3>4, <4>1, <4>2 DEF Row, Others
    <3> QED
        BY <3>3, <3>4
  <2>3. CASE ~ (x = c.job.screen /\ t = Tag(c) /\ Lands(c))
    <3>1. w[x].rows[t] = r
        BY <1>1, <2>3
    <3>2. ~ Newest(view, app.visit, c, x, t)
        BY <2>3 DEF Newest, Lands
    <3> QED
        BY <1>5, <2>1, <3>1, <3>2 DEF Row, Others
  <2> QED
      BY <2>2, <2>3
<1>6. ASSUME NEW x \in f \ {"import"}, NEW d \in Refresh(x, w[x].pane)
      PROVE  Row(w, Others(c), k, app.visit, x, d.tag)
  <2>1. x \in tour.screens \ {"import"} /\ w[x].pane = view[x].pane
      BY <1>1
  <2>2. d.tag \in Rows(x)
      BY <2>1, RowsKept
  <2>3. Row(view, flight, k, app.visit, x, d.tag)
      BY <1>6, <2>1 DEF AllFresh
  <2> QED
      BY <1>5, <2>1, <2>2, <2>3
<1> QED
    BY <1>1, <1>4, <1>6 DEF AllFresh, w

-----------------------------------------------------------------------------
(* Every step keeps what is fresh current.                                    *)

(* Of views v and calls, while a user is signed in: the screens f are fresh.  *)
Holds(f, v, calls, k) ==
    /\ IsView(v)
    /\ Numbered(v, calls, app.visit)
    /\ Carries(calls, server.data, app.visit)
    /\ AllFresh(f, v, calls, k, app.visit)

LEMMA SignedInHolds ==
    ASSUME FreshInv, app.signedIn
    PROVE  Holds(fresh, view, flight, known)
BY DEF FreshInv, Holds

LEMMA FreshNext ==
    ASSUME tour' = tour, IsView(view'), fresh' \subseteq tour.screens,
           fresh' # {} => app'.signedIn /\ app'.built,
           server'.data \in Nat, known' \in 0 .. server'.data,
           Carries(flight', server'.data, app'.visit),
           app'.signedIn => Numbered(view', flight', app'.visit),
           AllFresh(fresh', view', flight', known', app'.visit),
           Plains(modal'.runs), Covers(modal'.screen, modal'.to, modal'.runs)
    PROVE  FreshInv'
<1>1. IsView(view)'
    BY DEF IsView
<1>2. (app.signedIn => Numbered(view, flight, app.visit))'
    BY DEF Numbered
<1> QED
    BY <1>1, <1>2 DEF FreshInv

(* A step that leaves the server and the sign-in alone.                       *)
LEMMA HoldsNext ==
    ASSUME FreshInv, tour' = tour, server' = server, app'.visit = app.visit,
           fresh' \subseteq tour.screens, fresh' # {} => app'.signedIn /\ app'.built,
           known' = known, Holds(fresh', view', flight', known),
           Plains(modal'.runs), Covers(modal'.screen, modal'.to, modal'.runs)
    PROVE  FreshInv'
<1>1. /\ IsView(view') /\ Carries(flight', server'.data, app'.visit)
      /\ Numbered(view', flight', app'.visit)
      /\ AllFresh(fresh', view', flight', known', app'.visit)
    BY DEF Holds
<1>2. server'.data \in Nat /\ known' \in 0 .. server'.data
    BY DEF FreshInv
<1> QED
    BY <1>1, <1>2, FreshNext

LEMMA NoOverlayCovers == Plains(NoModal.runs) /\ Covers(NoModal.screen, NoModal.to, NoModal.runs)
<1>1. NoModal.runs = {} /\ NoModal.to = "same"
    BY DEF NoModal, NewModal
<1> QED
    BY <1>1, PlainsAre DEF Covers

LEMMA RunHolds ==
    ASSUME Base, server.data \in Nat, NEW f, f \subseteq tour.screens, NEW v, NEW others, NEW k,
           Holds(f, v, others, k), NEW s, NEW p, NEW cs, Plains(cs), Covers(s, p, cs),
           Run(others, Shown(v, s, p), s, cs)
    PROVE  Holds(f, view', flight', k)
<1>1. view' = Asked(Shown(v, s, p), s, cs) /\ flight' = others \cup Calls(view', s, cs)
    BY DEF Run
<1>2. ASSUME NEW x \in f \ {"import"}, NEW d \in Refresh(x, Shown(v, s, p)[x].pane)
      PROVE  Row(v, others, k, app.visit, x, d.tag) \/ (x = s /\ d \in cs)
  <2>1. Shown(v, s, p)[x].pane = IF x = s /\ p # "same" THEN p ELSE v[x].pane
      BY ShownAre DEF Holds
  <2>2. \A q \in Refresh(x, v[x].pane) : Row(v, others, k, app.visit, x, q.tag)
      BY DEF Holds, AllFresh
  <2>3. CASE x = s /\ p # "same"
    <3>1. Refresh(s, p) \subseteq cs \cup Refresh(s, v[s].pane)
        BY <2>3 DEF Covers
    <3> QED
        BY <2>1, <2>2, <2>3, <3>1
  <2>4. CASE ~ (x = s /\ p # "same")
      BY <2>1, <2>2, <2>4
  <2> QED
      BY <2>3, <2>4
<1>3. Carries(flight', server.data, app.visit)
    BY <1>1, RunCarries DEF Holds, Base
<1>4. /\ IsView(view') /\ Numbered(view', flight', app.visit)
      /\ AllFresh(f, view', flight', k, app.visit)
    BY <1>1, <1>2, RunFresh DEF Holds
<1> QED
    BY <1>3, <1>4 DEF Holds

(* Asking for the rows of a pane makes the screen fresh.                      *)
LEMMA RefreshedHolds ==
    ASSUME FreshInv, Base, app.signedIn, NEW others \in SUBSET flight,
           \A d \in flight \ others : Tag(d) \notin RowTags,
           NEW s \in tour.screens, Refreshed(others, s)
    PROVE  Holds(fresh', view', flight', known) /\ fresh' \subseteq tour.screens
<1> DEFINE cs == Refresh(s, view[s].pane)
           v == Shown(view, s, "same")
<1>0. v = view
    BY DEF Shown
<1>1. fresh' = fresh \cup {s} /\ fresh' \subseteq tour.screens
    BY DEF Refreshed, FreshInv
<1>2. view' = Asked(view, s, cs) /\ flight' = others \cup Calls(view', s, cs)
    BY DEF Refreshed, Run
<1>3. Plains(cs)
    BY NavIsScreen, RefreshPlain
<1>4. AllFresh(fresh, view, others, known, app.visit)
    BY DropFresh DEF FreshInv
<1>5. Numbered(view, others, app.visit) /\ Carries(others, server.data, app.visit)
    BY DEF FreshInv, Numbered, Carries
<1>6. Carries(flight', server.data, app.visit)
    BY <1>2, <1>3, <1>5, RunCarries DEF Base, FreshInv
<1>7. ASSUME NEW x \in fresh' \ {"import"}, NEW d \in Refresh(x, v[x].pane)
      PROVE  Row(view, others, known, app.visit, x, d.tag) \/ (x = s /\ d \in cs)
  <2>1. CASE x = s
      BY <1>0, <2>1
  <2>2. CASE x # s
      BY <1>0, <1>1, <1>4, <2>2 DEF AllFresh
  <2> QED
      BY <2>1, <2>2
<1> HIDE DEF cs
<1>8. IsView(view)
    BY DEF FreshInv
<1>9. PICK g : g = fresh'
    OBVIOUS
<1>10. LET w == Asked(v, s, cs)
       IN  /\ IsView(w) /\ Numbered(w, others \cup Calls(w, s, cs), app.visit)
           /\ AllFresh(g, w, others \cup Calls(w, s, cs), known, app.visit)
    BY <1>1, <1>5, <1>7, <1>8, <1>9, RunFresh
<1> HIDE DEF v
<1> QED
    BY <1>0, <1>1, <1>2, <1>6, <1>9, <1>10 DEF Holds

LEMMA PerformHolds ==
    ASSUME Base, server.data \in Nat, NEW f, f \subseteq tour.screens, NEW v, NEW others, NEW k,
           Holds(f, v, others, k), NEW s, NEW e, Sound(s, e), NEW m, Perform(others, v, s, e, m),
           Plains(m.runs), Covers(m.screen, m.to, m.runs)
    PROVE  /\ Holds(f, view', flight', k)
           /\ Plains(modal'.runs) /\ Covers(modal'.screen, modal'.to, modal'.runs)
<1>1. Plains(e.runs) /\ Covers(s, e.to, e.runs)
    BY DEF Sound
<1>2. Holds(f, view', flight', k)
  <2>1. CASE e.opens \in {"none", "info"}
      BY <1>1, <2>1, RunHolds DEF Perform
  <2>2. CASE e.opens \notin {"none", "info"}
    <3>1. Run(others, Shown(v, s, "same"), s, {})
        BY <2>2 DEF Perform, Shown
    <3>2. Plains({}) /\ Covers(s, "same", {})
        BY PlainsAre DEF Covers
    <3> QED
        BY <3>1, <3>2, RunHolds
  <2> QED
      BY <2>1, <2>2
<1>3. Plains(modal'.runs) /\ Covers(modal'.screen, modal'.to, modal'.runs)
  <2>1. CASE e.opens = "none"
      BY <2>1 DEF Perform, Overlay
  <2>2. CASE e.opens # "none"
    <3>1. modal'.runs = e.runs /\ modal'.to = e.to /\ modal'.screen = s
        BY <2>2 DEF Perform, Overlay, NewModal
    <3> QED
        BY <1>1, <3>1
  <2> QED
      BY <2>1, <2>2
<1> QED
    BY <1>2, <1>3

LEMMA SameOverlayCovers ==
    ASSUME FreshInv, OverlayOK, NEW b \in BOOLEAN, NEW q, NEW j
    PROVE  /\ Plains([modal EXCEPT !.submitting = b, !.released = q].runs)
           /\ LET m == [modal EXCEPT !.submitting = b, !.released = q]
              IN  Covers(m.screen, m.to, m.runs)
           /\ Plains([modal EXCEPT !.submitting = b, !.jobs = j].runs)
           /\ LET m == [modal EXCEPT !.submitting = b, !.jobs = j]
              IN  Covers(m.screen, m.to, m.runs)
<1>1. modal = [kind |-> modal.kind, screen |-> modal.screen, runs |-> modal.runs, to |-> modal.to,
               jobs |-> modal.jobs, submitting |-> modal.submitting, released |-> modal.released]
    BY DEF OverlayOK
<1>2. /\ [modal EXCEPT !.submitting = b, !.released = q].screen = modal.screen
      /\ [modal EXCEPT !.submitting = b, !.released = q].to = modal.to
      /\ [modal EXCEPT !.submitting = b, !.released = q].runs = modal.runs
    BY <1>1
<1>3. /\ [modal EXCEPT !.submitting = b, !.jobs = j].screen = modal.screen
      /\ [modal EXCEPT !.submitting = b, !.jobs = j].to = modal.to
      /\ [modal EXCEPT !.submitting = b, !.jobs = j].runs = modal.runs
    BY <1>1
<1> QED
    BY <1>2, <1>3 DEF FreshInv

LEMMA NoViewIsView == IsView(NoView)
<1>1. ASSUME NEW s \in tour.screens
      PROVE  /\ NoView[s] = [pane |-> FirstPane(s), rows |-> [t \in Rows(s) |-> NoRows], ready |-> {}]
             /\ [t \in Rows(s) |-> NoRows] \in [Rows(s) -> [data : Nat, how : Hows, asked : Nat]]
  <2>1. NoRows \in [data : Nat, how : Hows, asked : Nat]
      BY DEF NoRows, Hows
  <2> HIDE DEF NoRows
  <2> QED
      BY <2>1 DEF NoView, Unopened
<1>2. NoView = [s \in tour.screens |-> NoView[s]]
    BY DEF NoView
<1>3. ASSUME NEW s \in tour.screens
      PROVE  /\ NoView[s] = [pane |-> NoView[s].pane, rows |-> NoView[s].rows, ready |-> NoView[s].ready]
             /\ NoView[s].rows \in [Rows(s) -> [data : Nat, how : Hows, asked : Nat]]
  <2> DEFINE rows == [t \in Rows(s) |-> NoRows]
             pane == FirstPane(s)
  <2>1. NoView[s] = [pane |-> pane, rows |-> rows, ready |-> {}]
        /\ rows \in [Rows(s) -> [data : Nat, how : Hows, asked : Nat]]
      BY <1>1
  <2> HIDE DEF rows, pane
  <2> QED
      BY <2>1
<1> QED
    BY <1>2, <1>3 DEF IsView

LEMMA SignOutKeepsFresh ==
    ASSUME FreshInv, Base, SignOut, flight' \in SUBSET flight, tour' = tour, server' = server
    PROVE  FreshInv'
<1>1. app'.visit = app.visit /\ app'.signedIn = FALSE /\ fresh' = {} /\ known' = known
  <2>1. app \in [signedIn : BOOLEAN, built : BOOLEAN, nav : tour.screens, visit : Nat]
      BY DEF Base
  <2> QED
      BY <2>1 DEF SignOut
<1>2. IsView(view')
    BY NoViewIsView DEF SignOut
<1>3. Carries(flight', server'.data, app'.visit) /\ AllFresh({}, view', flight', known', app'.visit)
    BY <1>1 DEF FreshInv, Carries, AllFresh
<1>4. Plains(modal'.runs) /\ Covers(modal'.screen, modal'.to, modal'.runs)
    BY NoOverlayCovers DEF SignOut
<1>5. server'.data \in Nat /\ known' \in 0 .. server'.data
    BY <1>1 DEF FreshInv
<1> QED
    BY <1>1, <1>2, <1>3, <1>4, <1>5, FreshNext

(* The calls of the shared lookups belong to no screen.                       *)
LEMMA SessionCallsAre ==
    ASSUME Base, NEW top \in Nat
    PROVE  /\ \A c \in SessionCall : c.job.screen \notin tour.screens
           /\ Carries(SessionCall, top, app.visit)
           /\ \A d \in {[c EXCEPT !.job.visit = @ + 1] : c \in SessionCall} :
                 d.job.screen \notin tour.screens
           /\ Carries({[c EXCEPT !.job.visit = @ + 1] : c \in SessionCall}, top, app.visit + 1)
<1>1. "app" \notin tour.screens
    BY NavIsScreen DEF Screens
<1>2. Plain(RefData) /\ Plains({RefData})
    BY PlainsAre, Commands DEF RefData, Plain, RowTags
<1>3. Carries(SessionCall, top, app.visit)
  <2>1. Carries({}, top, app.visit)
      BY DEF Carries
  <2>2. {} \cup SessionCall = SessionCall
      OBVIOUS
  <2> QED
      BY <1>2, <2>1, <2>2, RunCarries DEF SessionCall, Base
<1>4. ASSUME NEW c \in SessionCall
      PROVE  /\ c.job.screen \notin tour.screens
             /\ LET d == [c EXCEPT !.job.visit = @ + 1]
                IN  /\ d.job.screen \notin tour.screens /\ d.job.cmd = RefData
                    /\ d.job.visit = app.visit + 1 /\ d.data = 0 /\ d.pc = "ready"
  <2>1. PICK n : c = Call([screen |-> "app", cmd |-> RefData, n |-> n, visit |-> app.visit])
      BY DEF SessionCall, Calls
  <2>2. /\ c.job = [screen |-> "app", cmd |-> RefData, n |-> n, visit |-> app.visit]
        /\ c = [job |-> c.job, pc |-> "ready", gen |-> 0, token |-> 0, replay |-> FALSE,
                result |-> "none", data |-> 0]
      BY <2>1 DEF Call
  <2>3. c.job.screen = "app" /\ c.job.visit = app.visit
      BY <2>2
  <2> DEFINE j == [c.job EXCEPT !.visit = app.visit + 1]
             d == [c EXCEPT !.job = j]
  <2>4. d = [c EXCEPT !.job.visit = @ + 1]
      BY <2>3
  <2>5. j.screen = "app" /\ j.cmd = RefData /\ j.visit = app.visit + 1
      BY <2>2
  <2> HIDE DEF j
  <2>6. d.job = j /\ d.data = 0 /\ d.pc = "ready"
      BY <2>2
  <2> HIDE DEF d
  <2> QED
      BY <1>1, <2>3, <2>4, <2>5, <2>6
<1>5. app.visit + 1 \in 0 .. app.visit + 1
    BY DEF Base
<1>6. Carries({[c EXCEPT !.job.visit = @ + 1] : c \in SessionCall}, top, app.visit + 1)
  <2> DEFINE later(c) == [c EXCEPT !.job.visit = @ + 1]
  <2>1. \A c \in SessionCall :
           /\ later(c).job.cmd = RefData /\ later(c).job.visit = app.visit + 1
           /\ later(c).data = 0 /\ later(c).pc = "ready"
      BY <1>4
  <2> HIDE DEF later
  <2>2. Carries({later(c) : c \in SessionCall}, top, app.visit + 1)
      BY <1>2, <1>5, <2>1 DEF Carries
  <2> QED
      BY <2>2 DEF later
<1> QED
    BY <1>3, <1>4, <1>6

LEMMA LoginKeepsFresh ==
    ASSUME FreshInv, Base, NEW l, NEW others \in SUBSET flight, NEW cs, Plains(cs),
           AtLogin(l, others, cs), tour' = tour, server' = server
    PROVE  FreshInv'
<1>1. /\ ~ app.signedIn /\ fresh' = fresh /\ view' = view /\ modal' = modal /\ known' = known
      /\ fresh = {}
    BY DEF AtLogin, FreshInv
<1>2. Carries(others, server.data, app.visit) /\ server.data \in Nat /\ app.visit \in Nat
    BY DEF FreshInv, Carries, Base
<1>3. ASSUME Carries(flight', server'.data, app'.visit),
             app'.signedIn => Numbered(view', flight', app'.visit)
      PROVE  FreshInv'
  <2>1. AllFresh(fresh', view', flight', known', app'.visit)
      BY <1>1 DEF AllFresh
  <2> QED
      BY <1>1, <1>3, <2>1, FreshNext DEF FreshInv
<1>4. CASE /\ app' = [app EXCEPT !.signedIn = TRUE, !.visit = @ + 1]
           /\ flight' = others \cup {[c EXCEPT !.job.visit = @ + 1] : c \in SessionCall}
  <2> DEFINE later == {[c EXCEPT !.job.visit = @ + 1] : c \in SessionCall}
  <2>1. app'.visit = app.visit + 1
      BY <1>4 DEF Base
  <2>2. /\ \A d \in later : d.job.screen \notin tour.screens
        /\ Carries(later, server.data, app.visit + 1)
      BY <1>2, SessionCallsAre
  <2>3. flight' = others \cup later
      BY <1>4
  <2> HIDE DEF later
  <2>4. Carries(others, server.data, app.visit + 1)
      BY <1>2 DEF Carries
  <2>5. Carries(flight', server'.data, app'.visit)
      BY <2>1, <2>2, <2>3, <2>4 DEF Carries
  <2>6. \A d \in others : d.job.visit # app.visit + 1
      BY <1>2 DEF Carries
  <2>7. Numbered(view', flight', app'.visit)
      BY <2>1, <2>2, <2>3, <2>6 DEF Numbered
  <2> QED
      BY <1>3, <2>5, <2>7
<1>5. CASE flight' = others \cup Calls(view, "login", cs) /\ UNCHANGED app
  <2>1. Carries(flight', server'.data, app'.visit)
      BY <1>2, <1>5, RunCarries
  <2> QED
      BY <1>1, <1>3, <1>5, <2>1
<1> QED
    BY <1>4, <1>5 DEF AtLogin

LEMMA KeysKeepFresh ==
    ASSUME FreshInv, FormInv, KeyNext
    PROVE  FreshInv'
<1>0. Base /\ OverlayOK /\ tour' = tour /\ server' = server /\ server.data \in Nat
      /\ fresh \subseteq tour.screens
    BY DEF FormInv, FreshInv, KeyNext, Press, SubmitForm, Agree, Dismiss, ScreenKey, RefreshKey,
           RetryKey, SignOutKey, GoTo, SubmitLogin, SwitchMode, ClearLogin
<1>1. ASSUME modal.kind # "none"
      PROVE  /\ app.signedIn /\ app.built
             /\ Holds(fresh, view, flight, known)
    BY <1>0, <1>1, SignedInHolds DEF OverlayOK
<1>2. Plains(modal.runs) /\ Covers(modal.screen, modal.to, modal.runs)
    BY DEF FreshInv
<1>3. CASE SubmitForm
  <2>1. /\ modal.kind # "none" /\ app' = app /\ fresh' = fresh /\ known' = known
        /\ Run(flight, view, modal.screen, modal.runs)
      BY <1>3 DEF SubmitForm
  <2>2. Shown(view, modal.screen, "same") = view /\ Covers(modal.screen, "same", modal.runs)
      BY DEF Shown, Covers
  <2>3. Holds(fresh, view', flight', known)
      BY <1>0, <1>1, <1>2, <2>1, <2>2, RunHolds
  <2>4. \E j : modal' = [modal EXCEPT !.submitting = TRUE, !.jobs = j]
      BY <1>3 DEF SubmitForm
  <2>5. PICK j : modal' = [modal EXCEPT !.submitting = TRUE, !.jobs = j]
      BY <2>4
  <2>6. Plains(modal'.runs) /\ Covers(modal'.screen, modal'.to, modal'.runs)
      BY <1>0, <2>5, SameOverlayCovers
  <2> QED
      BY <1>0, <1>1, <2>1, <2>3, <2>6, HoldsNext
<1>4. CASE Agree
  <2> DEFINE e == [Now(modal.runs) EXCEPT !.to = modal.to]
  <2>1. /\ modal.kind # "none" /\ app' = app /\ fresh' = fresh /\ known' = known
        /\ Perform(flight, view, modal.screen, e, NoModal)
      BY <1>4 DEF Agree
  <2>2. e.runs = modal.runs /\ e.to = modal.to
      BY DEF Now
  <2> HIDE DEF e
  <2>3. Sound(modal.screen, e)
      BY <1>2, <2>2 DEF Sound
  <2>4. /\ Holds(fresh, view', flight', known)
        /\ Plains(modal'.runs) /\ Covers(modal'.screen, modal'.to, modal'.runs)
      BY <1>0, <1>1, <2>1, <2>3, NoOverlayCovers, PerformHolds
  <2> QED
      BY <1>0, <1>1, <2>1, <2>4, HoldsNext
<1>5. CASE Dismiss
  <2>1. /\ modal.kind # "none" /\ app' = app /\ fresh' = fresh /\ known' = known
        /\ view' = view /\ flight' = flight /\ modal' = NoModal
      BY <1>5 DEF Dismiss
  <2> QED
      BY <1>0, <1>1, <2>1, NoOverlayCovers, HoldsNext
<1>6. ASSUME AtScreen
      PROVE  /\ app.signedIn /\ app.built /\ Holds(fresh, view, flight, known)
             /\ app.nav \in tour.screens /\ app.nav \in Screens
    BY <1>0, <1>6, SignedInHolds, NavIsScreen DEF AtScreen
<1>7. CASE ScreenKey
  <2>1. AtScreen /\ app' = app /\ fresh' = fresh /\ known' = known
      BY <1>7 DEF ScreenKey
  <2>2. PICK e \in Keys(app.nav, view[app.nav].pane, view[app.nav].ready) :
           Perform(flight, view, app.nav, e, NoModal)
      BY <1>7 DEF ScreenKey
  <2>3. Sound(app.nav, e)
      BY <1>6, <2>1, KeysSound
  <2>4. /\ Holds(fresh, view', flight', known)
        /\ Plains(modal'.runs) /\ Covers(modal'.screen, modal'.to, modal'.runs)
      BY <1>0, <1>6, <2>1, <2>2, <2>3, NoOverlayCovers, PerformHolds
  <2> QED
      BY <1>0, <1>6, <2>1, <2>4, HoldsNext
<1>8. ASSUME NEW s \in tour.screens, AtScreen, Refreshed(flight, s), modal' = modal, known' = known,
             app' = app \/ app' = [app EXCEPT !.nav = s]
      PROVE  FreshInv'
  <2>1. Holds(fresh', view', flight', known) /\ fresh' \subseteq tour.screens
      BY <1>0, <1>6, <1>8, RefreshedHolds
  <2>2. app'.signedIn /\ app'.built /\ app'.visit = app.visit
      BY <1>0, <1>6, <1>8 DEF Base
  <2> QED
      BY <1>0, <1>2, <1>8, <2>1, <2>2, HoldsNext
<1>9. CASE RefreshKey
    BY <1>6, <1>8, <1>9 DEF RefreshKey
<1>10. ASSUME NEW s \in tour.screens, GoTo(s)
       PROVE  FreshInv'
  <2>1. /\ AtScreen /\ app' = [app EXCEPT !.nav = s] /\ modal' = modal /\ known' = known
        /\ UNCHANGED <<flight, view, fresh>> \/ Refreshed(flight, s)
      BY <1>10 DEF GoTo
  <2>2. CASE UNCHANGED <<flight, view, fresh>>
    <3>1. app'.signedIn /\ app'.built /\ app'.visit = app.visit
        BY <1>0, <1>6, <2>1 DEF Base
    <3> QED
        BY <1>0, <1>2, <1>6, <2>1, <2>2, <3>1, HoldsNext
  <2> QED
      BY <1>8, <2>1, <2>2
<1>11. CASE RetryKey
  <2>1. /\ app.signedIn /\ ~ app.built /\ app' = app /\ fresh' = fresh /\ modal' = modal
        /\ known' = known /\ Run(flight, view, "app", {RefData})
      BY <1>11 DEF RetryKey, StartSession
  <2>2. Shown(view, "app", "same") = view /\ Covers("app", "same", {RefData})
      BY DEF Shown, Covers
  <2>3. Plains({RefData})
      BY PlainsAre DEF RefData
  <2>4. Holds(fresh, view', flight', known)
      BY <1>0, <2>1, <2>2, <2>3, SignedInHolds, RunHolds
  <2> QED
      BY <1>0, <1>2, <2>1, <2>4, HoldsNext DEF FreshInv
<1>12. CASE SignOutKey
    BY <1>0, <1>12, SignOutKeepsFresh DEF SignOutKey
<1>13. CASE SubmitLogin \/ SwitchMode \/ ClearLogin
  <2>1. Plains({SignInCommand}) /\ Plains({})
    <3>1. SignInCommand.tag = "login"
        BY DEF SignInCommand, Load
    <3> QED
        BY <3>1, PlainsAre DEF Plains, Plain, RowTags
  <2>2. \E l, cs : Plains(cs) /\ AtLogin(l, flight, cs)
      BY <1>13, <2>1 DEF SubmitLogin, SwitchMode, ClearLogin
  <2> QED
      BY <1>0, <2>2, LoginKeepsFresh
<1> QED
    BY <1>3, <1>4, <1>5, <1>7, <1>9, <1>10, <1>11, <1>12, <1>13 DEF KeyNext

(* A call that answers for no rows is taken in.                               *)
LEMMA DropHolds ==
    ASSUME FreshInv, Base, app.signedIn, NEW c \in flight, Tag(c) \notin RowTags \/ fresh = {}
    PROVE  Holds(fresh, view, Others(c), known)
<1>1. Numbered(view, Others(c), app.visit) /\ Carries(Others(c), server.data, app.visit)
    BY DEF FreshInv, Numbered, Carries, Others
<1>2. AllFresh(fresh, view, Others(c), known, app.visit)
  <2>1. CASE fresh = {}
      BY <2>1 DEF AllFresh
  <2>2. CASE Tag(c) \notin RowTags
      BY <2>2, DropFresh DEF FreshInv, Others
  <2> QED
      BY <2>1, <2>2
<1> QED
    BY <1>1, <1>2 DEF Holds, FreshInv

LEMMA RefDataKeepsFresh ==
    ASSUME FreshInv, Base, NEW c \in flight, DeliverRefData(c)
    PROVE  FreshInv'
<1>1. /\ app.signedIn /\ Tag(c) \notin RowTags /\ tour' = tour /\ server' = server
    BY Commands DEF DeliverRefData, Deliver, RefData, RowTags
<1>2. Plains(modal.runs) /\ Covers(modal.screen, modal.to, modal.runs)
    BY DEF FreshInv
<1>3. CASE /\ app' = [app EXCEPT !.built = TRUE] /\ Refreshed(Others(c), app.nav)
           /\ UNCHANGED <<modal, known>>
  <2>1. Others(c) \in SUBSET flight /\ \A d \in flight \ Others(c) : Tag(d) \notin RowTags
      BY <1>1 DEF Others
  <2>2. Holds(fresh', view', flight', known) /\ fresh' \subseteq tour.screens
      BY <1>1, <1>3, <2>1, NavIsScreen, RefreshedHolds
  <2>3. app'.signedIn /\ app'.built /\ app'.visit = app.visit
      BY <1>1, <1>3 DEF Base
  <2> QED
      BY <1>1, <1>2, <1>3, <2>2, <2>3, HoldsNext
<1>4. CASE SignOut /\ flight' = Others(c)
    BY <1>1, <1>4, SignOutKeepsFresh DEF Others
<1>5. CASE Drop(c)
  <2>1. /\ flight' = Others(c) /\ app' = app /\ fresh' = fresh /\ view' = view /\ modal' = modal
        /\ known' = known
      BY <1>5 DEF Drop, uiVars
  <2> QED
      BY <1>1, <1>2, <2>1, DropHolds, HoldsNext DEF FreshInv
<1> QED
    BY <1>3, <1>4, <1>5 DEF DeliverRefData

(* What a write that was answered for leaves.                                 *)
LEMMA WritesHaveNoRows ==
    ASSUME FreshInv, NEW c \in flight, c.job.cmd.kind = "done"
    PROVE  Tag(c) \notin RowTags
BY DEF FreshInv, Carries, Plain, Tag

LEMMA RejectionKeepsFresh ==
    ASSUME FreshInv, Base, OverlayOK, NEW c \in flight, DeliverRejection(c)
    PROVE  FreshInv'
<1>1. /\ app.signedIn /\ Tag(c) \notin RowTags /\ tour' = tour /\ server' = server
      /\ app' = app /\ fresh' = fresh /\ known' = known
      /\ modal' = modal \/ modal' = SetError(modal, c)
    BY WritesHaveNoRows DEF DeliverRejection, Deliver
<1>2. Plains(modal'.runs) /\ Covers(modal'.screen, modal'.to, modal'.runs)
  <2>1. CASE modal' = modal
      BY <2>1 DEF FreshInv
  <2>2. CASE modal' = SetError(modal, c)
    <3>1. \E q : modal' = [modal EXCEPT !.submitting = FALSE, !.released = q]
        BY <2>2 DEF SetError
    <3> QED
        BY <3>1, SameOverlayCovers
  <2> QED
      BY <1>1, <2>1, <2>2
<1>3. Holds(fresh, view, Others(c), known)
    BY <1>1, DropHolds
<1>4. Holds(fresh, view', flight', known)
  <2>1. CASE flight' = Others(c) /\ UNCHANGED view
      BY <1>3, <2>1
  <2>2. CASE StartSession(Others(c))
    <3>1. Run(Others(c), Shown(view, "app", "same"), "app", {RefData})
        BY <2>2 DEF StartSession, Shown
    <3>2. Plains({RefData}) /\ Covers("app", "same", {RefData})
        BY PlainsAre DEF RefData, Covers
    <3> QED
        BY <1>3, <3>1, <3>2, RunHolds DEF FreshInv
  <2> QED
      BY <2>1, <2>2 DEF DeliverRejection
<1> QED
    BY <1>1, <1>2, <1>4, HoldsNext DEF FreshInv

LEMMA DoneKeepsFresh ==
    ASSUME FreshInv, Base, NEW c \in flight, DeliverDone(c)
    PROVE  FreshInv'
<1> DEFINE more == IF c.job.cmd.invalidate THEN SessionCall ELSE {}
           s == c.job.screen
           e == IF app.built THEN After(s, Tag(c), view[s].pane) ELSE Nothing
           m == IF ItsForm(c) THEN NoModal ELSE modal
           k == IF c.data > known THEN c.data ELSE known
<1>1. /\ app.signedIn /\ app' = app /\ tour' = tour /\ server' = server
      /\ fresh' = {} /\ known' = k
      /\ Perform(Others(c) \cup more, view, s, e, m)
    BY DEF DeliverDone, Deliver, Staled
<1>2. server.data \in Nat /\ known \in 0 .. server.data /\ c.data \in 0 .. server.data
    BY DEF FreshInv, Carries
<1>3. k \in 0 .. server.data
    BY <1>2
<1>4. Sound(s, e)
    BY AfterSound, SoundAre
<1>5. Plains(m.runs) /\ Covers(m.screen, m.to, m.runs)
    BY NoOverlayCovers DEF FreshInv
<1>6. \A d \in more : d.job.screen \notin tour.screens
    BY SessionCallsAre, <1>2
<1>7. Carries(more, server.data, app.visit)
    BY SessionCallsAre, <1>2 DEF Carries
<1> HIDE DEF more, e, m, k
<1>8. Holds({}, view, Others(c) \cup more, k)
  <2>1. Numbered(view, Others(c) \cup more, app.visit)
      BY <1>1, <1>6 DEF FreshInv, Numbered, Others
  <2>2. Carries(Others(c) \cup more, server.data, app.visit)
      BY <1>7 DEF FreshInv, Carries, Others
  <2>3. AllFresh({}, view, Others(c) \cup more, k, app.visit)
      BY DEF AllFresh
  <2> QED
      BY <2>1, <2>2, <2>3 DEF Holds, FreshInv
<1>9. /\ Holds({}, view', flight', k)
      /\ Plains(modal'.runs) /\ Covers(modal'.screen, modal'.to, modal'.runs)
  <2>1. {} \subseteq tour.screens
      OBVIOUS
  <2> QED
      BY <1>1, <1>2, <1>4, <1>5, <1>8, <2>1, PerformHolds
<1> QED
    BY <1>1, <1>2, <1>3, <1>9, FreshNext DEF Holds

LEMMA LoadedKeepsFresh ==
    ASSUME FreshInv, Base, NEW c \in flight, DeliverLoaded(c)
    PROVE  FreshInv'
<1>1. /\ app.signedIn /\ tour' = tour /\ server' = server /\ app' = app /\ fresh' = fresh
      /\ known' = known
    BY DEF DeliverLoaded, Deliver, Drop, uiVars
<1>2. Plains(modal.runs) /\ Covers(modal.screen, modal.to, modal.runs)
    BY DEF FreshInv
<1>3. fresh \subseteq tour.screens /\ server.data \in Nat /\ c.data \in Nat
    BY DEF FreshInv, Carries
<1>4. ASSUME app.built, NEW s, NEW p, NEW e \in Answers(s, Tag(c), p, Ok(c)),
             Perform(Others(c), Landed(c), s, e, modal)
      PROVE  FreshInv'
  <2>1. Sound(s, e)
      BY <1>4, AnswersSound
  <2>2. Carries(Others(c), server.data, app.visit)
      BY DEF FreshInv, Carries, Others
  <2>3. Holds(fresh, Landed(c), Others(c), known)
      BY <1>1, <1>3, <2>2, LandFresh DEF FreshInv, Holds
  <2>4. /\ Holds(fresh, view', flight', known)
        /\ Plains(modal'.runs) /\ Covers(modal'.screen, modal'.to, modal'.runs)
      BY <1>2, <1>3, <1>4, <2>1, <2>3, PerformHolds
  <2> QED
      BY <1>1, <1>3, <1>4, <2>4, HoldsNext
<1>5. CASE (~ app.built \/ Tag(c) = "login") /\ Drop(c)
  <2>1. flight' = Others(c) /\ view' = view /\ modal' = modal
      BY <1>5 DEF Drop, uiVars
  <2>2. Tag(c) \notin RowTags \/ fresh = {}
      BY <1>5 DEF FreshInv, RowTags
  <2> QED
      BY <1>1, <1>2, <2>1, <2>2, DropHolds, HoldsNext DEF FreshInv
<1> QED
    BY <1>4, <1>5 DEF DeliverLoaded

LEMMA ParseKeepsFresh ==
    ASSUME FreshInv, Base, OverlayOK, NEW c \in flight, DeliverParse(c)
    PROVE  FreshInv'
<1>1. /\ app.signedIn /\ Tag(c) \notin RowTags /\ tour' = tour /\ server' = server /\ app' = app
      /\ fresh' = fresh /\ known' = known /\ flight' = Others(c)
      /\ modal' = modal \/ modal' = SetError(modal, c) \/ modal' = NoModal
      /\ view' = view \/ \E p : view' = Shown(view, "import", p)
    BY DEF DeliverParse, Deliver, Uploads, RowTags
<1>2. Plains(modal'.runs) /\ Covers(modal'.screen, modal'.to, modal'.runs)
  <2>1. CASE modal' = modal
      BY <2>1 DEF FreshInv
  <2>2. CASE modal' = SetError(modal, c)
    <3>1. \E q : modal' = [modal EXCEPT !.submitting = FALSE, !.released = q]
        BY <2>2 DEF SetError
    <3> QED
        BY <3>1, SameOverlayCovers
  <2> QED
      BY <1>1, <2>1, <2>2, NoOverlayCovers
<1>3. Holds(fresh, view, Others(c), known)
    BY <1>1, DropHolds
<1>4. Holds(fresh, view', flight', known)
  <2>1. ASSUME NEW p, view' = Shown(view, "import", p)
        PROVE  Holds(fresh, view', flight', known)
    <3>1. /\ IsView(view')
          /\ \A x \in tour.screens :
                /\ view'[x].rows = view[x].rows
                /\ x # "import" => view'[x].pane = view[x].pane
        BY <2>1, ShownAre DEF FreshInv
    <3>2. Numbered(view', flight', app.visit)
        BY <1>1, <1>3, <3>1 DEF Holds, Numbered
    <3>3. AllFresh(fresh, view', flight', known, app.visit)
      <4> SUFFICES ASSUME NEW x \in fresh \ {"import"}, NEW d \in Refresh(x, view'[x].pane)
                   PROVE  Row(view', flight', known, app.visit, x, d.tag)
          BY DEF AllFresh
      <4>1. x \in tour.screens /\ d \in Refresh(x, view[x].pane)
          BY <3>1 DEF FreshInv
      <4>2. Row(view, Others(c), known, app.visit, x, d.tag)
          BY <1>3, <4>1 DEF Holds, AllFresh
      <4> QED
          BY <1>1, <3>1, <4>1, <4>2 DEF Row, Newest
    <3> QED
        BY <1>1, <1>3, <3>1, <3>2, <3>3 DEF Holds
  <2> QED
      BY <1>1, <1>3, <2>1
<1> QED
    BY <1>1, <1>2, <1>4, HoldsNext DEF FreshInv

LEMMA MessagesKeepFresh ==
    ASSUME FreshInv, FormInv, MessageNext
    PROVE  FreshInv'
<1>1. PICK c \in flight :
          \/ DeliverAtLogin(c) \/ DeliverRefData(c) \/ DeliverRejection(c) \/ DeliverDone(c)
          \/ DeliverLoaded(c) \/ DeliverParse(c)
    BY DEF MessageNext
<1>2. CASE DeliverAtLogin(c)
  <2>1. tour' = tour /\ server' = server /\ \E l : AtLogin(l, Others(c), {})
      BY <1>2 DEF DeliverAtLogin, Deliver
  <2>2. Plains({}) /\ Others(c) \in SUBSET flight
      BY PlainsAre DEF Others
  <2> QED
      BY <2>1, <2>2, LoginKeepsFresh DEF FormInv
<1> QED
    BY <1>1, <1>2, RefDataKeepsFresh, RejectionKeepsFresh, DoneKeepsFresh, LoadedKeepsFresh,
       ParseKeepsFresh DEF FormInv

(* On its way a call takes what the server has, or keeps what it carried; one  *)
(* that was not answered before is answered well by what the server has, or    *)
(* by a pair.                                                                  *)
MovesTo(c, d) ==
    /\ d.job = c.job /\ flight' = (flight \ {c}) \cup {d}
    /\ d.pc = "admitted" => c.job.cmd.signsIn \/ c.pc = "admitted"
    /\ d.data \in {c.data, server'.data}
    /\ Ok(d) => d.data = server'.data \/ c.pc = "admitted" \/ (Ok(c) /\ d.data = c.data)

Bears(d, j, p, r, n) == IsCall(d) /\ d.job = j /\ d.pc = p /\ d.result = r /\ d.data = n

LEMMA FieldsBear ==
    ASSUME NEW c, IsCall(c), NEW v
    PROVE  /\ Bears([c EXCEPT !.pc = v], c.job, v, c.result, c.data)
           /\ Bears([c EXCEPT !.token = v], c.job, c.pc, c.result, c.data)
           /\ Bears([c EXCEPT !.gen = v], c.job, c.pc, c.result, c.data)
           /\ Bears([c EXCEPT !.replay = v], c.job, c.pc, c.result, c.data)
           /\ Bears([c EXCEPT !.result = v], c.job, c.pc, v, c.data)
           /\ Bears([c EXCEPT !.data = v], c.job, c.pc, c.result, v)
<1>1. PICK j, p, g, t, y, r, n : c = Made(j, p, g, t, y, r, n)
    BY DEF IsCall
<1>2. ASSUME NEW a, NEW b, NEW d, NEW e, NEW h, NEW l, NEW m
      PROVE  Bears(Made(a, b, d, e, h, l, m), a, b, l, m)
  <2>1. /\ Made(a, b, d, e, h, l, m).job = a /\ Made(a, b, d, e, h, l, m).pc = b
        /\ Made(a, b, d, e, h, l, m).result = l /\ Made(a, b, d, e, h, l, m).data = m
      BY DEF Made
  <2> QED
      BY <2>1 DEF Bears, IsCall
<1>3. c.job = j /\ c.pc = p /\ c.result = r /\ c.data = n
    BY <1>1 DEF Made
<1>4. [c EXCEPT !.pc = v] = Made(j, v, g, t, y, r, n)
    BY <1>1 DEF Made
<1>5. [c EXCEPT !.token = v] = Made(j, p, g, v, y, r, n)
    BY <1>1 DEF Made
<1>6. [c EXCEPT !.gen = v] = Made(j, p, v, t, y, r, n)
    BY <1>1 DEF Made
<1>7. [c EXCEPT !.replay = v] = Made(j, p, g, t, v, r, n)
    BY <1>1 DEF Made
<1>8. [c EXCEPT !.result = v] = Made(j, p, g, t, y, v, n)
    BY <1>1 DEF Made
<1>9. [c EXCEPT !.data = v] = Made(j, p, g, t, y, r, v)
    BY <1>1 DEF Made
<1> QED
    BY <1>2, <1>3, <1>4, <1>5, <1>6, <1>7, <1>8, <1>9

LEMMA MovesBear ==
    ASSUME NEW c, IsCall(c), NEW p, NEW t, NEW g, NEW r, NEW n
    PROVE  /\ Bears([c EXCEPT !.pc = p], c.job, p, c.result, c.data)
           /\ Bears([c EXCEPT !.pc = p, !.token = t], c.job, p, c.result, c.data)
           /\ Bears([c EXCEPT !.pc = p, !.token = t, !.gen = g], c.job, p, c.result, c.data)
           /\ Bears([c EXCEPT !.pc = p, !.replay = r], c.job, p, c.result, c.data)
           /\ Bears([c EXCEPT !.pc = p, !.result = r], c.job, p, r, c.data)
           /\ Bears([c EXCEPT !.pc = p, !.result = r, !.data = n], c.job, p, r, n)
<1> DEFINE a == [c EXCEPT !.pc = p]
           b == [a EXCEPT !.token = t]
           d == [a EXCEPT !.result = r]
<1>1. Bears(a, c.job, p, c.result, c.data)
    BY FieldsBear
<1>2. IsCall(a) /\ a.job = c.job /\ a.pc = p /\ a.result = c.result /\ a.data = c.data
    BY <1>1 DEF Bears
<1> HIDE DEF a
<1>3. /\ Bears(b, c.job, p, c.result, c.data)
      /\ Bears([a EXCEPT !.replay = r], c.job, p, c.result, c.data)
      /\ Bears(d, c.job, p, r, c.data)
    BY <1>2, FieldsBear
<1>4. /\ IsCall(b) /\ b.job = c.job /\ b.pc = p /\ b.result = c.result /\ b.data = c.data
      /\ IsCall(d) /\ d.job = c.job /\ d.pc = p /\ d.result = r /\ d.data = c.data
    BY <1>3 DEF Bears
<1> HIDE DEF b, d
<1>5. /\ Bears([b EXCEPT !.gen = g], c.job, p, c.result, c.data)
      /\ Bears([d EXCEPT !.data = n], c.job, p, r, n)
    BY <1>4, FieldsBear
<1>6. /\ [c EXCEPT !.pc = p, !.token = t] = b
      /\ [c EXCEPT !.pc = p, !.token = t, !.gen = g] = [b EXCEPT !.gen = g]
      /\ [c EXCEPT !.pc = p, !.replay = r] = [a EXCEPT !.replay = r]
      /\ [c EXCEPT !.pc = p, !.result = r] = d
      /\ [c EXCEPT !.pc = p, !.result = r, !.data = n] = [d EXCEPT !.data = n]
    BY DEF a, b, d
<1> QED
    BY <1>1, <1>3, <1>5, <1>6 DEF a

LEMMA CallMovesOn ==
    ASSUME TypeInv, NEW c \in flight, CallNext(c), server.data \in Nat
    PROVE  (\E d : MovesTo(c, d)) /\ server'.data \in {server.data, server.data + 1}
<1> DEFINE Moving == \E d : MovesTo(c, d)
<1>1. IsCall(c)
    BY DEF TypeInv
<1>2. ASSUME NEW d, Step(c, d), NEW p, Bears(d, c.job, p, c.result, c.data),
             p = "admitted" => c.job.cmd.signsIn
      PROVE  Moving
  <2>1. MovesTo(c, d)
      BY <1>2 DEF Bears, Step, MovesTo, Ok
  <2> QED
      BY <2>1
<1>3. ASSUME NEW r, Back(c, r), r # "ok" \/ c.pc = "admitted"
      PROVE  Moving
  <2>1. Bears([c EXCEPT !.pc = "answered", !.result = r], c.job, "answered", r, c.data)
      BY <1>1, MovesBear
  <2>2. MovesTo(c, [c EXCEPT !.pc = "answered", !.result = r])
      BY <1>3, <2>1 DEF Back, Bears, Step, MovesTo, Ok
  <2> QED
      BY <2>2
<1>4. Moving
  <2>1. CASE Send(c)
    <3>1. PICK g : Step(c, [c EXCEPT !.pc = "sent", !.token = client.access, !.gen = g])
        BY <2>1 DEF Send
    <3>2. Bears([c EXCEPT !.pc = "sent", !.token = client.access, !.gen = g],
                c.job, "sent", c.result, c.data)
        BY <1>1, MovesBear
    <3> QED
        BY <1>2, <3>1, <3>2
  <2>2. CASE Serve(c)
    <3>1. PICK n : n = server'.data
        OBVIOUS
    <3> DEFINE d == [c EXCEPT !.pc = "answered", !.result = "ok", !.data = n]
    <3>2. Step(c, d)
        BY <2>2, <3>1 DEF Serve
    <3>3. Bears(d, c.job, "answered", "ok", n)
        BY <1>1, MovesBear
    <3> HIDE DEF d
    <3>4. MovesTo(c, d)
        BY <3>1, <3>2, <3>3 DEF Bears, Step, MovesTo
    <3> QED
        BY <3>4
  <2>3. ASSUME NEW p, p # "admitted", At(c, p)
        PROVE  Moving
    <3>1. Bears([c EXCEPT !.pc = p], c.job, p, c.result, c.data)
        BY <1>1, MovesBear
    <3> QED
        BY <1>2, <2>3, <3>1 DEF At
  <2>4. CASE Refuse(c) \/ Reject(c)
      BY <1>3, <2>3, <2>4 DEF Refuse, Reject
  <2>5. ASSUME NEW p, NEW t, Step(c, [c EXCEPT !.pc = p, !.token = t]),
               p = "admitted" => c.job.cmd.signsIn
        PROVE  Moving
    <3>1. Bears([c EXCEPT !.pc = p, !.token = t], c.job, p, c.result, c.data)
        BY <1>1, MovesBear
    <3> QED
        BY <1>2, <2>5, <3>1
  <2>6. CASE SignIn(c) \/ Rotate(c) \/ LockAndExchange(c)
    <3>1. CASE SignIn(c)
        BY <2>5, <3>1 DEF SignIn
    <3>2. CASE Rotate(c)
      <4>1. Step(c, [c EXCEPT !.pc = "issued", !.token = Issued + 1])
          BY <3>2 DEF Rotate
      <4>2. "issued" # "admitted"
          OBVIOUS
      <4> HIDE DEF Moving
      <4> QED
          BY <2>5, <4>1, <4>2
    <3>3. CASE LockAndExchange(c)
        BY <2>5, <3>3 DEF LockAndExchange
    <3> QED
        BY <2>6, <3>1, <3>2, <3>3
  <2>7. CASE LockAndReplay(c) \/ CaptureExchange(c)
    <3>1. Step(c, [c EXCEPT !.pc = "ready", !.replay = TRUE])
        BY <2>7 DEF LockAndReplay, CaptureExchange
    <3>2. Bears([c EXCEPT !.pc = "ready", !.replay = TRUE], c.job, "ready", c.result, c.data)
        BY <1>1, MovesBear
    <3> QED
        BY <1>2, <3>1, <3>2
  <2>8. CASE \/ ServeAndLose(c) \/ Fail(c) \/ CaptureSignIn(c) \/ LockAndGiveUp(c)
             \/ ExchangeFails(c) \/ LoseExchange(c) \/ CaptureRejection(c)
      BY <1>3, <2>8 DEF ServeAndLose, Fail, CaptureSignIn, LockAndGiveUp, ExchangeFails,
                        LoseExchange, CaptureRejection
  <2> QED
      BY <2>1, <2>2, <2>4, <2>6, <2>7, <2>8 DEF CallNext
<1>5. server'.data \in {server.data, server.data + 1}
  <2>1. server = [family |-> server.family, spent |-> server.spent, stale |-> server.stale,
                  ended |-> server.ended, reused |-> server.reused, lost |-> server.lost,
                  data |-> server.data]
      BY DEF TypeInv, IsServer
  <2>2. CASE Serve(c) \/ ServeAndLose(c)
      BY <2>1, <2>2 DEF Serve, ServeAndLose, Written
  <2>3. CASE SignIn(c) \/ Rotate(c) \/ Reject(c) \/ LoseExchange(c)
      BY <2>1, <2>3 DEF SignIn, SignedIn, Rotate, Rotated, Reject, Replayed, LoseExchange
  <2>4. CASE \/ Send(c) \/ Fail(c) \/ Refuse(c) \/ CaptureSignIn(c) \/ LockAndReplay(c)
             \/ LockAndGiveUp(c) \/ LockAndExchange(c) \/ ExchangeFails(c)
             \/ CaptureExchange(c) \/ CaptureRejection(c)
      BY <2>4 DEF Send, Fail, Refuse, CaptureSignIn, LockAndReplay, LockAndGiveUp,
                  LockAndExchange, ExchangeFails, CaptureExchange, CaptureRejection
  <2> QED
      BY <2>2, <2>3, <2>4 DEF CallNext
<1> QED
    BY <1>4, <1>5

LEMMA TransportKeepsFresh ==
    ASSUME FreshInv, TypeInv, FormInv, Transport
    PROVE  FreshInv'
<1>1. /\ app' = app /\ modal' = modal /\ fresh' = fresh /\ view' = view /\ known' = known
      /\ tour' = tour
    BY DEF Transport, uiVars
<1>2. /\ server.data \in Nat /\ known \in 0 .. server.data /\ IsView(view) /\ app.visit \in Nat
      /\ fresh \subseteq tour.screens /\ Carries(flight, server.data, app.visit)
      /\ AllFresh(fresh, view, flight, known, app.visit)
    BY DEF FreshInv, FormInv, Base
<1>3. ASSUME Carries(flight', server'.data, app.visit),
             app.signedIn => Numbered(view, flight', app.visit),
             AllFresh(fresh, view, flight', known, app.visit),
             server'.data \in {server.data, server.data + 1}
      PROVE  FreshInv'
  <2>1. server'.data \in Nat /\ known \in 0 .. server'.data
      BY <1>2, <1>3
  <2> QED
      BY <1>1, <1>3, <2>1, FreshNext DEF FreshInv
<1>4. CASE GoStale \/ EndElsewhere
  <2>1. flight' = flight /\ server'.data = server.data
      BY <1>4 DEF GoStale, EndElsewhere, TypeInv, IsServer
  <2> QED
      BY <1>2, <1>3, <2>1 DEF FreshInv
<1>5. CASE \E c \in flight : CallNext(c)
  <2>1. PICK c \in flight : CallNext(c)
      BY <1>5
  <2>2. server'.data \in {server.data, server.data + 1} /\ \E d : MovesTo(c, d)
      BY <1>2, <2>1, CallMovesOn
  <2>3. PICK d : MovesTo(c, d)
      BY <2>2
  <2>4. d.job = c.job /\ flight' = (flight \ {c}) \cup {d}
      BY <2>3 DEF MovesTo
  <2>5. Carries(flight', server'.data, app.visit)
    <3>1. /\ Plain(d.job.cmd) /\ d.job.visit \in 0 .. app.visit
          /\ d.pc = "admitted" => d.job.cmd.signsIn
        BY <1>2, <2>3, <2>4 DEF Carries, MovesTo
    <3>2. c.data \in 0 .. server.data /\ d.data \in {c.data, server'.data}
        BY <1>2, <2>3 DEF Carries, MovesTo
    <3>3. d.data \in 0 .. server'.data
        BY <1>2, <2>2, <3>2
    <3>4. \A q \in 0 .. server.data : q \in 0 .. server'.data
        BY <1>2, <2>2
    <3> QED
        BY <1>2, <2>4, <3>1, <3>3, <3>4 DEF Carries
  <2>6. app.signedIn => Numbered(view, flight', app.visit)
      BY <2>4 DEF FreshInv, Numbered, Tag
  <2>7. ASSUME NEW s \in fresh \ {"import"}, NEW q \in Refresh(s, view[s].pane)
        PROVE  Row(view, flight', known, app.visit, s, q.tag)
    <3>1. q.tag \in RowTags
        BY <1>2, RowsKept DEF FormInv
    <3>2. Row(view, flight, known, app.visit, s, q.tag)
        BY <1>2 DEF AllFresh
    <3>3. Newest(view, app.visit, d, s, q.tag) <=> Newest(view, app.visit, c, s, q.tag)
        BY <2>4 DEF Newest, Tag
    <3>4. ASSUME Newest(view, app.visit, d, s, q.tag), Ok(d)
          PROVE  d.data >= known
      <4>1. c.pc # "admitted"
          BY <1>2, <3>1, <3>3, <3>4 DEF Carries, Plain, Newest, Tag
      <4>2. d.data = server'.data \/ (Ok(c) /\ d.data = c.data)
          BY <2>3, <3>4, <4>1 DEF MovesTo
      <4>3. server'.data >= known
          BY <1>2, <2>2
      <4>4. Ok(c) => c.data >= known
          BY <3>2, <3>3, <3>4 DEF Row
      <4> QED
          BY <4>2, <4>3, <4>4
    <3> QED
        BY <2>4, <3>2, <3>3, <3>4 DEF Row
  <2> QED
      BY <1>3, <2>2, <2>5, <2>6, <2>7 DEF AllFresh
<1> QED
    BY <1>4, <1>5 DEF Transport, ClientNext

LEMMA FreshInvHolds == Spec => []FreshInv
<1>1. Init => FreshInv
  <2> SUFFICES ASSUME Init PROVE FreshInv
      OBVIOUS
  <2>1. PICK door \in BOOLEAN :
           /\ \E families : server = [family |-> families, spent |-> {}, stale |-> {}, ended |-> {},
                                     reused |-> {}, lost |-> {}, data |-> 0]
           /\ app = [signedIn |-> door, built |-> FALSE, nav |-> tour.first, visit |-> 0]
           /\ flight = IF door THEN {Call([screen |-> "app", cmd |-> RefData, n |-> 1, visit |-> 0])}
                               ELSE {}
      BY DEF Init
  <2>2. IsView(view)
      BY NoViewIsView DEF Init
  <2>3. server.data = 0
      BY <2>1
  <2>4. "app" \notin tour.screens /\ app.visit = 0
    <3>1. tour.screens \subseteq Screens
        BY ToursAssumption DEF Init
    <3> QED
        BY <2>1, <3>1 DEF Screens
  <2>5. ASSUME NEW c \in flight
        PROVE  /\ c.job.screen = "app" /\ Plain(c.job.cmd) /\ c.data = 0 /\ c.job.visit = 0
               /\ c.pc = "ready"
    <3>1. c = Call([screen |-> "app", cmd |-> RefData, n |-> 1, visit |-> 0])
        BY <2>1
    <3>2. c.job = [screen |-> "app", cmd |-> RefData, n |-> 1, visit |-> 0]
          /\ c.data = 0 /\ c.pc = "ready"
        BY <3>1 DEF Call
    <3>3. Plain(RefData)
        BY Commands DEF RefData, Plain, RowTags
    <3> QED
        BY <3>2, <3>3
  <2>6. Carries(flight, server.data, app.visit) /\ Numbered(view, flight, app.visit)
      BY <2>4, <2>5, <2>3 DEF Carries, Numbered
  <2>7. fresh = {} /\ known = 0 /\ modal = NoModal
      BY DEF Init
  <2> QED
      BY <2>2, <2>6, <2>7, <2>3, NoOverlayCovers DEF FreshInv, AllFresh
<1>2. FreshInv /\ FormInv /\ ReuseInv /\ [Next]_termVars => FreshInv'
  <2> SUFFICES ASSUME FreshInv, FormInv, ReuseInv, [Next]_termVars PROVE FreshInv'
      OBVIOUS
  <2>1. CASE Transport
      BY <2>1, TransportKeepsFresh DEF ReuseInv
  <2>2. CASE UNCHANGED termVars
    <3>1. UNCHANGED <<server, flight, app, fresh, view, modal, known, tour>>
        BY <2>2 DEF termVars, clientVars, uiVars
    <3> QED
        BY <3>1, FreshNext DEF FreshInv
  <2> QED
      BY <2>1, <2>2, KeysKeepFresh, MessagesKeepFresh DEF Next
<1> QED
    BY <1>1, <1>2, FormInvHolds, ReuseInvHolds, PTL DEF Spec

(* A screen marked fresh has asked for its rows; once the answers are in, rows *)
(* answered in order are as new as the newest write the app has heard of, and  *)
(* the ledger list never keeps an answer that came out of order (selectScreen  *)
(* and update, app.go:265 and 397).                                            *)
THEOREM FreshRowsStayCurrent == Spec => []FreshRowsAreCurrent
<1>1. FreshInv => FreshRowsAreCurrent
  <2> SUFFICES ASSUME FreshInv, NEW s \in fresh \ {"import"}, NEW c \in Refresh(s, view[s].pane),
                      ~ AwaitsRows(s, c.tag)
               PROVE  /\ view[s].rows[c.tag].how \notin {"none", "asked"}
                      /\ view[s].rows[c.tag].how = "newest" => view[s].rows[c.tag].data >= known
                      /\ s = "transactions" => view[s].rows[c.tag].how # "late"
      BY DEF FreshRowsAreCurrent
  <2>1. Row(view, flight, known, app.visit, s, c.tag)
      BY DEF FreshInv, AllFresh
  <2> QED
      BY <2>1 DEF Row, Newest, AwaitsRows
<1> QED
    BY <1>1, FreshInvHolds, PTL
=============================================================================
