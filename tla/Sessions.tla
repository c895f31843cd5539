------------------------------ MODULE Sessions ------------------------------
(***************************************************************************)
(* The sessions of one user in one browser: the refresh tokens of the      *)
(* server, rotated at each use and grouped in families, the cookie that    *)
(* all the tabs share, and the access token of each tab.                   *)
(*                                                                         *)
(* A tab has exchanges with the server: to log in, to refresh and to log   *)
(* out.  The server handles each call by call, and either side may give    *)
(* an exchange up: the answer is lost, or the process of the server dies.  *)
(* The calls of a tab that are answered 401 share one refresh.             *)
(*                                                                         *)
(* A token is known by its place in the order of creation, a family by its *)
(* first token.  Left out: the user, the signature of the access token,    *)
(* what the calls do.  The grace period is taken to outlast an exchange.   *)
(***************************************************************************)
EXTENDS Integers, FiniteSets

CONSTANTS
    Tabs,         \* the tabs of the browser
    MaxTokens     \* bound: refresh tokens ever issued

ASSUME SessionsAssumption == MaxTokens \in Nat

Tokens == 1 .. MaxTokens
None == 0
Slots == 1 .. 2     \* bound: exchanges of a tab at once

VARIABLES
    token,        \* the refresh_tokens collection
    jar,          \* the token in the cookie rt
    signed,       \* the tabs with an access token, expired or not
    exchange,     \* the exchanges of each tab
    lost          \* tokens rotated by an exchange whose answer was lost

vars == <<token, jar, signed, exchange, lost>>

Unborn == [sid |-> None]
Token ==
    [sid : Tokens, rotated : {"no", "recently", "long ago"}, by : Tabs \cup {None},
     revoked : BOOLEAN]

\* Where an exchange is: the token it presented, its family, and the token issued.
X(pc, tok, sid, new) == [pc |-> pc, tok |-> tok, sid |-> sid, new |-> new]
NoExchange == X("none", None, None, None)
Exchange ==
    [pc : {"none", "find", "rotate", "alarm", "issue", "answer", "refused", "logout",
           "gone"},
     tok : Tokens \cup {None}, sid : Tokens \cup {None}, new : Tokens \cup {None}]

\* One type invariant for the module.
TypeOK ==
    /\ token \in [Tokens -> Token \cup {Unborn}]
    /\ jar \in Tokens \cup {None}
    /\ signed \subseteq Tabs
    /\ exchange \in [Tabs -> [Slots -> Exchange]]
    /\ lost \subseteq Tokens

-----------------------------------------------------------------------------

Live(n) == token[n] # Unborn /\ token[n].rotated = "no" /\ ~token[n].revoked
Go(t, s, next) == exchange' = [exchange EXCEPT ![t][s] = next]
Open(t, s) == exchange[t][s] = NoExchange /\ \A k \in 1 .. s - 1 : exchange[t][k] # NoExchange
At(t, s, pc) == exchange[t][s].pc = pc

\* Bound: there is a token left for every exchange that will issue one.
MayIssue ==
    Cardinality({n \in Tokens : token[n] = Unborn}) >
    Cardinality({ts \in Tabs \X Slots : At(ts[1], ts[2], "issue")})

Init ==
    /\ token = [n \in Tokens |-> Unborn]
    /\ jar = None
    /\ signed = {}
    /\ exchange = [t \in Tabs |-> [s \in Slots |-> NoExchange]]
    /\ lost = {}

\* The credentials are good: a session is issued with a family of its own.  Bound: the
\* user logs in at one tab at a time.
LogIn(t, s) ==
    /\ \A u \in Tabs, k \in Slots :
          exchange[u][k].pc \in {"issue", "answer"} => exchange[u][k].tok # None
    /\ t \notin signed /\ Open(t, s) /\ MayIssue
    /\ Go(t, s, X("issue", None, None, None))
    /\ UNCHANGED <<token, jar, signed, lost>>

-----------------------------------------------------------------------------
(* The tab refreshes *)

\* Slip: every call that needs it refreshes.
RefreshingNever(t) == FALSE

IsRefreshing(t) ==
    \E s \in Slots :
        \/ exchange[t][s].pc \in {"find", "rotate", "alarm", "refused"}
        \/ exchange[t][s].pc \in {"issue", "answer"} /\ exchange[t][s].tok # None

\* A call is answered 401, a page loads, the access token is about to expire, the
\* socket was not let in: at any time, also after the refresh that another call waited
\* for.  While there is one it is shared.  The browser sends the cookie it has now.
Refresh(t, s) ==
    /\ ~IsRefreshing(t) /\ Open(t, s)
    /\ Go(t, s, IF jar = None THEN X("refused", None, None, None)
                ELSE X("find", jar, token[jar].sid, None))
    /\ UNCHANGED <<token, jar, signed, lost>>


-----------------------------------------------------------------------------
(* The server refreshes *)

\* Slip: there is no grace.
IsReuseAny(n) == token[n].rotated # "no"

\* A token that was rotated a while ago is taken for a stolen one; one that was
\* rotated just now, for a race between tabs.
IsReuse(n) == token[n].rotated = "long ago"

Find(t, s) ==
    LET x == exchange[t][s]
    IN /\ At(t, s, "find")
       /\ Go(t, s, [x EXCEPT !.pc =
              IF token[x.tok].revoked THEN "refused"
              ELSE IF IsReuse(x.tok) THEN "alarm"
              ELSE IF token[x.tok].rotated # "no" THEN "refused" ELSE "rotate"])
       /\ UNCHANGED <<token, jar, signed, lost>>

Revoked(sid) == [n \in Tokens |->
    IF token[n].sid = sid THEN [token[n] EXCEPT !.revoked = TRUE] ELSE token[n]]

Alarm(t, s) ==
    /\ At(t, s, "alarm")
    /\ token' = Revoked(exchange[t][s].sid)
    /\ Go(t, s, [exchange[t][s] EXCEPT !.pc = "refused"])
    /\ UNCHANGED <<jar, signed, lost>>

\* Slip: what find returned is trusted.
CanRotateFound(n) == TRUE

CanRotate(n) == token[n].rotated = "no" /\ ~token[n].revoked

Rotate(t, s) ==
    LET x == exchange[t][s]
    IN /\ At(t, s, "rotate") /\ MayIssue
       /\ IF CanRotate(x.tok)
          THEN /\ token' = [token EXCEPT ![x.tok] = [@ EXCEPT !.rotated = "recently", !.by = t]]
               /\ Go(t, s, [x EXCEPT !.pc = "issue"])
          ELSE /\ Go(t, s, [x EXCEPT !.pc = "refused"])
               /\ UNCHANGED token
       /\ UNCHANGED <<jar, signed, lost>>

\* The user exists: accounts are not removed.
Issue(t, s) ==
    LET x == exchange[t][s]
    IN /\ At(t, s, "issue")
       /\ \E n \in Tokens :
            LET sid == IF x.sid = None THEN n ELSE x.sid
            IN /\ token[n] = Unborn
               /\ \A k \in 1 .. n - 1 : token[k] # Unborn
               /\ token' = [token EXCEPT ![n] =
                     [sid |-> sid, rotated |-> "no", by |-> None, revoked |-> FALSE]]
               /\ Go(t, s, X("answer", x.tok, sid, n))
       /\ UNCHANGED <<jar, signed, lost>>

\* The answer arrives: the cookie is of all the tabs, the access token of this one.
Signed(t, s) ==
    /\ At(t, s, "answer")
    /\ jar' = exchange[t][s].new
    /\ signed' = signed \cup {t}
    /\ Go(t, s, NoExchange)
    /\ UNCHANGED <<token, lost>>

\* Slip: the cookie is taken for the session.
ClearedCookie(t) == signed \cup {jar}

Cleared(t) == signed \ {t}

Refused(t, s) ==
    /\ At(t, s, "refused")
    /\ signed' = Cleared(t)
    /\ Go(t, s, NoExchange)
    /\ UNCHANGED <<token, jar, lost>>

\* The process dies, the user is not read, or the answer does not arrive.
Lose(t, s) ==
    /\ exchange[t][s].pc \in {"find", "rotate", "alarm", "issue", "answer"}
    /\ signed' = Cleared(t)
    /\ lost' = lost \cup (IF exchange[t][s].pc \in {"issue", "answer"}
                          THEN {exchange[t][s].tok} \ {None} ELSE {})
    /\ Go(t, s, NoExchange)
    /\ UNCHANGED <<token, jar>>

\* The grace period outlasts the exchanges that present or replace the token.
GraceEnds(n) ==
    /\ token[n] # Unborn /\ token[n].rotated = "recently"
    /\ \A t \in Tabs, s \in Slots : exchange[t][s].sid # token[n].sid
    /\ token' = [token EXCEPT ![n].rotated = "long ago"]
    /\ UNCHANGED <<jar, signed, exchange, lost>>

-----------------------------------------------------------------------------
(* Logging out *)

LogOut(t, s) ==
    /\ t \in signed /\ Open(t, s)
    /\ \A k \in Slots : ~At(t, k, "logout") /\ ~At(t, k, "gone")
    /\ Go(t, s, X(IF jar = None THEN "gone" ELSE "logout", jar, None, None))
    /\ UNCHANGED <<token, jar, signed, lost>>

\* The token is found, and then its family, which does not change.
RevokeFamily(t, s) ==
    /\ At(t, s, "logout")
    /\ token' = Revoked(token[exchange[t][s].tok].sid)
    /\ Go(t, s, X("gone", None, None, None))
    /\ UNCHANGED <<jar, signed, lost>>

\* The answer clears the cookie, if it arrives; the tab forgets the session anyway.
SignedOut(t, s) ==
    /\ \/ At(t, s, "gone") /\ jar' = None
       \/ exchange[t][s].pc \in {"logout", "gone"} /\ jar' = jar
    /\ signed' = Cleared(t)
    /\ Go(t, s, NoExchange)
    /\ UNCHANGED <<token, lost>>

-----------------------------------------------------------------------------

Next ==
    \/ \E t \in Tabs, s \in Slots :
            \/ LogIn(t, s) \/ Refresh(t, s) \/ Find(t, s) \/ Alarm(t, s) \/ Rotate(t, s) \/ Issue(t, s)
            \/ Signed(t, s) \/ Refused(t, s) \/ Lose(t, s)
            \/ LogOut(t, s) \/ RevokeFamily(t, s) \/ SignedOut(t, s)
    \/ \E n \in Tokens : GraceEnds(n)

Spec == Init /\ [][Next]_vars

-----------------------------------------------------------------------------
(* Properties *)

\* However tabs race, answers are lost and sessions are closed, a family has one token
\* that can still be rotated, or one about to be issued: a copy of a cookie and the
\* cookie cannot both go on being refreshed (service.ts:177-186).
OneLiveToken ==
    \A sid \in Tokens :
        Cardinality({n \in Tokens : Live(n) /\ token[n].sid = sid}) +
        Cardinality({ts \in Tabs \X Slots :
            At(ts[1], ts[2], "issue") /\ exchange[ts[1]][ts[2]].sid = sid}) <= 1

\* A race between the tabs of a user is never taken for a theft: the family is revoked
\* for reuse only after the answer to a rotation was lost (service.ts:165-173).
RaceIsNotTheft ==
    \A t \in Tabs, s \in Slots :
        At(t, s, "alarm") => \E n \in lost : token[n].sid = exchange[t][s].sid

\* The calls of one tab, answered 401 at any time, do not make it lose the session to
\* itself: a refusal is of a cookie that was removed, revoked, lost or rotated by
\* another tab (api-client.ts:65-92).
NotRefusedByItself ==
    \A t \in Tabs, s \in Slots :
        LET n == exchange[t][s].tok
        IN At(t, s, "refused") =>
             \/ n = None \/ token[n].revoked \/ n \in lost \/ token[n].by # t
=============================================================================
