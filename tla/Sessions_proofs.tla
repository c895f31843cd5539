-------------------------- MODULE Sessions_proofs --------------------------
(***************************************************************************)
(* Proofs about the sessions, for any tabs and any number of tokens.       *)
(*                                                                         *)
(* The argument: a token is presented only after it reached the cookie,    *)
(* and it reaches it once.  So the cookie holds a token already rotated    *)
(* only while its successor is on the way, or after the answer was lost.   *)
(***************************************************************************)
EXTENDS Sessions, FiniteSetTheorems, TLAPS

Handling(x) == x.pc \in {"find", "rotate", "alarm"}
Replacing(x) == x.pc \in {"issue", "answer"}
Born(n) == token[n].sid # None

\* What an exchange or the cookie refers to was issued, in the family it says.
Known ==
    /\ \A n \in Tokens : Born(n) => Born(token[n].sid)
    /\ jar # None => Born(jar)
    /\ \A t \in Tabs, s \in Slots :
         LET x == exchange[t][s]
         IN /\ x.sid # None => Born(x.sid)
            /\ x.tok # None => Born(x.tok)
            /\ Handling(x) \/ x.pc = "logout" => x.tok # None
            /\ (Handling(x) \/ Replacing(x)) /\ x.tok # None => x.sid = token[x.tok].sid

\* A token on its way to the browser is known to one exchange and presented by none.
InFlight ==
    \A t \in Tabs, s \in Slots :
      LET n == exchange[t][s].new
      IN At(t, s, "answer") =>
           /\ n # None /\ Born(n) /\ token[n].rotated = "no" /\ jar # n
           /\ \A u \in Tabs, k \in Slots :
                /\ exchange[u][k].tok # n
                /\ At(u, k, "answer") /\ exchange[u][k].new = n => u = t /\ k = s

\* A family has one live token, or one exchange about to issue it.
Issuing(t, s, sid) == At(t, s, "issue") /\ exchange[t][s].sid = sid
OneLive ==
    \A m, n \in Tokens : Live(m) /\ Live(n) /\ token[m].sid = token[n].sid => m = n
OneIssuing ==
    \A sid \in Tokens, t, u \in Tabs, s, k \in Slots :
      Issuing(t, s, sid) /\ Issuing(u, k, sid) => t = u /\ s = k
NotBoth ==
    \A n \in Tokens, t \in Tabs, s \in Slots : ~(Live(n) /\ Issuing(t, s, token[n].sid))

\* The cookie holds a token already rotated only if the answer is on its way or lost.
JarIsNew ==
    jar # None /\ token[jar].rotated # "no" /\ jar \notin lost =>
      \E t \in Tabs, s \in Slots :
        /\ Replacing(exchange[t][s]) /\ exchange[t][s].tok = jar
        /\ token[jar].by = t /\ token[jar].rotated = "recently"

\* A token that will be taken for stolen has an answer lost in its family.
LostIn(sid) == \E n \in lost : token[n].sid = sid
Suspects ==
    \A t \in Tabs, s \in Slots :
      At(t, s, "alarm") \/ (At(t, s, "find") /\ IsReuse(exchange[t][s].tok)) =>
        LostIn(exchange[t][s].sid)

\* A tab has one refresh at a time.
Refreshing(t, s) ==
    \/ Handling(exchange[t][s]) \/ At(t, s, "refused")
    \/ Replacing(exchange[t][s]) /\ exchange[t][s].tok # None
OneRefresh ==
    \A t \in Tabs, s, k \in Slots : Refreshing(t, s) /\ Refreshing(t, k) => k = s

\* A refresh was not overtaken by another of the same tab.
Own ==
    \A t \in Tabs, s \in Slots :
      LET n == exchange[t][s].tok
      IN n # None /\ (At(t, s, "find") \/ At(t, s, "rotate") \/ At(t, s, "refused")) =>
           \/ token[n].revoked \/ n \in lost \/ token[n].by # t
           \/ token[n].rotated = "no" /\ ~At(t, s, "refused")

\* The inductive invariant.
IInv ==
    /\ TypeOK /\ Known /\ InFlight
    /\ OneLive /\ OneIssuing /\ NotBoth
    /\ JarIsNew /\ Suspects /\ OneRefresh /\ Own

-----------------------------------------------------------------------------
(* The values *)

USE DEF Born, Handling, Replacing, At

LEMMA NoneIsNoToken == None \notin Tokens
BY SessionsAssumption DEF None, Tokens

LEMMA TokenShape ==
    ASSUME TypeOK
    PROVE  \A n \in Tokens :
             /\ token[n] # Unborn => Born(n)
             /\ Born(n) => token[n] # Unborn /\ token[n].sid \in Tokens
             /\ Born(n) => token[n] \in Token
<1> SUFFICES ASSUME NEW n \in Tokens
             PROVE  /\ token[n] # Unborn => Born(n)
                    /\ Born(n) => token[n] # Unborn /\ token[n].sid \in Tokens
                    /\ Born(n) => token[n] \in Token
  OBVIOUS
<1>1. CASE token[n] = Unborn
  BY <1>1 DEF Unborn
<1>2. CASE token[n] \in Token
  <2>1. token[n].sid \in Tokens
    BY <1>2 DEF Token
  <2>2. Unborn.sid = None
    BY DEF Unborn
  <2>3. QED
    BY <1>2, <2>1, <2>2, NoneIsNoToken
<1>3. QED
  BY <1>1, <1>2 DEF TypeOK

LEMMA ExchangeShape ==
    ASSUME TypeOK
    PROVE  \A t \in Tabs, s \in Slots :
             /\ exchange[t][s] \in Exchange
             /\ exchange[t][s].tok \in Tokens \cup {None}
             /\ exchange[t][s].sid \in Tokens \cup {None}
             /\ exchange[t][s].new \in Tokens \cup {None}
BY DEF TypeOK, Exchange

\* One exchange moves.
LEMMA Went ==
    ASSUME TypeOK, NEW t \in Tabs, NEW s \in Slots, NEW y \in Exchange, Go(t, s, y)
    PROVE  /\ exchange' \in [Tabs -> [Slots -> Exchange]]
           /\ \A u \in Tabs, k \in Slots :
                exchange'[u][k] = IF u = t /\ k = s THEN y ELSE exchange[u][k]
BY DEF TypeOK, Go

\* What revoking a family changes.
LEMMA Shut ==
    ASSUME TypeOK, NEW sid \in Tokens, token' = Revoked(sid)
    PROVE  /\ token' \in [Tokens -> Token \cup {Unborn}]
           /\ \A n \in Tokens :
                /\ token'[n].sid = token[n].sid
                /\ ~Born(n) => token'[n] = token[n]
                /\ Born(n) => /\ token'[n] # Unborn
                              /\ token'[n].rotated = token[n].rotated
                              /\ token'[n].by = token[n].by
                              /\ token[n].revoked \/ token[n].sid = sid => token'[n].revoked
                              /\ token'[n].revoked => token[n].revoked \/ token[n].sid = sid
<1> SUFFICES ASSUME NEW n \in Tokens
             PROVE  /\ token'[n] \in Token \cup {Unborn}
                    /\ token'[n].sid = token[n].sid
                    /\ ~Born(n) => token'[n] = token[n]
                    /\ Born(n) =>
                         /\ token'[n] # Unborn
                         /\ token'[n].rotated = token[n].rotated
                         /\ token'[n].by = token[n].by
                         /\ token[n].revoked \/ token[n].sid = sid => token'[n].revoked
                         /\ token'[n].revoked => token[n].revoked \/ token[n].sid = sid
  BY DEF Revoked
<1>1. CASE token[n].sid = sid
  <2>1. token'[n] = [token[n] EXCEPT !.revoked = TRUE]
    BY <1>1 DEF Revoked
  <2>2. Born(n) /\ token[n] \in Token
    BY <1>1, TokenShape, NoneIsNoToken
  <2>3. QED
    BY <1>1, <2>1, <2>2, NoneIsNoToken DEF Token, Unborn
<1>2. CASE token[n].sid # sid
  <2>1. token'[n] = token[n]
    BY <1>2 DEF Revoked
  <2>2. QED
    BY <1>2, <2>1, TokenShape DEF TypeOK
<1>3. QED
  BY <1>1, <1>2

-----------------------------------------------------------------------------
(* The steps *)

\* A session is about to be issued: its family does not exist yet.
LEMMA LogInKeeps ==
    ASSUME IInv, NEW t \in Tabs, NEW s \in Slots, LogIn(t, s)
    PROVE  IInv'
<1> DEFINE x == exchange[t][s]
<1> DEFINE y == X("issue", None, None, None)
<1>0. /\ TypeOK /\ Known /\ InFlight /\ OneLive /\ OneIssuing /\ NotBoth
      /\ JarIsNew /\ Suspects /\ OneRefresh /\ Own
  BY DEF IInv
<1>1. /\ None \notin Tokens
      /\ \A n \in Tokens : /\ token[n] # Unborn => Born(n)
                           /\ Born(n) => token[n] # Unborn /\ token[n].sid \in Tokens
      /\ \A u \in Tabs, k \in Slots :
           /\ exchange[u][k].tok \in Tokens \cup {None}
           /\ exchange[u][k].sid \in Tokens \cup {None}
      /\ jar \in Tokens \cup {None} /\ lost \subseteq Tokens
  BY <1>0, TokenShape, ExchangeShape, NoneIsNoToken DEF TypeOK
<1>2. x.pc = "none"
  BY <1>0, <1>1, ExchangeShape DEF LogIn, Open, NoExchange, X
<1>3. /\ y \in Exchange
      /\ y.pc = "issue" /\ y.tok = None /\ y.sid = None /\ y.new = None
  BY <1>0, <1>1, <1>2 DEF X, Exchange
<1>4. /\ exchange' \in [Tabs -> [Slots -> Exchange]]
      /\ \A u \in Tabs, k \in Slots :
           exchange'[u][k] = IF u = t /\ k = s THEN y ELSE exchange[u][k]
  BY <1>0, <1>3, Went DEF LogIn
<1>5. /\ token' = token /\ jar' = jar /\ lost' = lost
  BY DEF LogIn
<1> HIDE DEF y
<1>6. TypeOK'
  BY <1>0, <1>1, <1>2, <1>4, <1>5 DEF LogIn, TypeOK
<1>7. Known'
  BY <1>0, <1>1, <1>2, <1>3, <1>4, <1>5 DEF Known
<1>8. InFlight'
  BY <1>0, <1>1, <1>2, <1>3, <1>4, <1>5 DEF InFlight
<1>9. OneLive'
  BY <1>0, <1>1, <1>2, <1>3, <1>4, <1>5 DEF OneLive, Live
<1>10. OneIssuing'
  BY <1>0, <1>1, <1>3, <1>4 DEF OneIssuing, Issuing
<1>11. NotBoth'
  BY <1>0, <1>1, <1>2, <1>3, <1>4, <1>5 DEF NotBoth, Live, Issuing
<1>12. JarIsNew'
  BY <1>0, <1>1, <1>2, <1>3, <1>4, <1>5 DEF JarIsNew
<1>13. Suspects'
  <2> SUFFICES ASSUME NEW u \in Tabs, NEW k \in Slots,
                      (At(u, k, "alarm") \/ (At(u, k, "find") /\ IsReuse(exchange[u][k].tok)))'
               PROVE  LostIn(exchange[u][k].sid)'
    BY DEF Suspects
  <2>1. CASE u = t /\ k = s
    BY <1>0, <1>1, <1>2, <1>3, <1>4, <1>5, <2>1
  <2>2. CASE ~(u = t /\ k = s)
    <3>1. exchange'[u][k] = exchange[u][k]
      BY <1>4, <2>2
    <3>2. LostIn(exchange[u][k].sid)
      BY <1>0, <1>1, <1>5, <3>1 DEF Suspects, IsReuse
    <3>3. QED
      BY <1>1, <1>5, <3>1, <3>2 DEF LostIn
  <2>3. QED
    BY <2>1, <2>2
<1>14. OneRefresh'
  BY <1>0, <1>1, <1>2, <1>3, <1>4 DEF OneRefresh, Refreshing
<1>15. Own'
  BY <1>0, <1>1, <1>2, <1>3, <1>4, <1>5 DEF Own
<1>16. QED
  BY <1>6, <1>7, <1>8, <1>9, <1>10, <1>11, <1>12, <1>13, <1>14, <1>15 DEF IInv

\* The tab presents the cookie it has: one rotated by itself would be lost or on its way.
LEMMA RefreshKeeps ==
    ASSUME IInv, NEW t \in Tabs, NEW s \in Slots, Refresh(t, s)
    PROVE  IInv'
<1> DEFINE x == exchange[t][s]
<1> DEFINE y == IF jar = None THEN X("refused", None, None, None)
                 ELSE X("find", jar, token[jar].sid, None)
<1>0. /\ TypeOK /\ Known /\ InFlight /\ OneLive /\ OneIssuing /\ NotBoth
      /\ JarIsNew /\ Suspects /\ OneRefresh /\ Own
  BY DEF IInv
<1>1. /\ None \notin Tokens
      /\ \A n \in Tokens : /\ token[n] # Unborn => Born(n)
                           /\ Born(n) => token[n] # Unborn /\ token[n].sid \in Tokens
      /\ \A u \in Tabs, k \in Slots :
           /\ exchange[u][k].tok \in Tokens \cup {None}
           /\ exchange[u][k].sid \in Tokens \cup {None}
      /\ jar \in Tokens \cup {None} /\ lost \subseteq Tokens
  BY <1>0, TokenShape, ExchangeShape, NoneIsNoToken DEF TypeOK
<1>2. /\ x.pc = "none"
      /\ jar # None => Born(jar) /\ token[jar].sid \in Tokens /\ jar \in Tokens
      /\ \A k \in Slots : ~Refreshing(t, k)
  <2>1. x.pc = "none"
    BY DEF Refresh, Open, NoExchange, X
  <2>2. jar # None => Born(jar) /\ token[jar].sid \in Tokens /\ jar \in Tokens
    <3>1. jar # None => Born(jar)
      BY <1>0 DEF Known
    <3>2. QED
      BY <1>1, <3>1
  <2>3. \A k \in Slots : ~Refreshing(t, k)
    BY DEF Refresh, IsRefreshing, Refreshing
  <2>4. QED
    BY <2>1, <2>2, <2>3
<1>3. /\ y \in Exchange
      /\ y.tok = jar /\ y.new = None
      /\ jar = None => y.pc = "refused" /\ y.sid = None
      /\ jar # None => y.pc = "find" /\ y.sid = token[jar].sid
  BY <1>0, <1>1, <1>2 DEF X, Exchange
<1>4. /\ exchange' \in [Tabs -> [Slots -> Exchange]]
      /\ \A u \in Tabs, k \in Slots :
           exchange'[u][k] = IF u = t /\ k = s THEN y ELSE exchange[u][k]
  BY <1>0, <1>3, Went DEF Refresh
<1>5. /\ token' = token /\ jar' = jar /\ lost' = lost
  BY DEF Refresh
<1> HIDE DEF y
<1>6. TypeOK'
  BY <1>0, <1>1, <1>2, <1>4, <1>5 DEF Refresh, TypeOK
<1>7. Known'
  BY <1>0, <1>1, <1>2, <1>3, <1>4, <1>5 DEF Known
<1>8. InFlight'
  <2>1. \A u \in Tabs, k \in Slots : exchange'[u][k].pc = "answer" =>
          exchange'[u][k] = exchange[u][k] /\ y.tok # exchange[u][k].new
    BY <1>0, <1>3, <1>4 DEF InFlight
  <2>2. QED
    BY <1>0, <1>4, <1>5, <2>1 DEF InFlight
<1>9. OneLive'
  BY <1>0, <1>1, <1>2, <1>3, <1>4, <1>5 DEF OneLive, Live
<1>10. OneIssuing'
  BY <1>0, <1>1, <1>3, <1>4 DEF OneIssuing, Issuing
<1>11. NotBoth'
  BY <1>0, <1>1, <1>2, <1>3, <1>4, <1>5 DEF NotBoth, Live, Issuing
<1>12. JarIsNew'
  BY <1>0, <1>1, <1>2, <1>3, <1>4, <1>5 DEF JarIsNew
<1>13. Suspects'
  <2> SUFFICES ASSUME NEW u \in Tabs, NEW k \in Slots,
                      (At(u, k, "alarm") \/ (At(u, k, "find") /\ IsReuse(exchange[u][k].tok)))'
               PROVE  LostIn(exchange[u][k].sid)'
    BY DEF Suspects
  <2>1. CASE u = t /\ k = s
    <3>1. exchange'[u][k] = y
      BY <1>4, <2>1
    <3>2. jar # None /\ token[jar].rotated = "long ago" /\ y.sid = token[jar].sid
      BY <1>3, <1>5, <3>1 DEF IsReuse
    <3>3. jar \in lost
      BY <1>0, <3>2 DEF JarIsNew
    <3>4. QED
      BY <1>5, <3>1, <3>2, <3>3 DEF LostIn
  <2>2. CASE ~(u = t /\ k = s)
    <3>1. exchange'[u][k] = exchange[u][k]
      BY <1>4, <2>2
    <3>2. LostIn(exchange[u][k].sid)
      BY <1>0, <1>1, <1>5, <3>1 DEF Suspects, IsReuse
    <3>3. QED
      BY <1>1, <1>5, <3>1, <3>2 DEF LostIn
  <2>3. QED
    BY <2>1, <2>2
<1>14. OneRefresh'
  BY <1>0, <1>1, <1>2, <1>3, <1>4 DEF OneRefresh, Refreshing
<1>15. Own'
  <2> SUFFICES ASSUME NEW u \in Tabs, NEW k \in Slots, exchange'[u][k].tok # None,
                      (At(u, k, "find") \/ At(u, k, "rotate") \/ At(u, k, "refused"))'
               PROVE  LET n == exchange'[u][k].tok
                      IN \/ token'[n].revoked \/ n \in lost' \/ token'[n].by # u
                         \/ token'[n].rotated = "no" /\ ~At(u, k, "refused")'
    BY DEF Own
  <2>1. CASE u = t /\ k = s
    <3>1. exchange'[u][k] = y
      BY <1>4, <2>1
    <3>2. jar # None /\ y.pc = "find" /\ y.tok = jar
      BY <1>3, <3>1
    <3>3. CASE token[jar].rotated = "no"
      BY <1>5, <3>1, <3>2, <3>3
    <3>4. CASE token[jar].rotated # "no" /\ jar \notin lost
      <4>1. PICK v \in Tabs, l \in Slots :
              /\ Replacing(exchange[v][l]) /\ exchange[v][l].tok = jar
              /\ token[jar].by = v
        BY <1>0, <3>2, <3>4 DEF JarIsNew
      <4>2. Refreshing(v, l)
        BY <3>2, <4>1 DEF Refreshing
      <4>3. QED
        BY <1>2, <1>5, <2>1, <3>1, <3>2, <4>1, <4>2
    <3>5. QED
      BY <1>5, <3>1, <3>2, <3>3, <3>4
  <2>2. CASE ~(u = t /\ k = s)
    BY <1>0, <1>4, <1>5, <2>2 DEF Own
  <2>3. QED
    BY <2>1, <2>2
<1>16. QED
  BY <1>6, <1>7, <1>8, <1>9, <1>10, <1>11, <1>12, <1>13, <1>14, <1>15 DEF IInv

\* What the server finds about the token decides where the exchange goes.
LEMMA FindKeeps ==
    ASSUME IInv, NEW t \in Tabs, NEW s \in Slots, Find(t, s)
    PROVE  IInv'
<1> DEFINE x == exchange[t][s]
<1> DEFINE y == [x EXCEPT !.pc =
                IF token[x.tok].revoked THEN "refused"
                ELSE IF IsReuse(x.tok) THEN "alarm"
                ELSE IF token[x.tok].rotated # "no" THEN "refused" ELSE "rotate"]
<1>0. /\ TypeOK /\ Known /\ InFlight /\ OneLive /\ OneIssuing /\ NotBoth
      /\ JarIsNew /\ Suspects /\ OneRefresh /\ Own
  BY DEF IInv
<1>1. /\ None \notin Tokens
      /\ \A n \in Tokens : /\ token[n] # Unborn => Born(n)
                           /\ Born(n) => token[n] # Unborn /\ token[n].sid \in Tokens
      /\ \A u \in Tabs, k \in Slots :
           /\ exchange[u][k].tok \in Tokens \cup {None}
           /\ exchange[u][k].sid \in Tokens \cup {None}
      /\ jar \in Tokens \cup {None} /\ lost \subseteq Tokens
  BY <1>0, TokenShape, ExchangeShape, NoneIsNoToken DEF TypeOK
<1>2. /\ x \in Exchange /\ x.pc = "find" /\ x.tok \in Tokens
  BY <1>0, <1>1, ExchangeShape DEF Find, Known
<1>3. /\ y \in Exchange
      /\ y.pc \in {"refused", "alarm", "rotate"}
      /\ y.tok = x.tok /\ y.sid = x.sid /\ y.new = x.new
      /\ y.pc = "refused" => token[x.tok].revoked \/ token[x.tok].rotated # "no"
      /\ y.pc = "alarm" => IsReuse(x.tok)
      /\ y.pc = "rotate" => token[x.tok].rotated = "no"
  BY <1>0, <1>1, <1>2 DEF Exchange
<1>4. /\ exchange' \in [Tabs -> [Slots -> Exchange]]
      /\ \A u \in Tabs, k \in Slots :
           exchange'[u][k] = IF u = t /\ k = s THEN y ELSE exchange[u][k]
  BY <1>0, <1>3, Went DEF Find
<1>5. /\ token' = token /\ jar' = jar /\ lost' = lost
  BY DEF Find
<1> HIDE DEF y
<1>6. TypeOK'
  BY <1>0, <1>1, <1>2, <1>4, <1>5 DEF Find, TypeOK
<1>7. Known'
  BY <1>0, <1>1, <1>2, <1>3, <1>4, <1>5 DEF Known
<1>8. InFlight'
  BY <1>0, <1>1, <1>2, <1>3, <1>4, <1>5 DEF InFlight
<1>9. OneLive'
  BY <1>0, <1>1, <1>2, <1>3, <1>4, <1>5 DEF OneLive, Live
<1>10. OneIssuing'
  BY <1>0, <1>1, <1>3, <1>4 DEF OneIssuing, Issuing
<1>11. NotBoth'
  BY <1>0, <1>1, <1>2, <1>3, <1>4, <1>5 DEF NotBoth, Live, Issuing
<1>12. JarIsNew'
  BY <1>0, <1>1, <1>2, <1>3, <1>4, <1>5 DEF JarIsNew
<1>13. Suspects'
  <2> SUFFICES ASSUME NEW u \in Tabs, NEW k \in Slots,
                      (At(u, k, "alarm") \/ (At(u, k, "find") /\ IsReuse(exchange[u][k].tok)))'
               PROVE  LostIn(exchange[u][k].sid)'
    BY DEF Suspects
  <2>1. CASE u = t /\ k = s
    <3>1. exchange'[u][k] = y
      BY <1>4, <2>1
    <3>2. y.pc = "alarm"
      BY <1>3, <3>1
    <3>3. LostIn(x.sid)
      BY <1>0, <1>2, <1>3, <3>2 DEF Suspects
    <3>4. QED
      BY <1>3, <1>5, <3>1, <3>3 DEF LostIn
  <2>2. CASE ~(u = t /\ k = s)
    <3>1. exchange'[u][k] = exchange[u][k]
      BY <1>4, <2>2
    <3>2. LostIn(exchange[u][k].sid)
      BY <1>0, <1>1, <1>5, <3>1 DEF Suspects, IsReuse
    <3>3. QED
      BY <1>1, <1>5, <3>1, <3>2 DEF LostIn
  <2>3. QED
    BY <2>1, <2>2
<1>14. OneRefresh'
  BY <1>0, <1>1, <1>2, <1>3, <1>4 DEF OneRefresh, Refreshing
<1>15. Own'
  BY <1>0, <1>1, <1>2, <1>3, <1>4, <1>5 DEF Own
<1>16. QED
  BY <1>6, <1>7, <1>8, <1>9, <1>10, <1>11, <1>12, <1>13, <1>14, <1>15 DEF IInv

\* The family is revoked.
LEMMA AlarmKeeps ==
    ASSUME IInv, NEW t \in Tabs, NEW s \in Slots, Alarm(t, s)
    PROVE  IInv'
<1> DEFINE x == exchange[t][s]
<1> DEFINE y == [x EXCEPT !.pc = "refused"]
<1>0. /\ TypeOK /\ Known /\ InFlight /\ OneLive /\ OneIssuing /\ NotBoth
      /\ JarIsNew /\ Suspects /\ OneRefresh /\ Own
  BY DEF IInv
<1>1. /\ None \notin Tokens
      /\ \A n \in Tokens : /\ token[n] # Unborn => Born(n)
                           /\ Born(n) => token[n] # Unborn /\ token[n].sid \in Tokens
      /\ \A u \in Tabs, k \in Slots :
           /\ exchange[u][k].tok \in Tokens \cup {None}
           /\ exchange[u][k].sid \in Tokens \cup {None}
           /\ exchange[u][k].new \in Tokens \cup {None}
      /\ jar \in Tokens \cup {None} /\ lost \subseteq Tokens
  BY <1>0, TokenShape, ExchangeShape, NoneIsNoToken DEF TypeOK
<1>2. /\ x \in Exchange /\ x.pc = "alarm"
      /\ x.tok \in Tokens /\ Born(x.tok) /\ x.sid = token[x.tok].sid /\ x.sid \in Tokens
  <2>1. x.tok # None /\ Born(x.tok) /\ x.sid = token[x.tok].sid
    BY <1>0 DEF Alarm, Known
  <2>2. x.tok \in Tokens /\ x \in Exchange
    BY <1>0, <1>1, <2>1, ExchangeShape
  <2>3. token[x.tok].sid \in Tokens
    BY <1>1, <2>1, <2>2
  <2>4. QED
    BY <2>1, <2>2, <2>3 DEF Alarm
<1>3. /\ y \in Exchange
      /\ y.pc = "refused" /\ y.tok = x.tok /\ y.sid = x.sid /\ y.new = x.new
  BY <1>2 DEF Exchange
<1>4. /\ exchange' \in [Tabs -> [Slots -> Exchange]]
      /\ \A u \in Tabs, k \in Slots :
           exchange'[u][k] = IF u = t /\ k = s THEN y ELSE exchange[u][k]
  BY <1>0, <1>3, Went DEF Alarm
<1>5. jar' = jar /\ lost' = lost /\ token' = Revoked(x.sid)
  BY DEF Alarm
<1> HIDE DEF y
<1>j. jar' = jar /\ lost' = lost
  BY <1>5
<1>a. \A n \in Tokens : token'[n].sid = token[n].sid
  BY <1>0, <1>2, <1>5, Shut
<1>b. \A n \in Tokens : Born(n) =>
        token'[n].rotated = token[n].rotated /\ token'[n].by = token[n].by
  BY <1>0, <1>2, <1>5, Shut
<1>c. \A n \in Tokens : Born(n) /\ (token[n].revoked \/ token[n].sid = x.sid) =>
        token'[n].revoked
  BY <1>0, <1>2, <1>5, Shut
<1>d. \A n \in Tokens : Live(n)' => Live(n)
  <2> SUFFICES ASSUME NEW n \in Tokens, Live(n)'
               PROVE  Live(n)
    OBVIOUS
  <2>1. Born(n)
    BY <1>0, <1>1, <1>2, <1>5, Shut DEF Live
  <2>2. token[n] # Unborn
    BY <1>1, <2>1
  <2>5. token[n].rotated = "no"
    BY <1>b, <2>1 DEF Live
  <2>3. ~token[n].revoked
    BY <1>c, <2>1 DEF Live
  <2>4. QED
    BY <2>2, <2>3, <2>5 DEF Live
<1>e. \A n \in Tokens : Born(n)' <=> Born(n)
  BY <1>a
<1>6. TypeOK'
  BY <1>0, <1>2, <1>4, <1>5, Shut DEF Alarm, TypeOK
<1>7. Known'
  <2>1. /\ \A n \in Tokens : token'[n].sid # None => token'[token'[n].sid].sid # None
        /\ jar' # None => token'[jar'].sid # None
    BY <1>0, <1>1, <1>a, <1>j DEF Known
  <2>2. ASSUME NEW u \in Tabs, NEW k \in Slots, NEW z, z = exchange'[u][k]
        PROVE  /\ z.sid # None => token'[z.sid].sid # None
               /\ z.tok # None => token'[z.tok].sid # None
               /\ z.pc \in {"find", "rotate", "alarm", "logout"} => z.tok # None
               /\ (Handling(z) \/ Replacing(z)) /\ z.tok # None => z.sid = token'[z.tok].sid
    <3>1. CASE u = t /\ k = s
      BY <1>0, <1>1, <1>2, <1>3, <1>4, <1>a, <2>2, <3>1 DEF Known
    <3>2. CASE ~(u = t /\ k = s)
      BY <1>0, <1>1, <1>4, <1>a, <2>2, <3>2 DEF Known
    <3>3. QED
      BY <3>1, <3>2
  <2>3. QED
    BY <2>1, <2>2 DEF Known
<1>8. InFlight'
  <2>1. \A u \in Tabs, k \in Slots :
          /\ exchange'[u][k].pc = "answer" => exchange'[u][k] = exchange[u][k]
          /\ exchange'[u][k].tok \in {exchange[u][k].tok, None}
    BY <1>1, <1>2, <1>3, <1>4
  <2>2. ASSUME NEW u \in Tabs, NEW k \in Slots, exchange[u][k].pc = "answer",
               NEW n, n = exchange[u][k].new
        PROVE  n # None /\ token'[n].sid # None /\ token'[n].rotated = "no" /\ jar' # n
    BY <1>0, <1>1, <1>a, <1>b, <1>j, <2>2 DEF InFlight
  <2>3. QED
    BY <1>0, <2>1, <2>2 DEF InFlight
<1>9. OneLive'
  BY <1>0, <1>a, <1>d DEF OneLive
<1>10. OneIssuing'
  BY <1>0, <1>3, <1>4 DEF OneIssuing, Issuing
<1>11. NotBoth'
  BY <1>0, <1>3, <1>4, <1>a, <1>d DEF NotBoth, Issuing
<1>12. JarIsNew'
  <2>1. jar # None => Born(jar) /\ jar \in Tokens
    BY <1>0, <1>1 DEF Known
  <2>2. QED
    BY <1>0, <1>2, <1>3, <1>4, <1>j, <1>b, <2>1 DEF JarIsNew
<1>13. Suspects'
  <2> SUFFICES ASSUME NEW u \in Tabs, NEW k \in Slots,
                      (At(u, k, "alarm") \/ (At(u, k, "find") /\ IsReuse(exchange[u][k].tok)))'
               PROVE  LostIn(exchange[u][k].sid)'
    BY DEF Suspects
  <2>1. exchange'[u][k] = exchange[u][k]
    BY <1>3, <1>4
  <2>2. At(u, k, "find") => exchange[u][k].tok \in Tokens /\ Born(exchange[u][k].tok)
    BY <1>0, <1>1 DEF Known
  <2>3. At(u, k, "alarm") \/ (At(u, k, "find") /\ IsReuse(exchange[u][k].tok))
    BY <1>b, <2>1, <2>2 DEF IsReuse
  <2>4. LostIn(exchange[u][k].sid)
    BY <1>0, <2>3 DEF Suspects
  <2>5. QED
    BY <1>1, <1>5, <1>a, <2>1, <2>4 DEF LostIn
<1>14. OneRefresh'
  BY <1>0, <1>2, <1>3, <1>4 DEF OneRefresh, Refreshing
<1>15. Own'
  <2> SUFFICES ASSUME NEW u \in Tabs, NEW k \in Slots, exchange'[u][k].tok # None,
                      (At(u, k, "find") \/ At(u, k, "rotate") \/ At(u, k, "refused"))'
               PROVE  LET n == exchange'[u][k].tok
                      IN \/ token'[n].revoked \/ n \in lost' \/ token'[n].by # u
                         \/ token'[n].rotated = "no" /\ ~At(u, k, "refused")'
    BY DEF Own
  <2>1. CASE u = t /\ k = s
    BY <1>2, <1>3, <1>4, <1>c, <2>1
  <2>2. CASE ~(u = t /\ k = s)
    <3> DEFINE n == exchange[u][k].tok
    <3>1. exchange'[u][k] = exchange[u][k]
      BY <1>4, <2>2
    <3>2. n \in Tokens /\ Born(n)
      BY <1>0, <1>1, <3>1 DEF Known
    <3>3. \/ token[n].revoked \/ n \in lost \/ token[n].by # u
          \/ token[n].rotated = "no" /\ ~At(u, k, "refused")
      BY <1>0, <3>1 DEF Own
    <3>4. CASE token[n].revoked
      BY <1>c, <3>1, <3>2, <3>4
    <3>5. CASE ~token[n].revoked
      BY <1>b, <1>5, <3>1, <3>2, <3>3, <3>5
    <3>6. QED
      BY <3>4, <3>5
  <2>3. QED
    BY <2>1, <2>2
<1>16. QED
  BY <1>6, <1>7, <1>8, <1>9, <1>10, <1>11, <1>12, <1>13, <1>14, <1>15 DEF IInv

\* The tab forgets the session.
LEMMA RefusedKeeps ==
    ASSUME IInv, NEW t \in Tabs, NEW s \in Slots, Refused(t, s)
    PROVE  IInv'
<1> DEFINE x == exchange[t][s]
<1> DEFINE y == NoExchange
<1>0. /\ TypeOK /\ Known /\ InFlight /\ OneLive /\ OneIssuing /\ NotBoth
      /\ JarIsNew /\ Suspects /\ OneRefresh /\ Own
  BY DEF IInv
<1>1. /\ None \notin Tokens
      /\ \A n \in Tokens : /\ token[n] # Unborn => Born(n)
                           /\ Born(n) => token[n] # Unborn /\ token[n].sid \in Tokens
      /\ \A u \in Tabs, k \in Slots :
           /\ exchange[u][k].tok \in Tokens \cup {None}
           /\ exchange[u][k].sid \in Tokens \cup {None}
      /\ jar \in Tokens \cup {None} /\ lost \subseteq Tokens
  BY <1>0, TokenShape, ExchangeShape, NoneIsNoToken DEF TypeOK
<1>2. x.pc = "refused"
  BY <1>0, <1>1, ExchangeShape DEF Refused
<1>3. /\ y \in Exchange
      /\ y.pc = "none" /\ y.tok = None /\ y.sid = None /\ y.new = None
  BY <1>0, <1>1, <1>2 DEF X, Exchange, NoExchange
<1>4. /\ exchange' \in [Tabs -> [Slots -> Exchange]]
      /\ \A u \in Tabs, k \in Slots :
           exchange'[u][k] = IF u = t /\ k = s THEN y ELSE exchange[u][k]
  BY <1>0, <1>3, Went DEF Refused
<1>5. /\ token' = token /\ jar' = jar /\ lost' = lost
  BY DEF Refused
<1> HIDE DEF y
<1>6. TypeOK'
  BY <1>0, <1>1, <1>2, <1>4, <1>5 DEF Refused, TypeOK, Cleared
<1>7. Known'
  BY <1>0, <1>1, <1>2, <1>3, <1>4, <1>5 DEF Known
<1>8. InFlight'
  BY <1>0, <1>1, <1>2, <1>3, <1>4, <1>5 DEF InFlight
<1>9. OneLive'
  BY <1>0, <1>1, <1>2, <1>3, <1>4, <1>5 DEF OneLive, Live
<1>10. OneIssuing'
  BY <1>0, <1>1, <1>3, <1>4 DEF OneIssuing, Issuing
<1>11. NotBoth'
  BY <1>0, <1>1, <1>2, <1>3, <1>4, <1>5 DEF NotBoth, Live, Issuing
<1>12. JarIsNew'
  BY <1>0, <1>1, <1>2, <1>3, <1>4, <1>5 DEF JarIsNew
<1>13. Suspects'
  <2> SUFFICES ASSUME NEW u \in Tabs, NEW k \in Slots,
                      (At(u, k, "alarm") \/ (At(u, k, "find") /\ IsReuse(exchange[u][k].tok)))'
               PROVE  LostIn(exchange[u][k].sid)'
    BY DEF Suspects
  <2>1. CASE u = t /\ k = s
    BY <1>0, <1>1, <1>2, <1>3, <1>4, <1>5, <2>1
  <2>2. CASE ~(u = t /\ k = s)
    <3>1. exchange'[u][k] = exchange[u][k]
      BY <1>4, <2>2
    <3>2. LostIn(exchange[u][k].sid)
      BY <1>0, <1>1, <1>5, <3>1 DEF Suspects, IsReuse
    <3>3. QED
      BY <1>1, <1>5, <3>1, <3>2 DEF LostIn
  <2>3. QED
    BY <2>1, <2>2
<1>14. OneRefresh'
  BY <1>0, <1>1, <1>2, <1>3, <1>4 DEF OneRefresh, Refreshing
<1>15. Own'
  BY <1>0, <1>1, <1>2, <1>3, <1>4, <1>5 DEF Own
<1>16. QED
  BY <1>6, <1>7, <1>8, <1>9, <1>10, <1>11, <1>12, <1>13, <1>14, <1>15 DEF IInv

\* The token whose successor is lost is remembered.
LEMMA LoseKeeps ==
    ASSUME IInv, NEW t \in Tabs, NEW s \in Slots, Lose(t, s)
    PROVE  IInv'
<1> DEFINE x == exchange[t][s]
<1> DEFINE y == NoExchange
<1>0. /\ TypeOK /\ Known /\ InFlight /\ OneLive /\ OneIssuing /\ NotBoth
      /\ JarIsNew /\ Suspects /\ OneRefresh /\ Own
  BY DEF IInv
<1>1. /\ None \notin Tokens
      /\ \A n \in Tokens : /\ token[n] # Unborn => Born(n)
                           /\ Born(n) => token[n] # Unborn /\ token[n].sid \in Tokens
      /\ \A u \in Tabs, k \in Slots :
           /\ exchange[u][k].tok \in Tokens \cup {None}
           /\ exchange[u][k].sid \in Tokens \cup {None}
      /\ jar \in Tokens \cup {None} /\ lost \subseteq Tokens
  BY <1>0, TokenShape, ExchangeShape, NoneIsNoToken DEF TypeOK
<1>2. x.pc \in {"find", "rotate", "alarm", "issue", "answer"}
  BY <1>0, <1>1, ExchangeShape DEF Lose
<1>3. /\ y \in Exchange
      /\ y.pc = "none" /\ y.tok = None /\ y.sid = None /\ y.new = None
  BY <1>0, <1>1, <1>2 DEF X, Exchange, NoExchange
<1>4. /\ exchange' \in [Tabs -> [Slots -> Exchange]]
      /\ \A u \in Tabs, k \in Slots :
           exchange'[u][k] = IF u = t /\ k = s THEN y ELSE exchange[u][k]
  BY <1>0, <1>3, Went DEF Lose
<1>5. /\ token' = token /\ jar' = jar
      /\ lost \subseteq lost' /\ lost' \subseteq Tokens
      /\ Replacing(x) /\ x.tok # None => x.tok \in lost'
  BY <1>0, <1>1 DEF Lose, TypeOK
<1> HIDE DEF y
<1>6. TypeOK'
  BY <1>0, <1>1, <1>2, <1>4, <1>5 DEF Lose, TypeOK, Cleared
<1>7. Known'
  BY <1>0, <1>1, <1>2, <1>3, <1>4, <1>5 DEF Known
<1>8. InFlight'
  <2>1. token' = token /\ jar' = jar
    BY <1>5
  <2>2. QED
    BY <1>0, <1>1, <1>2, <1>3, <1>4, <2>1 DEF InFlight
<1>9. OneLive'
  BY <1>0, <1>1, <1>2, <1>3, <1>4, <1>5 DEF OneLive, Live
<1>10. OneIssuing'
  BY <1>0, <1>1, <1>3, <1>4 DEF OneIssuing, Issuing
<1>11. NotBoth'
  BY <1>0, <1>1, <1>2, <1>3, <1>4, <1>5 DEF NotBoth, Live, Issuing
<1>12. JarIsNew'
  BY <1>0, <1>1, <1>2, <1>3, <1>4, <1>5 DEF JarIsNew
<1>13. Suspects'
  <2> SUFFICES ASSUME NEW u \in Tabs, NEW k \in Slots,
                      (At(u, k, "alarm") \/ (At(u, k, "find") /\ IsReuse(exchange[u][k].tok)))'
               PROVE  LostIn(exchange[u][k].sid)'
    BY DEF Suspects
  <2>1. CASE u = t /\ k = s
    BY <1>0, <1>1, <1>2, <1>3, <1>4, <1>5, <2>1
  <2>2. CASE ~(u = t /\ k = s)
    <3>1. exchange'[u][k] = exchange[u][k]
      BY <1>4, <2>2
    <3>2. LostIn(exchange[u][k].sid)
      BY <1>0, <1>1, <1>5, <3>1 DEF Suspects, IsReuse
    <3>3. QED
      BY <1>1, <1>5, <3>1, <3>2 DEF LostIn
  <2>3. QED
    BY <2>1, <2>2
<1>14. OneRefresh'
  BY <1>0, <1>1, <1>2, <1>3, <1>4 DEF OneRefresh, Refreshing
<1>15. Own'
  BY <1>0, <1>1, <1>2, <1>3, <1>4, <1>5 DEF Own
<1>16. QED
  BY <1>6, <1>7, <1>8, <1>9, <1>10, <1>11, <1>12, <1>13, <1>14, <1>15 DEF IInv

\* The cookie becomes a token that nobody presented.
LEMMA SignedKeeps ==
    ASSUME IInv, NEW t \in Tabs, NEW s \in Slots, Signed(t, s)
    PROVE  IInv'
<1> DEFINE x == exchange[t][s]
<1> DEFINE y == NoExchange
<1>0. /\ TypeOK /\ Known /\ InFlight /\ OneLive /\ OneIssuing /\ NotBoth
      /\ JarIsNew /\ Suspects /\ OneRefresh /\ Own
  BY DEF IInv
<1>1. /\ None \notin Tokens
      /\ \A n \in Tokens : /\ token[n] # Unborn => Born(n)
                           /\ Born(n) => token[n] # Unborn /\ token[n].sid \in Tokens
      /\ \A u \in Tabs, k \in Slots :
           /\ exchange[u][k].tok \in Tokens \cup {None}
           /\ exchange[u][k].sid \in Tokens \cup {None}
      /\ jar \in Tokens \cup {None} /\ lost \subseteq Tokens
  BY <1>0, TokenShape, ExchangeShape, NoneIsNoToken DEF TypeOK
<1>2. /\ x.pc = "answer" /\ x.new \in Tokens /\ Born(x.new)
      /\ token[x.new].rotated = "no"
  BY <1>0, <1>1, ExchangeShape DEF Signed, InFlight
<1>3. /\ y \in Exchange
      /\ y.pc = "none" /\ y.tok = None /\ y.sid = None /\ y.new = None
  BY <1>0, <1>1, <1>2 DEF X, Exchange, NoExchange
<1>4. /\ exchange' \in [Tabs -> [Slots -> Exchange]]
      /\ \A u \in Tabs, k \in Slots :
           exchange'[u][k] = IF u = t /\ k = s THEN y ELSE exchange[u][k]
  BY <1>0, <1>3, Went DEF Signed
<1>5. /\ token' = token /\ jar' = x.new /\ lost' = lost
  BY DEF Signed
<1> HIDE DEF y
<1>6. TypeOK'
  BY <1>0, <1>1, <1>2, <1>4, <1>5 DEF Signed, TypeOK
<1>7. Known'
  BY <1>0, <1>1, <1>2, <1>3, <1>4, <1>5 DEF Known
<1>8. InFlight'
  BY <1>0, <1>1, <1>2, <1>3, <1>4, <1>5 DEF InFlight
<1>9. OneLive'
  BY <1>0, <1>1, <1>2, <1>3, <1>4, <1>5 DEF OneLive, Live
<1>10. OneIssuing'
  BY <1>0, <1>3, <1>4 DEF OneIssuing, Issuing
<1>11. NotBoth'
  BY <1>0, <1>1, <1>2, <1>3, <1>4, <1>5 DEF NotBoth, Live, Issuing
<1>12. JarIsNew'
  BY <1>0, <1>1, <1>2, <1>3, <1>4, <1>5 DEF JarIsNew
<1>13. Suspects'
  <2> SUFFICES ASSUME NEW u \in Tabs, NEW k \in Slots,
                      (At(u, k, "alarm") \/ (At(u, k, "find") /\ IsReuse(exchange[u][k].tok)))'
               PROVE  LostIn(exchange[u][k].sid)'
    BY DEF Suspects
  <2>1. CASE u = t /\ k = s
    BY <1>0, <1>1, <1>2, <1>3, <1>4, <1>5, <2>1
  <2>2. CASE ~(u = t /\ k = s)
    <3>1. exchange'[u][k] = exchange[u][k]
      BY <1>4, <2>2
    <3>2. LostIn(exchange[u][k].sid)
      BY <1>0, <1>1, <1>5, <3>1 DEF Suspects, IsReuse
    <3>3. QED
      BY <1>1, <1>5, <3>1, <3>2 DEF LostIn
  <2>3. QED
    BY <2>1, <2>2
<1>14. OneRefresh'
  BY <1>0, <1>1, <1>2, <1>3, <1>4 DEF OneRefresh, Refreshing
<1>15. Own'
  BY <1>0, <1>1, <1>2, <1>3, <1>4, <1>5 DEF Own
<1>16. QED
  BY <1>6, <1>7, <1>8, <1>9, <1>10, <1>11, <1>12, <1>13, <1>14, <1>15 DEF IInv

\* The cookie is presented to close its family.
LEMMA LogOutKeeps ==
    ASSUME IInv, NEW t \in Tabs, NEW s \in Slots, LogOut(t, s)
    PROVE  IInv'
<1> DEFINE x == exchange[t][s]
<1> DEFINE y == X(IF jar = None THEN "gone" ELSE "logout", jar, None, None)
<1>0. /\ TypeOK /\ Known /\ InFlight /\ OneLive /\ OneIssuing /\ NotBoth
      /\ JarIsNew /\ Suspects /\ OneRefresh /\ Own
  BY DEF IInv
<1>1. /\ None \notin Tokens
      /\ \A n \in Tokens : /\ token[n] # Unborn => Born(n)
                           /\ Born(n) => token[n] # Unborn /\ token[n].sid \in Tokens
      /\ \A u \in Tabs, k \in Slots :
           /\ exchange[u][k].tok \in Tokens \cup {None}
           /\ exchange[u][k].sid \in Tokens \cup {None}
      /\ jar \in Tokens \cup {None} /\ lost \subseteq Tokens
  BY <1>0, TokenShape, ExchangeShape, NoneIsNoToken DEF TypeOK
<1>2. x.pc = "none"
  BY <1>0, <1>1, ExchangeShape DEF LogOut, Open, NoExchange, X
<1>3. /\ y \in Exchange
      /\ y.pc \in {"logout", "gone"} /\ (jar = None => y.pc = "gone")
      /\ y.tok = jar /\ y.sid = None /\ y.new = None
  BY <1>0, <1>1, <1>2 DEF X, Exchange
<1>4. /\ exchange' \in [Tabs -> [Slots -> Exchange]]
      /\ \A u \in Tabs, k \in Slots :
           exchange'[u][k] = IF u = t /\ k = s THEN y ELSE exchange[u][k]
  BY <1>0, <1>3, Went DEF LogOut
<1>5. /\ token' = token /\ jar' = jar /\ lost' = lost
  BY DEF LogOut
<1> HIDE DEF y
<1>6. TypeOK'
  BY <1>0, <1>1, <1>2, <1>4, <1>5 DEF LogOut, TypeOK
<1>7. Known'
  BY <1>0, <1>1, <1>2, <1>3, <1>4, <1>5 DEF Known
<1>8. InFlight'
  BY <1>0, <1>1, <1>2, <1>3, <1>4, <1>5 DEF InFlight
<1>9. OneLive'
  BY <1>0, <1>1, <1>2, <1>3, <1>4, <1>5 DEF OneLive, Live
<1>10. OneIssuing'
  BY <1>0, <1>1, <1>3, <1>4 DEF OneIssuing, Issuing
<1>11. NotBoth'
  BY <1>0, <1>1, <1>2, <1>3, <1>4, <1>5 DEF NotBoth, Live, Issuing
<1>12. JarIsNew'
  BY <1>0, <1>1, <1>2, <1>3, <1>4, <1>5 DEF JarIsNew
<1>13. Suspects'
  <2> SUFFICES ASSUME NEW u \in Tabs, NEW k \in Slots,
                      (At(u, k, "alarm") \/ (At(u, k, "find") /\ IsReuse(exchange[u][k].tok)))'
               PROVE  LostIn(exchange[u][k].sid)'
    BY DEF Suspects
  <2>1. CASE u = t /\ k = s
    BY <1>0, <1>1, <1>2, <1>3, <1>4, <1>5, <2>1
  <2>2. CASE ~(u = t /\ k = s)
    <3>1. exchange'[u][k] = exchange[u][k]
      BY <1>4, <2>2
    <3>2. LostIn(exchange[u][k].sid)
      BY <1>0, <1>1, <1>5, <3>1 DEF Suspects, IsReuse
    <3>3. QED
      BY <1>1, <1>5, <3>1, <3>2 DEF LostIn
  <2>3. QED
    BY <2>1, <2>2
<1>14. OneRefresh'
  BY <1>0, <1>1, <1>2, <1>3, <1>4 DEF OneRefresh, Refreshing
<1>15. Own'
  BY <1>0, <1>1, <1>2, <1>3, <1>4, <1>5 DEF Own
<1>16. QED
  BY <1>6, <1>7, <1>8, <1>9, <1>10, <1>11, <1>12, <1>13, <1>14, <1>15 DEF IInv

\* The family is closed.
LEMMA RevokeFamilyKeeps ==
    ASSUME IInv, NEW t \in Tabs, NEW s \in Slots, RevokeFamily(t, s)
    PROVE  IInv'
<1> DEFINE x == exchange[t][s]
<1> DEFINE y == X("gone", None, None, None)
<1>0. /\ TypeOK /\ Known /\ InFlight /\ OneLive /\ OneIssuing /\ NotBoth
      /\ JarIsNew /\ Suspects /\ OneRefresh /\ Own
  BY DEF IInv
<1>1. /\ None \notin Tokens
      /\ \A n \in Tokens : /\ token[n] # Unborn => Born(n)
                           /\ Born(n) => token[n] # Unborn /\ token[n].sid \in Tokens
      /\ \A u \in Tabs, k \in Slots :
           /\ exchange[u][k].tok \in Tokens \cup {None}
           /\ exchange[u][k].sid \in Tokens \cup {None}
           /\ exchange[u][k].new \in Tokens \cup {None}
      /\ jar \in Tokens \cup {None} /\ lost \subseteq Tokens
  BY <1>0, TokenShape, ExchangeShape, NoneIsNoToken DEF TypeOK
<1>2. x.pc = "logout" /\ x.tok \in Tokens /\ token[x.tok].sid \in Tokens
  <2>1. x.tok # None /\ Born(x.tok)
    BY <1>0 DEF RevokeFamily, Known
  <2>2. x.tok \in Tokens /\ x \in Exchange
    BY <1>0, <1>1, <2>1, ExchangeShape
  <2>3. token[x.tok].sid \in Tokens
    BY <1>1, <2>1, <2>2
  <2>4. QED
    BY <2>1, <2>2, <2>3 DEF RevokeFamily
<1>3. /\ y \in Exchange
      /\ y.pc = "gone" /\ y.tok = None /\ y.sid = None /\ y.new = None
  BY <1>2 DEF X, Exchange
<1>4. /\ exchange' \in [Tabs -> [Slots -> Exchange]]
      /\ \A u \in Tabs, k \in Slots :
           exchange'[u][k] = IF u = t /\ k = s THEN y ELSE exchange[u][k]
  BY <1>0, <1>3, Went DEF RevokeFamily
<1>5. jar' = jar /\ lost' = lost /\ token' = Revoked(token[x.tok].sid)
  BY DEF RevokeFamily
<1> HIDE DEF y
<1>j. jar' = jar /\ lost' = lost
  BY <1>5
<1>a. \A n \in Tokens : token'[n].sid = token[n].sid
  BY <1>0, <1>2, <1>5, Shut
<1>b. \A n \in Tokens : Born(n) =>
        token'[n].rotated = token[n].rotated /\ token'[n].by = token[n].by
  BY <1>0, <1>2, <1>5, Shut
<1>c. \A n \in Tokens : Born(n) /\ (token[n].revoked \/ token[n].sid = token[x.tok].sid) =>
        token'[n].revoked
  BY <1>0, <1>2, <1>5, Shut
<1>d. \A n \in Tokens : Live(n)' => Live(n)
  <2> SUFFICES ASSUME NEW n \in Tokens, Live(n)'
               PROVE  Live(n)
    OBVIOUS
  <2>1. Born(n)
    BY <1>0, <1>1, <1>2, <1>5, Shut DEF Live
  <2>2. token[n] # Unborn
    BY <1>1, <2>1
  <2>5. token[n].rotated = "no"
    BY <1>b, <2>1 DEF Live
  <2>3. ~token[n].revoked
    BY <1>c, <2>1 DEF Live
  <2>4. QED
    BY <2>2, <2>3, <2>5 DEF Live
<1>e. \A n \in Tokens : Born(n)' <=> Born(n)
  BY <1>a
<1>6. TypeOK'
  BY <1>0, <1>2, <1>4, <1>5, Shut DEF RevokeFamily, TypeOK
<1>7. Known'
  <2>1. /\ \A n \in Tokens : token'[n].sid # None => token'[token'[n].sid].sid # None
        /\ jar' # None => token'[jar'].sid # None
    BY <1>0, <1>1, <1>a, <1>j DEF Known
  <2>2. ASSUME NEW u \in Tabs, NEW k \in Slots, NEW z, z = exchange'[u][k]
        PROVE  /\ z.sid # None => token'[z.sid].sid # None
               /\ z.tok # None => token'[z.tok].sid # None
               /\ z.pc \in {"find", "rotate", "alarm", "logout"} => z.tok # None
               /\ (Handling(z) \/ Replacing(z)) /\ z.tok # None => z.sid = token'[z.tok].sid
    <3>1. CASE u = t /\ k = s
      BY <1>0, <1>1, <1>2, <1>3, <1>4, <1>a, <2>2, <3>1 DEF Known
    <3>2. CASE ~(u = t /\ k = s)
      BY <1>0, <1>1, <1>4, <1>a, <2>2, <3>2 DEF Known
    <3>3. QED
      BY <3>1, <3>2
  <2>3. QED
    BY <2>1, <2>2 DEF Known
<1>8. InFlight'
  <2>1. \A u \in Tabs, k \in Slots :
          /\ exchange'[u][k].pc = "answer" => exchange'[u][k] = exchange[u][k]
          /\ exchange'[u][k].tok \in {exchange[u][k].tok, None}
    BY <1>1, <1>2, <1>3, <1>4
  <2>2. ASSUME NEW u \in Tabs, NEW k \in Slots, exchange[u][k].pc = "answer",
               NEW n, n = exchange[u][k].new
        PROVE  n # None /\ token'[n].sid # None /\ token'[n].rotated = "no" /\ jar' # n
    BY <1>0, <1>1, <1>a, <1>b, <1>j, <2>2 DEF InFlight
  <2>3. QED
    BY <1>0, <2>1, <2>2 DEF InFlight
<1>9. OneLive'
  BY <1>0, <1>a, <1>d DEF OneLive
<1>10. OneIssuing'
  BY <1>0, <1>3, <1>4 DEF OneIssuing, Issuing
<1>11. NotBoth'
  BY <1>0, <1>3, <1>4, <1>a, <1>d DEF NotBoth, Issuing
<1>12. JarIsNew'
  <2>1. jar # None => Born(jar) /\ jar \in Tokens
    BY <1>0, <1>1 DEF Known
  <2>2. QED
    BY <1>0, <1>2, <1>3, <1>4, <1>j, <1>b, <2>1 DEF JarIsNew
<1>13. Suspects'
  <2> SUFFICES ASSUME NEW u \in Tabs, NEW k \in Slots,
                      (At(u, k, "alarm") \/ (At(u, k, "find") /\ IsReuse(exchange[u][k].tok)))'
               PROVE  LostIn(exchange[u][k].sid)'
    BY DEF Suspects
  <2>1. exchange'[u][k] = exchange[u][k]
    BY <1>3, <1>4
  <2>2. At(u, k, "find") => exchange[u][k].tok \in Tokens /\ Born(exchange[u][k].tok)
    BY <1>0, <1>1 DEF Known
  <2>3. At(u, k, "alarm") \/ (At(u, k, "find") /\ IsReuse(exchange[u][k].tok))
    BY <1>b, <2>1, <2>2 DEF IsReuse
  <2>4. LostIn(exchange[u][k].sid)
    BY <1>0, <2>3 DEF Suspects
  <2>5. QED
    BY <1>1, <1>5, <1>a, <2>1, <2>4 DEF LostIn
<1>14. OneRefresh'
  BY <1>0, <1>2, <1>3, <1>4 DEF OneRefresh, Refreshing
<1>15. Own'
  <2> SUFFICES ASSUME NEW u \in Tabs, NEW k \in Slots, exchange'[u][k].tok # None,
                      (At(u, k, "find") \/ At(u, k, "rotate") \/ At(u, k, "refused"))'
               PROVE  LET n == exchange'[u][k].tok
                      IN \/ token'[n].revoked \/ n \in lost' \/ token'[n].by # u
                         \/ token'[n].rotated = "no" /\ ~At(u, k, "refused")'
    BY DEF Own
  <2>1. CASE u = t /\ k = s
    BY <1>2, <1>3, <1>4, <1>c, <2>1
  <2>2. CASE ~(u = t /\ k = s)
    <3> DEFINE n == exchange[u][k].tok
    <3>1. exchange'[u][k] = exchange[u][k]
      BY <1>4, <2>2
    <3>2. n \in Tokens /\ Born(n)
      BY <1>0, <1>1, <3>1 DEF Known
    <3>3. \/ token[n].revoked \/ n \in lost \/ token[n].by # u
          \/ token[n].rotated = "no" /\ ~At(u, k, "refused")
      BY <1>0, <3>1 DEF Own
    <3>4. CASE token[n].revoked
      BY <1>c, <3>1, <3>2, <3>4
    <3>5. CASE ~token[n].revoked
      BY <1>b, <1>5, <3>1, <3>2, <3>3, <3>5
    <3>6. QED
      BY <3>4, <3>5
  <2>3. QED
    BY <2>1, <2>2
<1>16. QED
  BY <1>6, <1>7, <1>8, <1>9, <1>10, <1>11, <1>12, <1>13, <1>14, <1>15 DEF IInv

\* The cookie may be removed.
LEMMA SignedOutKeeps ==
    ASSUME IInv, NEW t \in Tabs, NEW s \in Slots, SignedOut(t, s)
    PROVE  IInv'
<1> DEFINE x == exchange[t][s]
<1> DEFINE y == NoExchange
<1>0. /\ TypeOK /\ Known /\ InFlight /\ OneLive /\ OneIssuing /\ NotBoth
      /\ JarIsNew /\ Suspects /\ OneRefresh /\ Own
  BY DEF IInv
<1>1. /\ None \notin Tokens
      /\ \A n \in Tokens : /\ token[n] # Unborn => Born(n)
                           /\ Born(n) => token[n] # Unborn /\ token[n].sid \in Tokens
      /\ \A u \in Tabs, k \in Slots :
           /\ exchange[u][k].tok \in Tokens \cup {None}
           /\ exchange[u][k].sid \in Tokens \cup {None}
      /\ jar \in Tokens \cup {None} /\ lost \subseteq Tokens
  BY <1>0, TokenShape, ExchangeShape, NoneIsNoToken DEF TypeOK
<1>2. x.pc \in {"logout", "gone"}
  BY <1>0, <1>1, ExchangeShape DEF SignedOut
<1>3. /\ y \in Exchange
      /\ y.pc = "none" /\ y.tok = None /\ y.sid = None /\ y.new = None
  BY <1>0, <1>1, <1>2 DEF X, Exchange, NoExchange
<1>4. /\ exchange' \in [Tabs -> [Slots -> Exchange]]
      /\ \A u \in Tabs, k \in Slots :
           exchange'[u][k] = IF u = t /\ k = s THEN y ELSE exchange[u][k]
  BY <1>0, <1>3, Went DEF SignedOut
<1>5. /\ token' = token /\ jar' \in {jar, None} /\ lost' = lost
  BY DEF SignedOut
<1> HIDE DEF y
<1>6. TypeOK'
  BY <1>0, <1>1, <1>2, <1>4, <1>5 DEF SignedOut, TypeOK, Cleared
<1>7. Known'
  BY <1>0, <1>1, <1>2, <1>3, <1>4, <1>5 DEF Known
<1>8. InFlight'
  BY <1>0, <1>1, <1>2, <1>3, <1>4, <1>5 DEF InFlight
<1>9. OneLive'
  BY <1>0, <1>1, <1>2, <1>3, <1>4, <1>5 DEF OneLive, Live
<1>10. OneIssuing'
  BY <1>0, <1>1, <1>3, <1>4 DEF OneIssuing, Issuing
<1>11. NotBoth'
  BY <1>0, <1>1, <1>2, <1>3, <1>4, <1>5 DEF NotBoth, Live, Issuing
<1>12. JarIsNew'
  BY <1>0, <1>1, <1>2, <1>3, <1>4, <1>5 DEF JarIsNew
<1>13. Suspects'
  <2> SUFFICES ASSUME NEW u \in Tabs, NEW k \in Slots,
                      (At(u, k, "alarm") \/ (At(u, k, "find") /\ IsReuse(exchange[u][k].tok)))'
               PROVE  LostIn(exchange[u][k].sid)'
    BY DEF Suspects
  <2>1. CASE u = t /\ k = s
    BY <1>0, <1>1, <1>2, <1>3, <1>4, <1>5, <2>1
  <2>2. CASE ~(u = t /\ k = s)
    <3>1. exchange'[u][k] = exchange[u][k]
      BY <1>4, <2>2
    <3>2. LostIn(exchange[u][k].sid)
      BY <1>0, <1>1, <1>5, <3>1 DEF Suspects, IsReuse
    <3>3. QED
      BY <1>1, <1>5, <3>1, <3>2 DEF LostIn
  <2>3. QED
    BY <2>1, <2>2
<1>14. OneRefresh'
  BY <1>0, <1>1, <1>2, <1>3, <1>4 DEF OneRefresh, Refreshing
<1>15. Own'
  BY <1>0, <1>1, <1>2, <1>3, <1>4, <1>5 DEF Own
<1>16. QED
  BY <1>6, <1>7, <1>8, <1>9, <1>10, <1>11, <1>12, <1>13, <1>14, <1>15 DEF IInv

\* The token was rotated or revoked meanwhile.
LEMMA RotateFails ==
    ASSUME IInv, NEW t \in Tabs, NEW s \in Slots, Rotate(t, s),
           ~CanRotate(exchange[t][s].tok)
    PROVE  IInv'
<1> DEFINE x == exchange[t][s]
<1> DEFINE y == [x EXCEPT !.pc = "refused"]
<1>0. /\ TypeOK /\ Known /\ InFlight /\ OneLive /\ OneIssuing /\ NotBoth
      /\ JarIsNew /\ Suspects /\ OneRefresh /\ Own
  BY DEF IInv
<1>1. /\ None \notin Tokens
      /\ \A n \in Tokens : /\ token[n] # Unborn => Born(n)
                           /\ Born(n) => token[n] # Unborn /\ token[n].sid \in Tokens
      /\ \A u \in Tabs, k \in Slots :
           /\ exchange[u][k].tok \in Tokens \cup {None}
           /\ exchange[u][k].sid \in Tokens \cup {None}
      /\ jar \in Tokens \cup {None} /\ lost \subseteq Tokens
  BY <1>0, TokenShape, ExchangeShape, NoneIsNoToken DEF TypeOK
<1>2. /\ x \in Exchange /\ x.pc = "rotate" /\ x.tok \in Tokens
      /\ token[x.tok].revoked \/ token[x.tok].rotated # "no"
  BY <1>0, <1>1, ExchangeShape DEF Rotate, Known, CanRotate
<1>3. /\ y \in Exchange
      /\ y.pc = "refused" /\ y.tok = x.tok /\ y.sid = x.sid /\ y.new = x.new
  BY <1>0, <1>1, <1>2 DEF Exchange
<1>4. /\ exchange' \in [Tabs -> [Slots -> Exchange]]
      /\ \A u \in Tabs, k \in Slots :
           exchange'[u][k] = IF u = t /\ k = s THEN y ELSE exchange[u][k]
  BY <1>0, <1>3, Went DEF Rotate
<1>5. /\ token' = token /\ jar' = jar /\ lost' = lost
  BY DEF Rotate
<1> HIDE DEF y
<1>6. TypeOK'
  BY <1>0, <1>1, <1>2, <1>4, <1>5 DEF Rotate, TypeOK
<1>7. Known'
  BY <1>0, <1>1, <1>2, <1>3, <1>4, <1>5 DEF Known
<1>8. InFlight'
  BY <1>0, <1>1, <1>2, <1>3, <1>4, <1>5 DEF InFlight
<1>9. OneLive'
  BY <1>0, <1>1, <1>2, <1>3, <1>4, <1>5 DEF OneLive, Live
<1>10. OneIssuing'
  BY <1>0, <1>1, <1>3, <1>4 DEF OneIssuing, Issuing
<1>11. NotBoth'
  BY <1>0, <1>1, <1>2, <1>3, <1>4, <1>5 DEF NotBoth, Live, Issuing
<1>12. JarIsNew'
  BY <1>0, <1>1, <1>2, <1>3, <1>4, <1>5 DEF JarIsNew
<1>13. Suspects'
  <2> SUFFICES ASSUME NEW u \in Tabs, NEW k \in Slots,
                      (At(u, k, "alarm") \/ (At(u, k, "find") /\ IsReuse(exchange[u][k].tok)))'
               PROVE  LostIn(exchange[u][k].sid)'
    BY DEF Suspects
  <2>1. CASE u = t /\ k = s
    BY <1>0, <1>1, <1>2, <1>3, <1>4, <1>5, <2>1
  <2>2. CASE ~(u = t /\ k = s)
    <3>1. exchange'[u][k] = exchange[u][k]
      BY <1>4, <2>2
    <3>2. LostIn(exchange[u][k].sid)
      BY <1>0, <1>1, <1>5, <3>1 DEF Suspects, IsReuse
    <3>3. QED
      BY <1>1, <1>5, <3>1, <3>2 DEF LostIn
  <2>3. QED
    BY <2>1, <2>2
<1>14. OneRefresh'
  BY <1>0, <1>1, <1>2, <1>3, <1>4 DEF OneRefresh, Refreshing
<1>15. Own'
  BY <1>0, <1>1, <1>2, <1>3, <1>4, <1>5 DEF Own
<1>16. QED
  BY <1>6, <1>7, <1>8, <1>9, <1>10, <1>11, <1>12, <1>13, <1>14, <1>15 DEF IInv

\* The token is rotated: nobody else in its family issues or is live.
LEMMA RotateSucceeds ==
    ASSUME IInv, NEW t \in Tabs, NEW s \in Slots, Rotate(t, s),
           CanRotate(exchange[t][s].tok)
    PROVE  IInv'
<1> DEFINE x == exchange[t][s]
<1> DEFINE y == [x EXCEPT !.pc = "issue"]
<1>0. /\ TypeOK /\ Known /\ InFlight /\ OneLive /\ OneIssuing /\ NotBoth
      /\ JarIsNew /\ Suspects /\ OneRefresh /\ Own
  BY DEF IInv
<1>1. /\ None \notin Tokens
      /\ \A n \in Tokens : /\ token[n] # Unborn => Born(n)
                           /\ Born(n) => token[n] # Unborn /\ token[n].sid \in Tokens
      /\ \A u \in Tabs, k \in Slots :
           /\ exchange[u][k].tok \in Tokens \cup {None}
           /\ exchange[u][k].sid \in Tokens \cup {None}
           /\ exchange[u][k].new \in Tokens \cup {None}
      /\ jar \in Tokens \cup {None} /\ lost \subseteq Tokens
  BY <1>0, TokenShape, ExchangeShape, NoneIsNoToken DEF TypeOK
<1>2. /\ x \in Exchange /\ x.pc = "rotate" /\ x.tok \in Tokens /\ Born(x.tok)
      /\ x.sid = token[x.tok].sid /\ x.sid \in Tokens /\ token[x.tok] \in Token
      /\ token[x.tok].rotated = "no" /\ Live(x.tok)
  <2>1. x.tok \in Tokens /\ Born(x.tok) /\ x.sid = token[x.tok].sid
    BY <1>0, <1>1 DEF Rotate, Known
  <2>2. x \in Exchange /\ token[x.tok] \in Token
    BY <1>0, <2>1, ExchangeShape, TokenShape
  <2>3. QED
    BY <1>1, <2>1, <2>2 DEF Rotate, CanRotate, Live
<1>3. /\ y \in Exchange
      /\ y.pc = "issue" /\ y.tok = x.tok /\ y.sid = x.sid /\ y.new = x.new
  BY <1>2 DEF Exchange
<1>4. /\ exchange' \in [Tabs -> [Slots -> Exchange]]
      /\ \A u \in Tabs, k \in Slots :
           exchange'[u][k] = IF u = t /\ k = s THEN y ELSE exchange[u][k]
  BY <1>0, <1>3, Went DEF Rotate
<1>5. jar' = jar /\ lost' = lost /\ signed' = signed
  BY DEF Rotate
<1> HIDE DEF y
<1>b. \A n \in Tokens : n # x.tok => token'[n] = token[n]
  BY <1>0 DEF Rotate, TypeOK
<1>c. token'[x.tok] = [token[x.tok] EXCEPT !.rotated = "recently", !.by = t]
  BY <1>0, <1>2 DEF Rotate, TypeOK
<1>d. /\ token'[x.tok] \in Token
      /\ token'[x.tok].sid = token[x.tok].sid
      /\ token'[x.tok].rotated = "recently" /\ token'[x.tok].by = t
  BY <1>2, <1>c DEF Token
<1>a. \A n \in Tokens : token'[n].sid = token[n].sid
  BY <1>b, <1>d
<1>e. \A n \in Tokens : Live(n)' => Live(n) /\ n # x.tok
  BY <1>b, <1>d DEF Live
<1>f. \A n \in Tokens : token'[n].revoked = token[n].revoked
  BY <1>b, <1>c, <1>2 DEF Token
<1>6. TypeOK'
  <2>1. token' \in [Tokens -> Token \cup {Unborn}]
    BY <1>0, <1>2, <1>c, <1>d DEF Rotate, TypeOK
  <2>2. QED
    BY <1>0, <1>4, <1>5, <2>1 DEF TypeOK
<1>7. Known'
  <2>1. /\ \A n \in Tokens : token'[n].sid # None => token'[token'[n].sid].sid # None
        /\ jar' # None => token'[jar'].sid # None
    BY <1>0, <1>1, <1>a, <1>5 DEF Known
  <2>2. ASSUME NEW u \in Tabs, NEW k \in Slots, NEW z, z = exchange'[u][k]
        PROVE  /\ z.sid # None => token'[z.sid].sid # None
               /\ z.tok # None => token'[z.tok].sid # None
               /\ z.pc \in {"find", "rotate", "alarm", "logout"} => z.tok # None
               /\ (Handling(z) \/ Replacing(z)) /\ z.tok # None => z.sid = token'[z.tok].sid
    <3>1. CASE u = t /\ k = s
      BY <1>0, <1>1, <1>2, <1>3, <1>4, <1>a, <2>2, <3>1 DEF Known
    <3>2. CASE ~(u = t /\ k = s)
      BY <1>0, <1>1, <1>4, <1>a, <2>2, <3>2 DEF Known
    <3>3. QED
      BY <3>1, <3>2
  <2>3. QED
    BY <2>1, <2>2 DEF Known
<1>8. InFlight'
  <2>1. \A u \in Tabs, k \in Slots :
          /\ exchange'[u][k].tok = exchange[u][k].tok
          /\ exchange'[u][k].new = exchange[u][k].new
          /\ exchange'[u][k].pc = "answer" => exchange[u][k].pc = "answer"
    BY <1>2, <1>3, <1>4
  <2>2. ASSUME NEW u \in Tabs, NEW k \in Slots, exchange[u][k].pc = "answer"
        PROVE  token'[exchange[u][k].new] = token[exchange[u][k].new]
    BY <1>0, <1>1, <1>b, <2>2 DEF InFlight
  <2>3. QED
    BY <1>0, <1>5, <2>1, <2>2 DEF InFlight
<1>9. OneLive'
  BY <1>0, <1>a, <1>e DEF OneLive
<1>10. OneIssuing'
  BY <1>0, <1>2, <1>3, <1>4 DEF OneIssuing, NotBoth, Issuing
<1>11. NotBoth'
  <2> SUFFICES ASSUME NEW n \in Tokens, NEW u \in Tabs, NEW k \in Slots,
                      Live(n)', Issuing(u, k, token[n].sid)'
               PROVE  FALSE
    BY DEF NotBoth
  <2>1. Live(n) /\ n # x.tok /\ exchange'[u][k].pc = "issue"
        /\ exchange'[u][k].sid = token[n].sid
    BY <1>a, <1>e DEF Issuing
  <2>2. CASE u = t /\ k = s
    BY <1>0, <1>2, <1>3, <1>4, <2>1, <2>2 DEF OneLive
  <2>3. CASE ~(u = t /\ k = s)
    BY <1>0, <1>4, <2>1, <2>3 DEF NotBoth, Issuing
  <2>4. QED
    BY <2>2, <2>3
<1>12. JarIsNew'
  <2>1. CASE jar = x.tok
    BY <1>3, <1>4, <1>5, <1>d, <2>1 DEF JarIsNew
  <2>2. CASE jar # x.tok /\ jar # None
    BY <1>0, <1>1, <1>2, <1>3, <1>4, <1>5, <1>b, <2>2 DEF JarIsNew
  <2>3. QED
    BY <1>5, <2>1, <2>2 DEF JarIsNew
<1>13. Suspects'
  <2> SUFFICES ASSUME NEW u \in Tabs, NEW k \in Slots,
                      (At(u, k, "alarm") \/ (At(u, k, "find") /\ IsReuse(exchange[u][k].tok)))'
               PROVE  LostIn(exchange[u][k].sid)'
    BY DEF Suspects
  <2>1. exchange'[u][k] = exchange[u][k]
    BY <1>3, <1>4
  <2>2. At(u, k, "find") => exchange[u][k].tok \in Tokens
    BY <1>0, <1>1 DEF Known
  <2>3. At(u, k, "alarm") \/ (At(u, k, "find") /\ IsReuse(exchange[u][k].tok))
    BY <1>b, <1>d, <2>1, <2>2 DEF IsReuse
  <2>4. LostIn(exchange[u][k].sid)
    BY <1>0, <2>3 DEF Suspects
  <2>5. QED
    BY <1>1, <1>5, <1>a, <2>1, <2>4 DEF LostIn
<1>14. OneRefresh'
  BY <1>0, <1>2, <1>3, <1>4 DEF OneRefresh, Refreshing
<1>15. Own'
  <2> SUFFICES ASSUME NEW u \in Tabs, NEW k \in Slots, exchange'[u][k].tok # None,
                      (At(u, k, "find") \/ At(u, k, "rotate") \/ At(u, k, "refused"))'
               PROVE  LET n == exchange'[u][k].tok
                      IN \/ token'[n].revoked \/ n \in lost' \/ token'[n].by # u
                         \/ token'[n].rotated = "no" /\ ~At(u, k, "refused")'
    BY DEF Own
  <2>1. exchange'[u][k] = exchange[u][k] /\ ~(u = t /\ k = s) /\ exchange[u][k].tok \in Tokens
    BY <1>1, <1>3, <1>4
  <2>2. Refreshing(u, k) /\ Refreshing(t, s)
    BY <1>2, <2>1 DEF Refreshing
  <2>3. u # t
    BY <1>0, <2>1, <2>2 DEF OneRefresh
  <2>4. CASE exchange[u][k].tok = x.tok
    BY <1>d, <2>1, <2>3, <2>4
  <2>5. CASE exchange[u][k].tok # x.tok
    BY <1>0, <1>5, <1>b, <2>1, <2>5 DEF Own
  <2>6. QED
    BY <2>4, <2>5
<1>16. QED
  BY <1>6, <1>7, <1>8, <1>9, <1>10, <1>11, <1>12, <1>13, <1>14, <1>15 DEF IInv

\* The new token is the only one of its family that is live.
LEMMA IssueKeeps ==
    ASSUME IInv, NEW t \in Tabs, NEW s \in Slots, Issue(t, s)
    PROVE  IInv'
<1> DEFINE x == exchange[t][s]
<1>0. /\ TypeOK /\ Known /\ InFlight /\ OneLive /\ OneIssuing /\ NotBoth
      /\ JarIsNew /\ Suspects /\ OneRefresh /\ Own
  BY DEF IInv
<1>1. /\ None \notin Tokens
      /\ \A n \in Tokens : /\ token[n] # Unborn => Born(n)
                           /\ Born(n) => token[n] # Unborn /\ token[n].sid \in Tokens
      /\ \A u \in Tabs, k \in Slots :
           /\ exchange[u][k].tok \in Tokens \cup {None}
           /\ exchange[u][k].sid \in Tokens \cup {None}
           /\ exchange[u][k].new \in Tokens \cup {None}
      /\ jar \in Tokens \cup {None} /\ lost \subseteq Tokens
  BY <1>0, TokenShape, ExchangeShape, NoneIsNoToken DEF TypeOK
<1>2. PICK n \in Tokens :
        LET sid == IF x.sid = None THEN n ELSE x.sid
        IN /\ token[n] = Unborn
           /\ token' = [token EXCEPT ![n] =
                [sid |-> sid, rotated |-> "no", by |-> None, revoked |-> FALSE]]
           /\ Go(t, s, X("answer", x.tok, sid, n))
  BY DEF Issue
<1> DEFINE sid == IF x.sid = None THEN n ELSE x.sid
<1> DEFINE y == X("answer", x.tok, sid, n)
<1>b. /\ x.pc = "issue" /\ ~Born(n) /\ sid \in Tokens
      /\ x.sid # None => sid = x.sid /\ Born(sid) /\ sid # n
      /\ x.sid = None => sid = n
  BY <1>0, <1>1, <1>2 DEF Issue, Known
<1>3. /\ y \in Exchange
      /\ y.pc = "answer" /\ y.tok = x.tok /\ y.sid = sid /\ y.new = n
  BY <1>1, <1>b DEF X, Exchange
<1>4. /\ exchange' \in [Tabs -> [Slots -> Exchange]]
      /\ \A u \in Tabs, k \in Slots :
           exchange'[u][k] = IF u = t /\ k = s THEN y ELSE exchange[u][k]
  BY <1>0, <1>2, <1>3, Went
<1>5. jar' = jar /\ lost' = lost /\ signed' = signed
  BY DEF Issue
<1>c. \A m \in Tokens : m # n => token'[m] = token[m]
  BY <1>0, <1>2 DEF TypeOK
<1>d. token'[n] = [sid |-> sid, rotated |-> "no", by |-> None, revoked |-> FALSE]
  BY <1>0, <1>2 DEF TypeOK
<1> HIDE DEF y, sid
<1>e. /\ token'[n] \in Token /\ token'[n].sid = sid /\ token'[n].rotated = "no"
      /\ token'[n].by = None
  BY <1>b, <1>d DEF Token
<1>f. /\ \A m \in Tokens : Born(m) => m # n
      /\ lost \subseteq Tokens
  BY <1>1, <1>b
<1>g. \A m \in Tokens : Live(m) => Born(m)
  BY <1>1 DEF Live
<1>h. \A m \in Tokens : Live(m)' => m = n \/ Live(m)
  BY <1>c DEF Live
\* No live token, no exchange and no token lost is of the family it begins.
<1>i. /\ \A m \in Tokens : Live(m) => token[m].sid # sid
      /\ \A u \in Tabs, k \in Slots :
           At(u, k, "issue") /\ exchange[u][k].sid = sid => u = t /\ k = s
  <2>1. CASE x.sid = None
    <3>1. sid = n
      BY <1>b, <2>1
    <3>2. \A m \in Tokens : Live(m) => token[m].sid # n
      BY <1>0, <1>1, <1>b, <1>g DEF Known
    <3>3. \A u \in Tabs, k \in Slots : exchange[u][k].sid # n
      BY <1>0, <1>1, <1>b DEF Known
    <3>4. QED
      BY <3>1, <3>2, <3>3
  <2>2. CASE x.sid # None
    <3>1. sid = x.sid /\ Issuing(t, s, sid)
      BY <1>b, <2>2 DEF Issuing
    <3>2. QED
      BY <1>0, <1>b, <3>1 DEF NotBoth, OneIssuing, Issuing
  <2>3. QED
    BY <2>1, <2>2
<1>6. TypeOK'
  <2>1. token' \in [Tokens -> Token \cup {Unborn}]
    BY <1>0, <1>2, <1>d, <1>e DEF TypeOK
  <2>2. QED
    BY <1>0, <1>4, <1>5, <2>1 DEF TypeOK
<1>7. Known'
  <2>0. \A m \in Tokens : Born(m) => m # n /\ token'[m] = token[m]
    BY <1>c, <1>f
  <2>1. /\ \A m \in Tokens : token'[m].sid # None => token'[token'[m].sid].sid # None
        /\ jar' # None => token'[jar'].sid # None
    <3>1. token'[sid].sid # None
      BY <1>1, <1>b, <1>e, <2>0
    <3>2. ASSUME NEW m \in Tokens, m # n, token'[m].sid # None
          PROVE  token'[token'[m].sid].sid # None
      <4>1. Born(m) /\ Born(token[m].sid) /\ token[m].sid \in Tokens
        BY <1>0, <1>1, <1>c, <3>2 DEF Known
      <4>2. QED
        BY <2>0, <4>1
    <3>3. jar' # None => token'[jar'].sid # None
      BY <1>0, <1>1, <1>5, <2>0 DEF Known
    <3>4. QED
      BY <1>e, <3>1, <3>2, <3>3
  <2>2. ASSUME NEW u \in Tabs, NEW k \in Slots, NEW z, z = exchange'[u][k]
        PROVE  /\ z.sid # None => token'[z.sid].sid # None
               /\ z.tok # None => token'[z.tok].sid # None
               /\ z.pc \in {"find", "rotate", "alarm", "logout"} => z.tok # None
               /\ (Handling(z) \/ Replacing(z)) /\ z.tok # None => z.sid = token'[z.tok].sid
    <3>1. CASE u = t /\ k = s
      <4>1. z = y
        BY <1>4, <2>2, <3>1
      <4>2. x.tok # None => /\ Born(x.tok) /\ x.tok \in Tokens
                            /\ x.sid = token[x.tok].sid /\ x.sid # None
        BY <1>0, <1>1, <1>b DEF Known
      <4>3. token'[sid].sid # None
        BY <1>1, <1>b, <1>e, <2>0
      <4>4. QED
        BY <1>3, <1>b, <2>0, <4>1, <4>2, <4>3
    <3>2. CASE ~(u = t /\ k = s)
      <4>1. z = exchange[u][k]
        BY <1>4, <2>2, <3>2
      <4>2. /\ z.sid # None => Born(z.sid) /\ z.sid \in Tokens
            /\ z.tok # None => Born(z.tok) /\ z.tok \in Tokens
            /\ z.pc \in {"find", "rotate", "alarm", "logout"} => z.tok # None
            /\ (Handling(z) \/ Replacing(z)) /\ z.tok # None => z.sid = token[z.tok].sid
        BY <1>0, <1>1, <4>1 DEF Known
      <4>3. QED
        BY <2>0, <4>2
    <3>3. QED
      BY <3>1, <3>2
  <2>3. QED
    BY <2>1, <2>2 DEF Known
<1>8. InFlight'
  <2>1. jar # n
    BY <1>0, <1>1, <1>b DEF Known
  <2>2. \A u \in Tabs, k \in Slots : exchange[u][k].tok # n
    BY <1>0, <1>1, <1>b DEF Known
  <2>3. \A u \in Tabs, k \in Slots : At(u, k, "answer") => exchange[u][k].new # n
    BY <1>0, <1>b DEF InFlight
  <2>4. \A u \in Tabs, k \in Slots : exchange'[u][k].tok = exchange[u][k].tok
    BY <1>3, <1>4
  <2>5. ASSUME NEW u \in Tabs, NEW k \in Slots, exchange'[u][k].pc = "answer",
               NEW m, m = exchange'[u][k].new
        PROVE  /\ m # None /\ token'[m].sid # None /\ token'[m].rotated = "no" /\ jar' # m
               /\ \A v \in Tabs, l \in Slots :
                    /\ exchange'[v][l].tok # m
                    /\ exchange'[v][l].pc = "answer" /\ exchange'[v][l].new = m => v = u /\ l = k
    <3>1. CASE u = t /\ k = s
      BY <1>1, <1>3, <1>4, <1>5, <1>b, <1>e, <2>1, <2>2, <2>3, <2>4, <2>5, <3>1
    <3>2. CASE ~(u = t /\ k = s)
      <4>1. exchange[u][k].pc = "answer" /\ exchange[u][k].new = m /\ m # n
        BY <1>4, <2>3, <2>5, <3>2
      <4>2. m \in Tokens /\ token'[m] = token[m]
        BY <1>0, <1>1, <1>c, <4>1 DEF InFlight
      <4>3. /\ m # None /\ token[m].sid # None /\ token[m].rotated = "no" /\ jar # m
            /\ \A v \in Tabs, l \in Slots :
                 /\ exchange[v][l].tok # m
                 /\ exchange[v][l].pc = "answer" /\ exchange[v][l].new = m => v = u /\ l = k
        BY <1>0, <4>1 DEF InFlight
      <4>4. QED
        BY <1>3, <1>4, <1>5, <2>4, <4>1, <4>2, <4>3
    <3>3. QED
      BY <3>1, <3>2
  <2>6. QED
    BY <2>5 DEF InFlight
<1>9. OneLive'
  <2> SUFFICES ASSUME NEW l \in Tokens, NEW m \in Tokens, Live(l)', Live(m)',
                      token'[l].sid = token'[m].sid
               PROVE  l = m
    BY DEF OneLive
  <2>1. (l = n \/ Live(l)) /\ (m = n \/ Live(m))
    BY <1>h
  <2>2. QED
    BY <1>0, <1>c, <1>e, <1>i, <2>1 DEF OneLive
<1>10. OneIssuing'
  BY <1>0, <1>3, <1>4 DEF OneIssuing, Issuing
<1>11. NotBoth'
  <2> SUFFICES ASSUME NEW m \in Tokens, NEW u \in Tabs, NEW k \in Slots,
                      Live(m)', Issuing(u, k, token[m].sid)'
               PROVE  FALSE
    BY DEF NotBoth
  <2>1. /\ m = n \/ Live(m)
        /\ At(u, k, "issue") /\ exchange[u][k].sid = token'[m].sid /\ ~(u = t /\ k = s)
    BY <1>3, <1>4, <1>h DEF Issuing
  <2>2. CASE m = n
    BY <1>e, <1>i, <2>1, <2>2
  <2>3. CASE m # n
    BY <1>0, <1>c, <2>1, <2>3 DEF NotBoth, Issuing
  <2>4. QED
    BY <2>2, <2>3
<1>12. JarIsNew'
  <2>1. jar # None => token'[jar] = token[jar]
    BY <1>0, <1>1, <1>b, <1>c DEF Known
  <2>2. QED
    BY <1>0, <1>3, <1>4, <1>5, <2>1 DEF JarIsNew
<1>13. Suspects'
  <2> SUFFICES ASSUME NEW u \in Tabs, NEW k \in Slots,
                      (At(u, k, "alarm") \/ (At(u, k, "find") /\ IsReuse(exchange[u][k].tok)))'
               PROVE  LostIn(exchange[u][k].sid)'
    BY DEF Suspects
  <2>1. exchange'[u][k] = exchange[u][k]
    BY <1>3, <1>4
  <2>2. At(u, k, "find") => exchange[u][k].tok \in Tokens /\ Born(exchange[u][k].tok)
    BY <1>0, <1>1 DEF Known
  <2>3. At(u, k, "alarm") \/ (At(u, k, "find") /\ IsReuse(exchange[u][k].tok))
    BY <1>c, <1>f, <2>1, <2>2 DEF IsReuse
  <2>4. PICK m \in lost : token[m].sid = exchange[u][k].sid
    BY <1>0, <2>3 DEF Suspects, LostIn
  <2>5. exchange[u][k].sid # None
    BY <1>0, <1>1, <2>2, <2>3 DEF Known
  <2>6. m # n
    BY <1>b, <2>4, <2>5
  <2>7. QED
    BY <1>5, <1>c, <1>f, <2>1, <2>4, <2>6 DEF LostIn
<1>14. OneRefresh'
  BY <1>0, <1>b, <1>3, <1>4 DEF OneRefresh, Refreshing
<1>15. Own'
  <2>1. \A m \in Tokens : Born(m) => token'[m] = token[m]
    BY <1>c, <1>f
  <2>2. \A u \in Tabs, k \in Slots :
          exchange[u][k].tok # None => token'[exchange[u][k].tok] = token[exchange[u][k].tok]
    BY <1>0, <1>1, <2>1 DEF Known
  <2>3. QED
    BY <1>0, <1>3, <1>4, <1>5, <2>2 DEF Own
<1>16. QED
  BY <1>6, <1>7, <1>8, <1>9, <1>10, <1>11, <1>12, <1>13, <1>14, <1>15 DEF IInv

\* Nobody presents the token any more, or its successor is lost.
LEMMA GraceEndsKeeps ==
    ASSUME IInv, NEW n \in Tokens, GraceEnds(n)
    PROVE  IInv'
<1>0. /\ TypeOK /\ Known /\ InFlight /\ OneLive /\ OneIssuing /\ NotBoth
      /\ JarIsNew /\ Suspects /\ OneRefresh /\ Own
  BY DEF IInv
<1>1. /\ None \notin Tokens
      /\ \A m \in Tokens : /\ token[m] # Unborn => Born(m)
                           /\ Born(m) => token[m] # Unborn /\ token[m].sid \in Tokens
      /\ \A u \in Tabs, k \in Slots :
           /\ exchange[u][k].tok \in Tokens \cup {None}
           /\ exchange[u][k].sid \in Tokens \cup {None}
           /\ exchange[u][k].new \in Tokens \cup {None}
      /\ jar \in Tokens \cup {None} /\ lost \subseteq Tokens
  BY <1>0, TokenShape, ExchangeShape, NoneIsNoToken DEF TypeOK
<1>2. /\ Born(n) /\ token[n] \in Token /\ token[n].rotated = "recently"
      /\ \A t \in Tabs, s \in Slots : exchange[t][s].sid # token[n].sid
  <2>1. Born(n)
    BY <1>1 DEF GraceEnds
  <2>2. token[n] \in Token
    BY <1>0, <2>1, TokenShape
  <2>3. QED
    BY <2>1, <2>2 DEF GraceEnds
<1>5. jar' = jar /\ lost' = lost /\ signed' = signed /\ exchange' = exchange
  BY DEF GraceEnds
<1>b. \A m \in Tokens : m # n => token'[m] = token[m]
  BY <1>0 DEF GraceEnds, TypeOK
<1>c. token'[n] = [token[n] EXCEPT !.rotated = "long ago"]
  BY <1>0 DEF GraceEnds, TypeOK
<1>d. /\ token'[n] \in Token /\ token'[n].rotated = "long ago"
      /\ token'[n].sid = token[n].sid /\ token'[n].by = token[n].by
      /\ token'[n].revoked = token[n].revoked
  BY <1>2, <1>c DEF Token
<1>a. \A m \in Tokens : token'[m].sid = token[m].sid
  BY <1>b, <1>d
<1>e. \A m \in Tokens : Live(m)' => Live(m)
  BY <1>b, <1>d DEF Live
<1>f. \A t \in Tabs, s \in Slots : exchange[t][s].tok = n =>
        ~(Handling(exchange[t][s]) \/ Replacing(exchange[t][s]))
  BY <1>0, <1>1, <1>2 DEF Known
<1>6. TypeOK'
  <2>1. token' \in [Tokens -> Token \cup {Unborn}]
    BY <1>0, <1>c, <1>d DEF GraceEnds, TypeOK
  <2>2. QED
    BY <1>0, <1>5, <2>1 DEF TypeOK
<1>7. Known'
  BY <1>0, <1>1, <1>5, <1>a DEF Known
<1>8. InFlight'
  BY <1>0, <1>1, <1>2, <1>5, <1>a, <1>b DEF InFlight
<1>9. OneLive'
  BY <1>0, <1>a, <1>e DEF OneLive
<1>10. OneIssuing'
  BY <1>0, <1>5 DEF OneIssuing, Issuing
<1>11. NotBoth'
  BY <1>0, <1>5, <1>a, <1>e DEF NotBoth, Issuing
<1>12. JarIsNew'
  <2>1. CASE jar = n
    <3>1. n \in lost
      BY <1>0, <1>1, <1>2, <1>f, <2>1 DEF JarIsNew
    <3>2. QED
      BY <1>5, <2>1, <3>1 DEF JarIsNew
  <2>2. CASE jar # n /\ jar # None
    BY <1>0, <1>1, <1>5, <1>b, <2>2 DEF JarIsNew
  <2>3. QED
    BY <1>1, <1>5, <2>1, <2>2 DEF JarIsNew
<1>13. Suspects'
  <2> SUFFICES ASSUME NEW u \in Tabs, NEW k \in Slots,
                      (At(u, k, "alarm") \/ (At(u, k, "find") /\ IsReuse(exchange[u][k].tok)))'
               PROVE  LostIn(exchange[u][k].sid)'
    BY DEF Suspects
  <2>1. At(u, k, "find") => exchange[u][k].tok \in Tokens /\ exchange[u][k].tok # n
    BY <1>0, <1>1, <1>f DEF Known
  <2>2. At(u, k, "alarm") \/ (At(u, k, "find") /\ IsReuse(exchange[u][k].tok))
    BY <1>5, <1>b, <2>1 DEF IsReuse
  <2>3. LostIn(exchange[u][k].sid)
    BY <1>0, <2>2 DEF Suspects
  <2>4. QED
    BY <1>1, <1>5, <1>a, <2>3 DEF LostIn
<1>14. OneRefresh'
  BY <1>0, <1>5 DEF OneRefresh, Refreshing
<1>15. Own'
  <2>1. \A m \in Tokens : /\ token'[m].revoked = token[m].revoked
                          /\ token'[m].by = token[m].by
                          /\ token[m].rotated = "no" => token'[m].rotated = "no"
    BY <1>2, <1>b, <1>d
  <2>2. QED
    BY <1>0, <1>1, <1>5, <2>1 DEF Own
<1>16. QED
  BY <1>6, <1>7, <1>8, <1>9, <1>10, <1>11, <1>12, <1>13, <1>14, <1>15 DEF IInv

LEMMA Initially == Init => IInv
<1> SUFFICES ASSUME Init
             PROVE  IInv
  OBVIOUS
<1>1. /\ \A n \in Tokens : token[n].sid = None /\ token[n] = Unborn
      /\ jar = None /\ lost = {} /\ signed = {}
      /\ exchange \in [Tabs -> [Slots -> Exchange]]
      /\ \A t \in Tabs, s \in Slots :
           /\ exchange[t][s].pc = "none"
           /\ exchange[t][s].tok = None /\ exchange[t][s].sid = None
  <2>1. /\ NoExchange \in Exchange /\ NoExchange.pc = "none"
        /\ NoExchange.tok = None /\ NoExchange.sid = None
    BY DEF NoExchange, X, Exchange
  <2>2. QED
    BY <2>1 DEF Init, Unborn
<1>2. TypeOK
  BY <1>1 DEF Init, TypeOK
<1>3. Known /\ InFlight /\ JarIsNew /\ Suspects /\ OneRefresh /\ Own
  BY <1>1 DEF Known, InFlight, JarIsNew, Suspects, OneRefresh, Refreshing, Own
<1>4. OneLive /\ OneIssuing /\ NotBoth
  BY <1>1 DEF OneLive, OneIssuing, NotBoth, Live, Issuing
<1>5. QED
  BY <1>2, <1>3, <1>4 DEF IInv

LEMMA Inductive == IInv /\ [Next]_vars => IInv'
<1> SUFFICES ASSUME IInv, [Next]_vars
             PROVE  IInv'
  OBVIOUS
<1>1. ASSUME NEW t \in Tabs, NEW s \in Slots,
             \/ LogIn(t, s) \/ Refresh(t, s) \/ Find(t, s) \/ Alarm(t, s) \/ Rotate(t, s)
             \/ Issue(t, s) \/ Signed(t, s) \/ Refused(t, s) \/ Lose(t, s)
             \/ LogOut(t, s) \/ RevokeFamily(t, s) \/ SignedOut(t, s)
      PROVE  IInv'
  <2>1. CASE LogIn(t, s)  BY <2>1, LogInKeeps
  <2>2. CASE Refresh(t, s)  BY <2>2, RefreshKeeps
  <2>3. CASE Find(t, s)  BY <2>3, FindKeeps
  <2>4. CASE Alarm(t, s)  BY <2>4, AlarmKeeps
  <2>5. CASE Rotate(t, s)  BY <2>5, RotateFails, RotateSucceeds
  <2>6. CASE Issue(t, s)  BY <2>6, IssueKeeps
  <2>7. CASE Signed(t, s)  BY <2>7, SignedKeeps
  <2>8. CASE Refused(t, s)  BY <2>8, RefusedKeeps
  <2>9. CASE Lose(t, s)  BY <2>9, LoseKeeps
  <2>10. CASE LogOut(t, s)  BY <2>10, LogOutKeeps
  <2>11. CASE RevokeFamily(t, s)  BY <2>11, RevokeFamilyKeeps
  <2>12. CASE SignedOut(t, s)  BY <2>12, SignedOutKeeps
  <2>13. QED
    BY <1>1, <2>1, <2>2, <2>3, <2>4, <2>5, <2>6, <2>7, <2>8, <2>9, <2>10, <2>11, <2>12
<1>2. ASSUME NEW n \in Tokens, GraceEnds(n)
      PROVE  IInv'
  BY <1>2, GraceEndsKeeps
<1>3. CASE UNCHANGED vars
  <2>1. TypeOK' /\ Known' /\ InFlight'
    BY <1>3 DEF vars, IInv, TypeOK, Known, InFlight
  <2>2. OneLive' /\ OneIssuing' /\ NotBoth'
    BY <1>3 DEF vars, IInv, OneLive, OneIssuing, NotBoth, Live, Issuing
  <2>3. JarIsNew' /\ Suspects'
    BY <1>3 DEF vars, IInv, JarIsNew, Suspects, IsReuse, LostIn
  <2>4. OneRefresh' /\ Own'
    BY <1>3 DEF vars, IInv, OneRefresh, Refreshing, Own
  <2>5. QED
    BY <2>1, <2>2, <2>3, <2>4 DEF IInv
<1>4. QED
  BY <1>1, <1>2, <1>3 DEF Next

LEMMA Invariant == Spec => []IInv
BY Initially, Inductive, PTL DEF Spec

-----------------------------------------------------------------------------
(* The results *)

\* Every reachable state has its type, for any tabs and any number of tokens.
THEOREM SessionsTyped == Spec => []TypeOK
<1>1. IInv => TypeOK
  BY DEF IInv
<1>2. QED
  BY <1>1, Invariant, PTL

LEMMA AtMostOne ==
    ASSUME NEW S, \A a, b \in S : a = b
    PROVE  Cardinality(S) \in 0 .. 1 /\ (S # {} => Cardinality(S) = 1)
           /\ (S = {} => Cardinality(S) = 0)
<1>1. CASE S = {}
  BY <1>1, FS_EmptySet
<1>2. CASE S # {}
  <2>1. PICK a \in S : S = {a}
    BY <1>2
  <2>2. QED
    BY <2>1, FS_Singleton
<1>3. QED
  BY <1>1, <1>2

\* OneLiveToken: a family has one token that can be rotated, or one exchange about to
\* issue it, however tabs race and answers are lost (service.ts:177-186).
THEOREM FamiliesHaveOneHeir == Spec => []OneLiveToken
<1>1. ASSUME IInv
      PROVE  OneLiveToken
  <2> SUFFICES ASSUME NEW sid \in Tokens
               PROVE  Cardinality({n \in Tokens : Live(n) /\ token[n].sid = sid}) +
                      Cardinality({ts \in Tabs \X Slots :
                        At(ts[1], ts[2], "issue") /\ exchange[ts[1]][ts[2]].sid = sid}) <= 1
    BY DEF OneLiveToken
  <2> DEFINE L == {n \in Tokens : Live(n) /\ token[n].sid = sid}
  <2> DEFINE I == {ts \in Tabs \X Slots :
                     At(ts[1], ts[2], "issue") /\ exchange[ts[1]][ts[2]].sid = sid}
  <2>1. \A a, b \in L : a = b
    BY <1>1 DEF IInv, OneLive
  <2>2. \A a, b \in I : a = b
    BY <1>1 DEF IInv, OneIssuing, Issuing
  <2>3. L = {} \/ I = {}
    BY <1>1 DEF IInv, NotBoth, Issuing
  <2>4. Cardinality(L) \in 0 .. 1 /\ (L = {} => Cardinality(L) = 0)
    BY <2>1, AtMostOne
  <2>5. Cardinality(I) \in 0 .. 1 /\ (I = {} => Cardinality(I) = 0)
    BY <2>2, AtMostOne
  <2> HIDE DEF L, I
  <2>6. Cardinality(L) + Cardinality(I) <= 1
    BY <2>3, <2>4, <2>5
  <2>7. QED
    BY <2>6 DEF L, I
<1>2. QED
  BY <1>1, Invariant, PTL

\* RaceIsNotTheft: a family is revoked for reuse only after an answer to one of its
\* rotations was lost, never for a race between tabs (service.ts:165-173).
THEOREM RacesAreForgiven == Spec => []RaceIsNotTheft
<1>1. IInv => RaceIsNotTheft
  BY DEF IInv, Suspects, LostIn, RaceIsNotTheft
<1>2. QED
  BY <1>1, Invariant, PTL

\* NotRefusedByItself: a refresh is refused because the cookie was removed, revoked,
\* lost or rotated by another tab, never because of another refresh of its own tab
\* (api-client.ts:65-92).
THEOREM TabsDoNotRefuseThemselves == Spec => []NotRefusedByItself
<1>1. IInv => NotRefusedByItself
  BY DEF IInv, Own, NotRefusedByItself
<1>2. QED
  BY <1>1, Invariant, PTL
=============================================================================
