------------------------------ MODULE SocketAuth ------------------------------
(***************************************************************************)
(* The connection of a tab and the access token it lives on: the server    *)
(* closes a socket whose token expired more than a margin ago, the tab     *)
(* renews its token before that, tells the server, and connects again      *)
(* after a cut (web socket.ts and api-client.ts, api server.ts).           *)
(*                                                                         *)
(* The age of a token has four stages: valid; in its last minute, when the *)
(* timer of the tab is due; expired, within the margin of the server; past *)
(* it.  The stages differ in length, so two tokens age apart, the older    *)
(* ahead.  Timers that are due and messages on their way come before the   *)
(* next stage: requests and handshakes take less than a minute.            *)
(***************************************************************************)
EXTENDS Naturals

CONSTANTS MaxCuts,      \* bound: cuts of the connection
          MaxFailures   \* bound: renewals refused or unanswered

Valid == 0
Due == 1
Expired == 2
Past == 3
Ages == Valid..Past

VARIABLES
  signed,      \* the tab has a session
  age,         \* age of the token of the tab
  known,       \* age of the token the server has for the connection, or will have
               \* from the handshake on its way
  armed,       \* the refresh timer of the tab is set
  refreshing,  \* a renewal is on its way
  sock,        \* state of the socket
  sent,        \* an auth:refresh is on its way
  retried,     \* a refused handshake was already retried
  cuts, failures,
  untold       \* history: a renewal ended during the handshake of this connection

vars == <<signed, age, known, armed, refreshing, sock, sent, retried, cuts, failures, untold>>

TypeOK ==
  /\ signed \in BOOLEAN
  /\ age \in Ages /\ known \in Ages
  /\ armed \in BOOLEAN /\ refreshing \in BOOLEAN /\ sent \in BOOLEAN
  /\ sock \in {"connecting", "handshake", "connected", "waiting", "renewing", "dropped"}
  /\ retried \in BOOLEAN /\ untold \in BOOLEAN
  /\ cuts \in 0..MaxCuts /\ failures \in 0..MaxFailures

Init ==
  /\ signed = TRUE
  /\ age \in {Valid, Due, Expired}
  /\ known = Past
  /\ armed = FALSE /\ refreshing = FALSE /\ sent = FALSE
  /\ sock = "connecting"
  /\ retried = FALSE /\ untold = FALSE
  /\ cuts = 0 /\ failures = 0

Older(a) == IF a = Past THEN Past ELSE a + 1

\* Nothing that is due or on its way is left behind.
Settled ==
  /\ ~refreshing /\ ~sent
  /\ ~(armed /\ age >= Due)
  /\ ~(sock = "connected" /\ known = Past)
  /\ sock \notin {"connecting", "handshake", "renewing"}

\* The token of the tab is the one the server has.
Shared == sock = "connected" /\ ~untold

\* One token comes to its next stage, or both.
Tick ==
  /\ Settled
  /\ age' \in {age, Older(age)} /\ known' \in {known, Older(known)}
  /\ <<age', known'>> # <<age, known>>
  /\ IF Shared THEN age' = known' ELSE age' <= known'
  /\ UNCHANGED <<signed, armed, refreshing, sock, sent, retried, cuts, failures, untold>>

\* The timer of scheduleRefresh.
TimerFires ==
  /\ armed /\ age >= Due
  /\ armed' = FALSE
  /\ refreshing' = TRUE
  /\ UNCHANGED <<signed, age, known, sock, sent, retried, cuts, failures, untold>>

\* A call is answered 401, also one of a tab whose session was cleared: the token is
\* renewed.
CallRefused ==
  /\ signed => age >= Expired
  /\ refreshing' = TRUE
  /\ UNCHANGED <<signed, age, known, armed, sock, sent, retried, cuts, failures, untold>>

\* Slip: the timer is set at the connection only.
RenewedOnce ==
  /\ sent' = (sock = "connected")
  /\ untold' = (sock = "handshake")
  /\ armed' = FALSE

\* The subscriber of the session: the server is told when the tab knows of a
\* connection, so not during a handshake, and the timer is set again.
Renewed ==
  /\ sent' = (sock = "connected")
  /\ untold' = (sock = "handshake")
  /\ armed' = TRUE

\* A refused handshake is tried again.
RefreshOk ==
  /\ refreshing
  /\ refreshing' = FALSE
  /\ signed' = TRUE
  /\ age' = Valid
  /\ Renewed
  /\ sock' = IF sock = "renewing" THEN "connecting" ELSE sock
  /\ UNCHANGED <<known, retried, cuts, failures>>

\* The session of the tab is cleared.
RefreshFails ==
  /\ refreshing
  /\ failures < MaxFailures
  /\ failures' = failures + 1
  /\ refreshing' = FALSE
  /\ signed' = FALSE
  /\ sock' = IF sock = "renewing" THEN "dropped" ELSE sock
  /\ UNCHANGED <<age, known, armed, sent, retried, cuts, untold>>

\* auth:refresh: the server sets its own timer again.
Deliver ==
  /\ sent
  /\ sent' = FALSE
  /\ known' = age
  /\ UNCHANGED <<signed, age, armed, refreshing, sock, retried, cuts, failures, untold>>

\* The server disconnects: Socket.IO does not connect again by itself.
Expire ==
  /\ sock = "connected" /\ known = Past /\ ~sent
  /\ sock' = "dropped"
  /\ UNCHANGED <<signed, age, known, armed, refreshing, sent, retried, cuts, failures, untold>>

\* The network goes; Socket.IO will try again by itself.
Cut ==
  /\ sock \in {"handshake", "connected"}
  /\ cuts < MaxCuts
  /\ cuts' = cuts + 1
  /\ sock' = "waiting"
  /\ sent' = FALSE
  /\ UNCHANGED <<signed, age, known, armed, refreshing, retried, failures, untold>>

Retry ==
  /\ sock = "waiting"
  /\ sock' = "connecting"
  /\ UNCHANGED <<signed, age, known, armed, refreshing, sent, retried, cuts, failures, untold>>

\* The browser is back on line: the socket the server closed is opened too.
Online ==
  /\ sock = "dropped"
  /\ sock' = "connecting"
  /\ UNCHANGED <<signed, age, known, armed, refreshing, sent, retried, cuts, failures, untold>>

\* The token is the one of this moment; a tab without a session sends none.
Handshake ==
  /\ sock = "connecting"
  /\ sock' = "handshake"
  /\ known' = IF signed THEN age ELSE Past
  /\ untold' = FALSE
  /\ UNCHANGED <<signed, age, armed, refreshing, sent, retried, cuts, failures>>

Accepts(a) == a < Expired

\* The server accepts the token it was sent, and the tab hears of it.
Connected ==
  /\ sock = "handshake"
  /\ Accepts(known)
  /\ sock' = "connected"
  /\ retried' = FALSE
  /\ armed' = TRUE
  /\ UNCHANGED <<signed, age, known, refreshing, sent, cuts, failures, untold>>

\* unauthorized: the session is renewed, once.
Refused ==
  /\ sock = "handshake"
  /\ ~Accepts(known)
  /\ IF retried
     THEN sock' = "dropped" /\ UNCHANGED refreshing
     ELSE sock' = "renewing" /\ refreshing' = TRUE
  /\ retried' = TRUE
  /\ UNCHANGED <<signed, age, known, armed, sent, cuts, failures, untold>>

\* After a new log-in the workspace acquires the socket again, and connects it.
LogIn ==
  /\ ~signed /\ ~refreshing
  /\ signed' = TRUE
  /\ age' = Valid
  /\ Renewed
  /\ sock' = IF sock \in {"handshake", "connected"} THEN sock ELSE "connecting"
  /\ UNCHANGED <<known, refreshing, retried, cuts, failures>>

Next ==
  \/ Tick \/ TimerFires \/ CallRefused \/ RefreshOk \/ RefreshFails \/ Deliver
  \/ Expire \/ Cut \/ Retry \/ Online \/ Handshake \/ Connected \/ Refused \/ LogIn

-----------------------------------------------------------------------------
(* Properties. *)

\* No step leaves a tab with a session without a connection that something will
\* open again: the server closes a socket, and the tab gives up connecting, only
\* after a renewal failed, and that ends the session of the tab, or after a renewal
\* that ended during the handshake, of which the server never hears.  Then nothing
\* opens the socket, though the session lives or is renewed by a later call, until
\* the browser comes back on line or the workspace is entered again.
\* (socket.ts connect_error, the subscriber, scheduleRefresh; server.ts scheduleExpiry)
SignedIsNotDropped == sock # "dropped" /\ sock' = "dropped" => ~signed' \/ untold

=============================================================================
