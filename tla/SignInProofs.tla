---------------------------- MODULE SignInProofs ----------------------------
(***************************************************************************)
(* Proofs about SignIn, for any number of browsers, requests and sign-ins. *)
(*                                                                         *)
(* A redirect's row is spent before GitHub is asked, so at most one        *)
(* request goes on with it (Alone); a device code's row is spent in the    *)
(* transaction that creates the session, so it is enough that a ticket     *)
(* whose row is not spent has no session (TicketOK).                       *)
(*                                                                         *)
(* And about RateLimiter, for any number of threads, limit and window: the *)
(* calls a caller counts were all recorded in its window (LimiterInv).     *)
(***************************************************************************)
EXTENDS SignIn, RateLimiter, FiniteSetTheorems, TLAPS

\* The steps of a redirect's request, those after its row was spent, and the steps of a
\* device code's.
Redirecting == {"redeem", "exchange", "welcome"}
Redeemed == {"exchange", "welcome"}
Polling == {"check", "ask", "complete"}

\* The types, variable by variable.
TicketsTyped == ticket \in [Tickets -> TicketRows]
SessionsTyped == sessions \in [Tickets -> Nat]
PagesTyped == browser \in [Browsers -> Pages]
RequestsTyped ==
  request \in [Requests -> [step : Steps, from : Browsers, ticket : Tickets \cup {NoTicket}]]

\* A ticket that nobody began has no row; a session is of an approved, spent one.
TicketOK(x) ==
  /\ ticket[x].kind = "none" => ticket[x].row = "none"
  /\ sessions[x] > 0 =>
       sessions[x] = 1 /\ ticket[x].row = "spent" /\ ticket[x].verdict = "approved"

\* A request is for a ticket of its own kind, begun by the browser it comes from.
RequestOK(r) ==
  LET x == request[r].ticket IN
  /\ request[r].step \in Redirecting =>
       /\ x \in Tickets /\ ticket[x].kind = "redirect" /\ ticket[x].by = request[r].from
       /\ ticket[x].verdict = "approved"
  /\ request[r].step \in Redeemed => ticket[x].row = "spent" /\ sessions[x] = 0
  /\ request[r].step \in Polling =>
       x \in Tickets /\ ticket[x].kind = "device" /\ ticket[x].by = request[r].from
  /\ request[r].step = "complete" => ticket[x].verdict = "approved"

\* Only one request goes on with a redirect's ticket.
Alone ==
  \A r, q \in Requests :
    /\ r # q /\ request[r].step \in Redeemed /\ request[q].step \in Redeemed
    => request[r].ticket # request[q].ticket

\* What a browser holds it has begun.
BrowserOK(b) ==
  /\ browser[b].cookie # NoTicket =>
       /\ browser[b].cookie \in Tickets
       /\ ticket[browser[b].cookie].kind = "redirect" /\ ticket[browser[b].cookie].by = b
  /\ browser[b].page \in {"waiting", "polling"} =>
       /\ browser[b].code \in Tickets
       /\ ticket[browser[b].code].kind = "device" /\ ticket[browser[b].code].by = b

IInv ==
  /\ TicketsTyped /\ SessionsTyped /\ PagesTyped /\ RequestsTyped
  /\ \A x \in Tickets : TicketOK(x)
  /\ \A r \in Requests : RequestOK(r)
  /\ Alone
  /\ \A b \in Browsers : BrowserOK(b)

\* The empty tables satisfy the invariant.
LEMMA InitIInv == SignInInit => IInv
<1> SUFFICES ASSUME SignInInit PROVE IInv
  OBVIOUS
<1> DEFINE anyone == CHOOSE b \in Browsers : TRUE
<1>1. anyone \in Browsers
  BY SignInAssumption
<1> HIDE DEF anyone
<1>2. /\ ticket = [x \in Tickets |-> NotBegun(anyone)]
      /\ sessions = [x \in Tickets |-> 0]
      /\ browser = [b \in Browsers |-> [cookie |-> NoTicket, page |-> "rest", code |-> NoTicket]]
      /\ request = [r \in Requests |-> [step |-> "none", from |-> anyone, ticket |-> NoTicket]]
  BY DEF SignInInit, anyone
<1>3. TicketsTyped /\ SessionsTyped /\ PagesTyped /\ RequestsTyped
  BY <1>1, <1>2 DEF TicketsTyped, SessionsTyped, PagesTyped, RequestsTyped, TicketRows,
     Pages, Steps, NotBegun, NoTicket
<1> QED
  BY <1>2, <1>3 DEF IInv, TicketOK, RequestOK, Alone, BrowserOK, NotBegun,
     Redirecting, Redeemed, Polling
-----------------------------------------------------------------------------
(* What most steps leave alone *)

\* What most steps do to a ticket: its row may be spent.
Stays(y) ==
  /\ ticket'[y].kind = ticket[y].kind /\ ticket'[y].by = ticket[y].by
  /\ ticket'[y].verdict = ticket[y].verdict
  /\ ticket'[y].row = ticket[y].row \/ (ticket[y].kind # "none" /\ ticket'[y].row = "spent")
\* Tickets that were begun stay.
BegunStay == \A y \in Tickets : ticket[y].kind # "none" => Stays(y)

\* A page that shows no other code and holds no other cookie than before.
PageStays(c) ==
  /\ browser'[c].cookie \in {browser[c].cookie, NoTicket}
  /\ browser'[c].page \in {"waiting", "polling"} =>
       browser[c].page \in {"waiting", "polling"} /\ browser'[c].code = browser[c].code

\* A ticket that stays keeps what IInv says of it, if it gets no session; ...
LEMMA TicketStaysOK ==
  ASSUME IInv, NEW y \in Tickets, Stays(y), sessions'[y] = sessions[y]
  PROVE  TicketOK(y)'
BY DEF IInv, TicketOK, Stays

\* ... so does a request that is not worked on, if nobody signs in with its ticket, ...
LEMMA RequestStaysOK ==
  ASSUME IInv, NEW q \in Requests, BegunStay, request'[q] = request[q],
         request[q].step \in Redeemed =>
           sessions'[request[q].ticket] = sessions[request[q].ticket]
  PROVE  RequestOK(q)'
<1>1. RequestOK(q)
  BY DEF IInv
<1>2. request[q].step \in Redirecting \cup Polling => Stays(request[q].ticket)
  BY <1>1 DEF RequestOK, BegunStay, Redirecting, Polling
<1> QED BY <1>1, <1>2 DEF RequestOK, Stays, Redirecting, Redeemed, Polling

\* ... and a browser whose page stays.
LEMMA PageStaysOK ==
  ASSUME IInv, NEW c \in Browsers, BegunStay, PageStays(c)
  PROVE  BrowserOK(c)'
BY DEF IInv, BrowserOK, BegunStay, Stays, PageStays, NoTicket

\* Spending a row changes nothing else.
LEMMA SpentStays ==
  ASSUME TicketsTyped, NEW x \in Tickets, ticket[x].kind # "none", Spend(x)
  PROVE  \A y \in Tickets : Stays(y)
BY DEF TicketsTyped, Spend, Stays

\* A page that does not begin to wait shows no other code.
LEMMA PageTurns ==
  ASSUME PagesTyped, NEW b \in Browsers, NEW p, Shows(b, p),
         p \in {"waiting", "polling"} => browser[b].page \in {"waiting", "polling"}
  PROVE  \A c \in Browsers : PageStays(c)
BY DEF PagesTyped, Pages, Shows, PageStays

\* An answer never makes a page wait that did not.
LEMMA AnswerStays ==
  ASSUME PagesTyped, NEW r \in Requests, request[r].from \in Browsers, NEW p, Answers(r, p)
  PROVE  \A c \in Browsers : PageStays(c)
<1>1. CASE UNCHANGED browser
  BY <1>1 DEF PageStays
<1>2. CASE Shows(request[r].from, "rest")
  BY <1>2, PageTurns
<1>3. CASE Shows(request[r].from, p) /\ browser[request[r].from].page = "polling"
  BY <1>3, PageTurns
<1> QED BY <1>1, <1>2, <1>3 DEF Answers

\* A new ticket has no session yet, and the others stay.
LEMMA BeginKeeps ==
  ASSUME IInv, NEW x \in Tickets, NEW b \in Browsers, NEW k \in {"redirect", "device"},
         Begins(x, k, b), UNCHANGED sessions
  PROVE  TicketsTyped' /\ BegunStay /\ \A y \in Tickets : TicketOK(y)'
<1>1. TicketsTyped'
  BY DEF IInv, TicketsTyped, TicketRows, Begins
<1>2. \A y \in Tickets \ {x} : Stays(y)
  BY DEF IInv, TicketsTyped, Begins, Stays
<1>3. ticket[x].kind = "none" /\ ticket'[x].kind = k
  BY DEF IInv, TicketsTyped, Begins
<1>4. sessions[x] = 0
  BY <1>3 DEF IInv, SessionsTyped, TicketOK
<1>5. TicketOK(x)'
  BY <1>3, <1>4 DEF TicketOK
<1> QED BY <1>1, <1>2, <1>3, <1>5, TicketStaysOK DEF BegunStay
-----------------------------------------------------------------------------
(* The steps *)

\* A redirect begins: its ticket is new.
LEMMA LoginKeeps ==
  ASSUME IInv, NEW b \in Browsers, Login(b)
  PROVE  IInv'
<1> USE DEF Login, Begins, NoTicket
<1>1. TicketsTyped'
  BY DEF IInv, TicketsTyped, TicketRows
<1>2. SessionsTyped'
  BY DEF IInv, SessionsTyped
<1>3. PagesTyped'
  BY DEF IInv, PagesTyped, Pages
<1>4. RequestsTyped'
  BY DEF IInv, RequestsTyped
<1>5. \A y \in Tickets : TicketOK(y)'
  BY DEF IInv, TicketsTyped, SessionsTyped, TicketOK
<1>6. \A q \in Requests : RequestOK(q)'
  BY DEF IInv, TicketsTyped, RequestOK, Redirecting, Redeemed, Polling
<1>7. Alone'
  BY DEF IInv, Alone
<1>8. \A c \in Browsers : BrowserOK(c)'
  <2>1. BegunStay
    BY DEF IInv, TicketsTyped, BegunStay, Stays
  <2>2. ASSUME NEW c \in Browsers \ {b} PROVE BrowserOK(c)'
    BY <2>1, PageStaysOK DEF IInv, PagesTyped, PageStays
  <2>3. BrowserOK(b)'
    <3>1. CASE UNCHANGED browser
      BY <2>1, <3>1, PageStaysOK DEF PageStays
    <3>2. PICK x \in Tickets :
            /\ Begins(x, "redirect", b)
            /\ browser' = [browser EXCEPT ![b].cookie = x] \/ UNCHANGED browser
      OBVIOUS
    <3>3. CASE browser' = [browser EXCEPT ![b].cookie = x]
      <4>1. ticket'[x].kind = "redirect" /\ ticket'[x].by = b
        BY <3>2 DEF IInv, TicketsTyped
      <4>2. /\ browser'[b].cookie = x
            /\ browser'[b].page = browser[b].page /\ browser'[b].code = browser[b].code
        BY <3>3 DEF IInv, PagesTyped, Pages
      <4> QED BY <2>1, <4>1, <4>2 DEF IInv, BrowserOK, BegunStay, Stays
    <3> QED BY <3>1, <3>2, <3>3
  <2> QED BY <2>2, <2>3
<1> QED BY <1>1, <1>2, <1>3, <1>4, <1>5, <1>6, <1>7, <1>8 DEF IInv

\* The dialog is closed.
LEMMA CloseDialogKeeps ==
  ASSUME IInv, NEW b \in Browsers, CloseDialog(b)
  PROVE  IInv'
<1> USE DEF CloseDialog, Shows
<1>1. TicketsTyped'
  BY DEF IInv, TicketsTyped
<1>2. SessionsTyped'
  BY DEF IInv, SessionsTyped
<1>3. PagesTyped'
  BY DEF IInv, PagesTyped, Pages
<1>4. RequestsTyped'
  BY DEF IInv, RequestsTyped
<1>5. \A y \in Tickets : TicketOK(y)'
  BY DEF IInv, TicketOK
<1>6. \A q \in Requests : RequestOK(q)'
  BY DEF IInv, RequestOK
<1>7. Alone'
  BY DEF IInv, Alone
<1>8. \A c \in Browsers : BrowserOK(c)'
  BY DEF IInv, PagesTyped, BrowserOK
<1> QED BY <1>1, <1>2, <1>3, <1>4, <1>5, <1>6, <1>7, <1>8 DEF IInv

\* The browser that holds the cookie comes back.
LEMMA CallbackKeeps ==
  ASSUME IInv, NEW r \in Requests, NEW b \in Browsers, Callback(r, b)
  PROVE  IInv'
<1> USE DEF Callback, Arrives, NoTicket
<1>1. TicketsTyped'
  BY DEF IInv, TicketsTyped
<1>2. SessionsTyped'
  BY DEF IInv, SessionsTyped
<1>3. PagesTyped'
  BY DEF IInv, PagesTyped
<1>4. RequestsTyped'
  BY DEF IInv, RequestsTyped, Steps
<1>5. \A y \in Tickets : TicketOK(y)'
  BY DEF IInv, TicketOK
<1>6. \A q \in Requests : RequestOK(q)'
  <2>1. BegunStay
    BY DEF BegunStay, Stays
  <2>2. PICK x \in Tickets :
          /\ ticket[x].kind = "redirect" /\ ticket[x].verdict = "approved"
          /\ browser[b].cookie = x
          /\ request' = [request EXCEPT ![r] = [step |-> "redeem", from |-> b, ticket |-> x]]
    OBVIOUS
  <2>3. ticket[x].by = b
    BY <2>2 DEF IInv, BrowserOK, Tickets
  <2>4. request'[r] = [step |-> "redeem", from |-> b, ticket |-> x]
    BY <2>2 DEF IInv, RequestsTyped
  <2>5. RequestOK(r)'
    BY <2>2, <2>3, <2>4 DEF RequestOK, Redirecting, Redeemed, Polling
  <2>6. ASSUME NEW q \in Requests \ {r} PROVE RequestOK(q)'
    BY <2>1, RequestStaysOK DEF IInv, RequestsTyped
  <2> QED BY <2>5, <2>6
<1>7. Alone'
  BY DEF IInv, RequestsTyped, Alone, Redeemed
<1>8. \A c \in Browsers : BrowserOK(c)'
  BY DEF IInv, BrowserOK
<1> QED BY <1>1, <1>2, <1>3, <1>4, <1>5, <1>6, <1>7, <1>8 DEF IInv

\* The row is spent by the first request that finds it open.
LEMMA RedeemKeeps ==
  ASSUME IInv, NEW r \in Requests, Redeem(r)
  PROVE  IInv'
<1>0. PICK x : x = request[r].ticket
  OBVIOUS
<1>1. x \in Tickets
  BY <1>0 DEF IInv, RequestOK, Redeem, Redirecting
<1>2. /\ ticket[x].kind = "redirect" /\ ticket[x].by = request[r].from
      /\ ticket[x].verdict = "approved"
  BY <1>0 DEF IInv, RequestOK, Redeem, Redirecting
<1>3. UNCHANGED <<sessions, browser>>
  BY DEF Redeem
<1>4. \/ ticket[x].row = "open" /\ Spend(x) /\ Continues(r, "exchange")
      \/ UNCHANGED ticket /\ Continues(r, "none")
  BY <1>0 DEF Redeem, Ends
<1>5. \A y \in Tickets : Stays(y)
  <2>1. CASE Spend(x)
    BY <1>1, <1>2, <2>1, SpentStays DEF IInv
  <2>2. CASE UNCHANGED ticket
    BY <2>2 DEF Stays
  <2> QED BY <1>4, <2>1, <2>2
<1>6. TicketsTyped'
  BY <1>1, <1>4 DEF IInv, TicketsTyped, TicketRows, Spend
<1>7. RequestsTyped'
  BY <1>4 DEF IInv, RequestsTyped, Steps, Continues
<1>8. \A q \in Requests \ {r} : request'[q] = request[q]
  BY <1>4 DEF IInv, RequestsTyped, Continues
<1>9. \A q \in Requests : RequestOK(q)'
  <2>1. CASE Spend(x) /\ ticket[x].row = "open" /\ Continues(r, "exchange")
    <3>1. request'[r].ticket = x /\ request'[r].from = request[r].from
          /\ request'[r].step = "exchange"
      BY <1>0, <2>1 DEF IInv, RequestsTyped, Continues
    <3>2. ticket'[x].row = "spent"
      BY <1>1, <2>1 DEF IInv, TicketsTyped, Spend
    <3>3. sessions[x] = 0
      BY <1>1, <2>1 DEF IInv, SessionsTyped, TicketOK
    <3> QED BY <1>1, <1>2, <1>3, <1>5, <1>8, <3>1, <3>2, <3>3, RequestStaysOK
            DEF RequestOK, Stays, BegunStay, Redirecting, Redeemed, Polling
  <2>2. CASE Continues(r, "none")
    <3>1. request'[r].step = "none"
      BY <2>2 DEF IInv, RequestsTyped, Continues
    <3>2. RequestOK(r)'
      BY <3>1 DEF RequestOK, Redirecting, Redeemed, Polling
    <3> QED BY <1>3, <1>5, <1>8, <3>2, RequestStaysOK DEF BegunStay
  <2> QED BY <1>4, <2>1, <2>2
<1>10. Alone'
  <2>1. ASSUME NEW q \in Requests \ {r}, request[q].step \in Redeemed,
               request'[r].step \in Redeemed
        PROVE  request[q].ticket # request'[r].ticket
    <3>1. ticket[x].row = "open" /\ request'[r].ticket = x
      BY <1>0, <1>4, <2>1 DEF IInv, RequestsTyped, Continues, Redeemed
    <3>2. ticket[request[q].ticket].row = "spent"
      BY <2>1 DEF IInv, RequestOK
    <3> QED BY <3>1, <3>2
  <2> QED BY <1>8, <2>1 DEF IInv, Alone
<1>11. \A c \in Browsers : BrowserOK(c)'
  BY <1>3, <1>5, PageStaysOK DEF PageStays, BegunStay
<1> QED BY <1>3, <1>5, <1>6, <1>7, <1>9, <1>10, <1>11, TicketStaysOK
        DEF IInv, SessionsTyped, PagesTyped

\* GitHub is asked for a redirect.
LEMMA ExchangeKeeps ==
  ASSUME IInv, NEW r \in Requests, Exchange(r)
  PROVE  IInv'
<1> USE DEF Exchange, Continues, Ends
<1>0. request[r].ticket \in Tickets /\ request[r].from \in Browsers
  BY DEF IInv, RequestOK, RequestsTyped, Redirecting, Polling
<1>1. TicketsTyped'
  BY <1>0 DEF IInv, TicketsTyped
<1>2. SessionsTyped'
  BY <1>0 DEF IInv, SessionsTyped
<1>3. PagesTyped'
  BY <1>0 DEF IInv, PagesTyped
<1>4. RequestsTyped'
  BY <1>0 DEF IInv, RequestsTyped, Steps
<1>5. \A y \in Tickets : TicketOK(y)'
  BY <1>0 DEF IInv, TicketOK
<1>6. \A q \in Requests : RequestOK(q)'
  BY <1>0 DEF IInv, RequestsTyped, RequestOK, Redirecting, Redeemed, Polling
<1>7. Alone'
  BY <1>0 DEF IInv, RequestsTyped, Alone, Redeemed
<1>8. \A c \in Browsers : BrowserOK(c)'
  BY <1>0 DEF IInv, BrowserOK
<1> QED BY <1>1, <1>2, <1>3, <1>4, <1>5, <1>6, <1>7, <1>8 DEF IInv

\* The session of a redirect: nobody else goes on with its ticket.
LEMMA WelcomeKeeps ==
  ASSUME IInv, NEW r \in Requests, Welcome(r)
  PROVE  IInv'
<1> USE DEF Welcome, CreateSession, Continues, Ends, NoTicket
<1>0. request[r].ticket \in Tickets /\ request[r].from \in Browsers
  BY DEF IInv, RequestOK, RequestsTyped, Redirecting, Polling
<1>1. TicketsTyped'
  BY <1>0 DEF IInv, TicketsTyped
<1>2. SessionsTyped'
  BY <1>0 DEF IInv, SessionsTyped
<1>3. PagesTyped'
  BY <1>0 DEF IInv, PagesTyped, Pages
<1>4. RequestsTyped'
  BY <1>0 DEF IInv, RequestsTyped, Steps
<1>5. \A y \in Tickets : TicketOK(y)'
  BY <1>0 DEF IInv, SessionsTyped, TicketOK, RequestOK, Redirecting, Redeemed
<1>6. \A q \in Requests : RequestOK(q)'
  BY <1>0 DEF IInv, SessionsTyped, RequestsTyped, RequestOK, Alone, Redirecting, Redeemed, Polling
<1>7. Alone'
  BY <1>0 DEF IInv, RequestsTyped, Alone, Redeemed
<1>8. \A c \in Browsers : BrowserOK(c)'
  <2>1. BegunStay
    BY DEF BegunStay, Stays
  <2>2. ASSUME NEW c \in Browsers PROVE PageStays(c)
    <3>1. CASE UNCHANGED browser
      BY <3>1 DEF PageStays
    <3>2. CASE browser' = [browser EXCEPT ![request[r].from].cookie = NoTicket]
      BY <1>0, <3>2 DEF IInv, PagesTyped, Pages, PageStays
    <3> QED BY <3>1, <3>2
  <2> QED BY <2>1, <2>2, PageStaysOK
<1> QED BY <1>1, <1>2, <1>3, <1>4, <1>5, <1>6, <1>7, <1>8 DEF IInv

\* A page asks for a device code.
LEMMA AskForCodeKeeps ==
  ASSUME IInv, NEW r \in Requests, NEW b \in Browsers, AskForCode(r, b)
  PROVE  IInv'
<1> USE DEF AskForCode, Arrives, NoTicket
<1>1. TicketsTyped'
  BY DEF IInv, TicketsTyped
<1>2. SessionsTyped'
  BY DEF IInv, SessionsTyped
<1>3. PagesTyped'
  BY DEF IInv, PagesTyped, Pages
<1>4. RequestsTyped'
  BY DEF IInv, RequestsTyped, Steps
<1>5. \A y \in Tickets : TicketOK(y)'
  BY DEF IInv, TicketOK
<1>6. \A q \in Requests : RequestOK(q)'
  BY DEF IInv, RequestsTyped, RequestOK, Redirecting, Redeemed, Polling
<1>7. Alone'
  BY DEF IInv, RequestsTyped, Alone, Redeemed
<1>8. \A c \in Browsers : BrowserOK(c)'
  BY DEF IInv, PagesTyped, BrowserOK
<1> QED BY <1>1, <1>2, <1>3, <1>4, <1>5, <1>6, <1>7, <1>8 DEF IInv

\* A device code begins: its ticket is new.
LEMMA GiveCodeKeeps ==
  ASSUME IInv, NEW r \in Requests, GiveCode(r)
  PROVE  IInv'
<1>0. PICK b : b = request[r].from
  OBVIOUS
<1>1. b \in Browsers
  BY <1>0 DEF IInv, RequestsTyped
<1>2. Continues(r, "none") /\ UNCHANGED sessions
  BY DEF GiveCode, Ends
<1>3. \/ UNCHANGED ticket /\ (UNCHANGED browser \/ Shows(b, "rest"))
      \/ \E x \in Tickets :
           /\ Begins(x, "device", b)
           /\ \/ UNCHANGED browser \/ Shows(b, "rest")
              \/ browser' = [browser EXCEPT ![b].page = "waiting", ![b].code = x]
  BY <1>0 DEF GiveCode
<1>4. SessionsTyped' /\ RequestsTyped' /\ request'[r].step = "none"
      /\ \A q \in Requests \ {r} : request'[q] = request[q]
  BY <1>2 DEF IInv, SessionsTyped, RequestsTyped, Steps, Continues
<1>5. TicketsTyped' /\ BegunStay /\ \A y \in Tickets : TicketOK(y)'
  <2>1. CASE UNCHANGED ticket
    BY <1>2, <2>1 DEF IInv, TicketsTyped, BegunStay, Stays, TicketOK
  <2>2. ASSUME NEW x \in Tickets, Begins(x, "device", b)
        PROVE  TicketsTyped' /\ BegunStay /\ \A y \in Tickets : TicketOK(y)'
    BY <1>1, <1>2, <2>2, BeginKeeps
  <2> QED BY <1>3, <2>1, <2>2
<1>6. PagesTyped'
  <2>1. CASE UNCHANGED browser \/ Shows(b, "rest")
    BY <1>1, <2>1 DEF IInv, PagesTyped, Pages, Shows
  <2>2. ASSUME NEW x \in Tickets, browser' = [browser EXCEPT ![b].page = "waiting", ![b].code = x]
        PROVE  PagesTyped'
    BY <1>1, <2>2 DEF IInv, PagesTyped, Pages
  <2> QED BY <1>3, <2>1, <2>2
<1>7. \A q \in Requests : RequestOK(q)'
  <2>1. RequestOK(r)'
    BY <1>4 DEF RequestOK, Redirecting, Redeemed, Polling
  <2> QED BY <1>2, <1>4, <1>5, <2>1, RequestStaysOK
<1>8. Alone'
  BY <1>4 DEF IInv, Alone, Redeemed
<1>9. \A c \in Browsers : BrowserOK(c)'
  <2>1. CASE UNCHANGED browser \/ Shows(b, "rest")
    <3>1. \A c \in Browsers : PageStays(c)
      BY <1>1, <2>1, PageTurns DEF IInv, PageStays
    <3> QED BY <1>5, <3>1, PageStaysOK
  <2>2. ASSUME NEW x \in Tickets, Begins(x, "device", b),
               browser' = [browser EXCEPT ![b].page = "waiting", ![b].code = x]
        PROVE  \A c \in Browsers : BrowserOK(c)'
    <3>1. ASSUME NEW c \in Browsers \ {b} PROVE PageStays(c)
      BY <2>2 DEF IInv, PagesTyped, PageStays
    <3>2. ticket'[x].kind = "device" /\ ticket'[x].by = b
      BY <2>2 DEF IInv, TicketsTyped, Begins
    <3>3. browser'[b].cookie = browser[b].cookie /\ browser'[b].code = x
      BY <1>1, <2>2 DEF IInv, PagesTyped, Pages
    <3>4. BrowserOK(b)
      BY <1>1 DEF IInv
    <3>5. BrowserOK(b)'
      BY <1>5, <3>2, <3>3, <3>4 DEF BrowserOK, BegunStay, Stays
    <3> QED BY <1>5, <3>1, <3>5, PageStaysOK
  <2> QED BY <1>3, <2>1, <2>2
<1> QED BY <1>4, <1>5, <1>6, <1>7, <1>8, <1>9 DEF IInv

\* The page asks for the ticket it shows.
LEMMA PollKeeps ==
  ASSUME IInv, NEW r \in Requests, NEW b \in Browsers, Poll(r, b)
  PROVE  IInv'
<1> USE DEF Poll, Shows, Arrives
<1>1. TicketsTyped'
  BY DEF IInv, TicketsTyped
<1>2. SessionsTyped'
  BY DEF IInv, SessionsTyped
<1>3. PagesTyped'
  BY DEF IInv, PagesTyped, Pages
<1>4. RequestsTyped'
  <2>1. browser[b].code \in Tickets \cup {NoTicket}
    BY DEF IInv, PagesTyped, Pages
  <2> QED BY <2>1 DEF IInv, RequestsTyped, Steps
<1>5. \A y \in Tickets : TicketOK(y)'
  BY DEF IInv, TicketOK
<1>6. \A q \in Requests : RequestOK(q)'
  BY DEF IInv, RequestsTyped, RequestOK, BrowserOK, Redirecting, Redeemed, Polling
<1>7. Alone'
  BY DEF IInv, RequestsTyped, Alone, Redeemed
<1>8. \A c \in Browsers : BrowserOK(c)'
  BY DEF IInv, PagesTyped, BrowserOK
<1> QED BY <1>1, <1>2, <1>3, <1>4, <1>5, <1>6, <1>7, <1>8 DEF IInv

\* The row is looked at before GitHub is asked.
LEMMA CheckCodeKeeps ==
  ASSUME IInv, NEW r \in Requests, CheckCode(r)
  PROVE  IInv'
<1> USE DEF CheckCode, Answers, Shows, Continues, Ends
<1>0. request[r].ticket \in Tickets /\ request[r].from \in Browsers
  BY DEF IInv, RequestOK, RequestsTyped, Redirecting, Polling
<1>1. TicketsTyped'
  BY <1>0 DEF IInv, TicketsTyped
<1>2. SessionsTyped'
  BY <1>0 DEF IInv, SessionsTyped
<1>3. PagesTyped'
  BY <1>0 DEF IInv, PagesTyped, Pages
<1>4. RequestsTyped'
  BY <1>0 DEF IInv, RequestsTyped, Steps
<1>5. \A y \in Tickets : TicketOK(y)'
  BY <1>0 DEF IInv, TicketOK
<1>6. \A q \in Requests : RequestOK(q)'
  BY <1>0 DEF IInv, RequestsTyped, RequestOK, Redirecting, Redeemed, Polling
<1>7. Alone'
  BY <1>0 DEF IInv, RequestsTyped, Alone, Redeemed
<1>8. \A c \in Browsers : BrowserOK(c)'
  <2>1. BegunStay
    BY DEF BegunStay, Stays
  <2>2. \A c \in Browsers : PageStays(c)
    BY <1>0, AnswerStays DEF IInv, PageStays, CheckCode
  <2> QED BY <2>1, <2>2, PageStaysOK
<1> QED BY <1>1, <1>2, <1>3, <1>4, <1>5, <1>6, <1>7, <1>8 DEF IInv

\* GitHub is asked for a device code.
LEMMA AskGitHubKeeps ==
  ASSUME IInv, NEW r \in Requests, AskGitHub(r)
  PROVE  IInv'
<1> USE DEF AskGitHub, Answers, Shows, Continues, Ends
<1>0. request[r].ticket \in Tickets /\ request[r].from \in Browsers
  BY DEF IInv, RequestOK, RequestsTyped, Redirecting, Polling
<1>1. TicketsTyped'
  BY <1>0 DEF IInv, TicketsTyped
<1>2. SessionsTyped'
  BY <1>0 DEF IInv, SessionsTyped
<1>3. PagesTyped'
  BY <1>0 DEF IInv, PagesTyped, Pages
<1>4. RequestsTyped'
  BY <1>0 DEF IInv, RequestsTyped, Steps
<1>5. \A y \in Tickets : TicketOK(y)'
  BY <1>0 DEF IInv, TicketOK
<1>6. \A q \in Requests : RequestOK(q)'
  BY <1>0 DEF IInv, RequestsTyped, RequestOK, Redirecting, Redeemed, Polling
<1>7. Alone'
  BY <1>0 DEF IInv, RequestsTyped, Alone, Redeemed
<1>8. \A c \in Browsers : BrowserOK(c)'
  <2>1. BegunStay
    BY DEF BegunStay, Stays
  <2>2. \A c \in Browsers : PageStays(c)
    BY <1>0, AnswerStays DEF IInv, PageStays, AskGitHub
  <2> QED BY <2>1, <2>2, PageStaysOK
<1> QED BY <1>1, <1>2, <1>3, <1>4, <1>5, <1>6, <1>7, <1>8 DEF IInv

\* The session of a device code, in the transaction that spends its row.
LEMMA CompleteKeeps ==
  ASSUME IInv, NEW r \in Requests, Complete(r)
  PROVE  IInv'
<1>0. PICK x : x = request[r].ticket
  OBVIOUS
<1>1. x \in Tickets /\ request[r].from \in Browsers
  BY <1>0 DEF IInv, RequestOK, RequestsTyped, Complete, Polling
<1>2. ticket[x].kind = "device" /\ ticket[x].verdict = "approved"
  BY <1>0 DEF IInv, RequestOK, Complete, Polling
<1>3. \/ ticket[x].row = "open" /\ Spend(x) /\ CreateSession(x)
      \/ UNCHANGED <<ticket, sessions>>
  BY <1>0 DEF Complete
<1>4. Continues(r, "none") /\ (Answers(r, "in") \/ Answers(r, "rest"))
  BY DEF Complete, Answers, Ends
<1>5. \A y \in Tickets : Stays(y)
  <2>1. CASE Spend(x)
    BY <1>1, <1>2, <2>1, SpentStays DEF IInv
  <2>2. CASE UNCHANGED ticket
    BY <2>2 DEF Stays
  <2> QED BY <1>3, <2>1, <2>2
<1>6. TicketsTyped'
  BY <1>1, <1>3 DEF IInv, TicketsTyped, TicketRows, Spend
<1>7. SessionsTyped' /\ \A y \in Tickets \ {x} : sessions'[y] = sessions[y]
  BY <1>1, <1>3 DEF IInv, SessionsTyped, CreateSession
<1>8. RequestsTyped' /\ request'[r].step = "none"
      /\ \A q \in Requests \ {r} : request'[q] = request[q]
  BY <1>4 DEF IInv, RequestsTyped, Steps, Continues
<1>9. PagesTyped'
  BY <1>1, <1>4 DEF IInv, PagesTyped, Pages, Answers, Shows
<1>10. \A y \in Tickets : TicketOK(y)'
  <2>1. CASE ticket[x].row = "open" /\ Spend(x) /\ CreateSession(x)
    <3>1. sessions[x] = 0
      BY <1>1, <2>1 DEF IInv, SessionsTyped, TicketOK
    <3>2. sessions'[x] = 1
      BY <1>1, <2>1, <3>1 DEF IInv, SessionsTyped, CreateSession
    <3>3. ticket'[x].row = "spent"
      BY <1>1, <2>1 DEF IInv, TicketsTyped, Spend
    <3>4. TicketOK(x)'
      BY <1>1, <1>2, <1>5, <3>2, <3>3 DEF TicketOK, Stays
    <3> QED BY <1>5, <1>7, <3>4, TicketStaysOK
  <2>2. CASE UNCHANGED <<ticket, sessions>>
    BY <1>5, <2>2, TicketStaysOK
  <2> QED BY <1>3, <2>1, <2>2
<1>11. \A q \in Requests : RequestOK(q)'
  <2>1. RequestOK(r)'
    BY <1>8 DEF RequestOK, Redirecting, Redeemed, Polling
  <2>2. ASSUME NEW q \in Requests \ {r}, request[q].step \in Redeemed
        PROVE  sessions'[request[q].ticket] = sessions[request[q].ticket]
    <3>1. request[q].ticket \in Tickets /\ ticket[request[q].ticket].kind = "redirect"
      BY <2>2 DEF IInv, RequestOK, Redirecting, Redeemed
    <3> QED BY <1>2, <1>7, <3>1
  <2> QED BY <1>5, <1>8, <2>1, <2>2, RequestStaysOK DEF BegunStay
<1>12. Alone'
  BY <1>8 DEF IInv, Alone, Redeemed
<1>13. \A c \in Browsers : BrowserOK(c)'
  BY <1>1, <1>4, <1>5, AnswerStays, PageStaysOK DEF IInv, BegunStay
<1> QED BY <1>6, <1>7, <1>8, <1>9, <1>10, <1>11, <1>12, <1>13 DEF IInv

\* The user decides once.
LEMMA DecideKeeps ==
  ASSUME IInv, NEW x \in Tickets, Decide(x)
  PROVE  IInv'
<1> USE DEF Decide
<1>1. TicketsTyped'
  BY DEF IInv, TicketsTyped, TicketRows
<1>2. SessionsTyped'
  BY DEF IInv, SessionsTyped
<1>3. PagesTyped'
  BY DEF IInv, PagesTyped
<1>4. RequestsTyped'
  BY DEF IInv, RequestsTyped
<1>5. \A y \in Tickets : TicketOK(y)'
  BY DEF IInv, TicketsTyped, TicketOK
<1>6. \A q \in Requests : RequestOK(q)'
  BY DEF IInv, TicketsTyped, RequestOK, Redirecting, Redeemed, Polling
<1>7. Alone'
  BY DEF IInv, Alone
<1>8. \A c \in Browsers : BrowserOK(c)'
  BY DEF IInv, TicketsTyped, BrowserOK
<1> QED BY <1>1, <1>2, <1>3, <1>4, <1>5, <1>6, <1>7, <1>8 DEF IInv

\* A ticket expires.
LEMMA ExpireKeeps ==
  ASSUME IInv, NEW x \in Tickets, Expire(x)
  PROVE  IInv'
<1> USE DEF Expire
<1>1. TicketsTyped'
  BY DEF IInv, TicketsTyped, TicketRows
<1>2. SessionsTyped'
  BY DEF IInv, SessionsTyped
<1>3. PagesTyped'
  BY DEF IInv, PagesTyped
<1>4. RequestsTyped'
  BY DEF IInv, RequestsTyped
<1>5. \A y \in Tickets : TicketOK(y)'
  BY DEF IInv, TicketsTyped, TicketOK
<1>6. \A q \in Requests : RequestOK(q)'
  BY DEF IInv, TicketsTyped, RequestOK, Redirecting, Redeemed, Polling
<1>7. Alone'
  BY DEF IInv, Alone
<1>8. \A c \in Browsers : BrowserOK(c)'
  BY DEF IInv, TicketsTyped, BrowserOK
<1> QED BY <1>1, <1>2, <1>3, <1>4, <1>5, <1>6, <1>7, <1>8 DEF IInv

\* An expired redirect's row is deleted.
LEMMA PurgeKeeps ==
  ASSUME IInv, NEW x \in Tickets, Purge(x)
  PROVE  IInv'
<1> USE DEF Purge, Spend
<1>1. TicketsTyped'
  BY DEF IInv, TicketsTyped, TicketRows
<1>2. SessionsTyped'
  BY DEF IInv, SessionsTyped
<1>3. PagesTyped'
  BY DEF IInv, PagesTyped
<1>4. RequestsTyped'
  BY DEF IInv, RequestsTyped
<1>5. \A y \in Tickets : TicketOK(y)'
  BY DEF IInv, TicketsTyped, TicketOK
<1>6. \A q \in Requests : RequestOK(q)'
  BY DEF IInv, TicketsTyped, RequestOK, Redirecting, Redeemed, Polling
<1>7. Alone'
  BY DEF IInv, Alone
<1>8. \A c \in Browsers : BrowserOK(c)'
  BY DEF IInv, TicketsTyped, BrowserOK
<1> QED BY <1>1, <1>2, <1>3, <1>4, <1>5, <1>6, <1>7, <1>8 DEF IInv

\* Every step keeps the invariant.
LEMMA NextKeeps == IInv /\ [SignInNext]_signInVars => IInv'
<1> SUFFICES ASSUME IInv, [SignInNext]_signInVars PROVE IInv'
  OBVIOUS
<1>1. CASE UNCHANGED signInVars
  BY <1>1 DEF IInv, TicketsTyped, SessionsTyped, PagesTyped, RequestsTyped, TicketOK,
         RequestOK, Alone, BrowserOK, signInVars
<1> QED
  BY <1>1, LoginKeeps, CloseDialogKeeps, CallbackKeeps, RedeemKeeps, ExchangeKeeps,
     WelcomeKeeps, AskForCodeKeeps, GiveCodeKeeps, PollKeeps, CheckCodeKeeps,
     AskGitHubKeeps, CompleteKeeps, DecideKeeps, ExpireKeeps, PurgeKeeps DEF SignInNext
-----------------------------------------------------------------------------
(* The theorems of SignIn *)

\* The invariant holds for any number of browsers, overlapping requests and sign-ins.
THEOREM SignInInvariance == SignInSpec => []IInv
BY InitIInv, NextKeeps, PTL DEF SignInSpec

\* The variables have their types.
THEOREM SignInTypeCorrect == SignInSpec => []SignInTypeOK
<1>1. IInv => SignInTypeOK
  BY DEF IInv, TicketsTyped, SessionsTyped, PagesTyped, RequestsTyped, SignInTypeOK
<1> QED BY <1>1, SignInInvariance, PTL

\* A sign-in yields one session, for the browser that began it: however requests that
\* arrive twice overlap while GitHub is asked, and whatever expires or is purged then.
THEOREM SignsInOnce == SignInSpec => []OneSessionPerSignIn
<1>1. IInv => OneSessionPerSignIn
  BY DEF IInv, TicketOK, RequestOK, OneSessionPerSignIn, Redirecting, Polling
<1> QED BY <1>1, SignInInvariance, PTL
-----------------------------------------------------------------------------
(* The rate limiter *)

\* How many recorded calls were forgotten: the deque is what follows them.
Forgotten == Len(history) - Len(bucket)

\* The deque holds the readings of the last recorded calls, in the order of their appends,
\* which need not be that of their readings.
Remembers ==
  /\ Len(bucket) <= Len(history)
  /\ \A i \in 1..Len(bucket) : bucket[i] = history[Forgotten + i].read

\* Every reading is older than its append, the appends follow one another.
Chronicle ==
  /\ \A k \in 1..Len(history) : history[k].read <= history[k].at /\ history[k].at <= time
  /\ \A j, k \in 1..Len(history) : j <= k => history[j].at <= history[k].at
  /\ \A c \in Callers : now[c] <= time

\* A caller that is about to count, or was refused, left the loop: what the deque holds
\* was recorded in its window, whatever the readings say.
Counted ==
  \A c \in Callers : hitting[c] = "count" =>
    \A k \in (Forgotten + 1)..Len(history) : k \in RecordedFor(c)

LimiterInv == LimiterTypeOK /\ Remembers /\ Chronicle /\ Counted /\ RefusalsAreDue

LEMMA LimiterTypes ==
  ASSUME LimiterTypeOK
  PROVE  /\ Len(bucket) \in Nat /\ DOMAIN bucket = 1..Len(bucket)
         /\ Len(history) \in Nat /\ DOMAIN history = 1..Len(history)
         /\ \A k \in 1..Len(history) : history[k].read \in Nat /\ history[k].at \in Nat
         /\ \A i \in 1..Len(bucket) : bucket[i] \in Nat
         /\ \A c \in Callers : now[c] \in Nat
         /\ time \in Nat /\ Window \in Nat \ {0} /\ Limit \in Nat \ {0}
         /\ Forgotten \in Int
<1>1. bucket \in Seq(Nat) /\ history \in Seq([read : Nat, at : Nat])
  BY DEF LimiterTypeOK
<1> DEFINE Entry == [read : Nat, at : Nat]
<1>2. \A e \in Entry : e.read \in Nat /\ e.at \in Nat
  OBVIOUS
<1>3. history \in Seq(Entry)
  BY <1>1
<1> HIDE DEF Entry
<1>4. /\ Len(history) \in Nat /\ DOMAIN history = 1..Len(history)
      /\ \A k \in 1..Len(history) : history[k] \in Entry
  BY <1>3
<1>5. /\ Len(bucket) \in Nat /\ DOMAIN bucket = 1..Len(bucket)
      /\ \A i \in 1..Len(bucket) : bucket[i] \in Nat
  BY <1>1
<1> QED BY <1>2, <1>4, <1>5, LimiterAssumption DEF LimiterTypeOK, Forgotten

LEMMA RecordedIsFinite ==
  ASSUME LimiterTypeOK, NEW c \in Callers
  PROVE  IsFiniteSet(RecordedFor(c)) /\ Cardinality(RecordedFor(c)) \in Nat
<1>1. 1 \in Int /\ Len(history) \in Int
  BY LimiterTypes
<1>2. IsFiniteSet(1..Len(history))
  BY <1>1, FS_Interval
<1>3. RecordedFor(c) \subseteq 1..Len(history)
  BY LimiterTypes DEF RecordedFor
<1> QED BY <1>2, <1>3, FS_Subset, FS_CardinalityType

LEMMA RecordedStaysFinite ==
  ASSUME LimiterTypeOK', NEW c \in Callers
  PROVE  IsFiniteSet(RecordedFor(c)') /\ Cardinality(RecordedFor(c)') \in Nat
<1>1. DOMAIN history' = 1..Len(history') /\ Len(history') \in Nat
  <2> DEFINE Entry == [read : Nat, at : Nat]
  <2>1. history' \in Seq(Entry)
    BY DEF LimiterTypeOK
  <2> HIDE DEF Entry
  <2> QED BY <2>1
<1>2. 1 \in Int /\ Len(history') \in Int
  BY <1>1
<1>3. IsFiniteSet(1..Len(history'))
  BY <1>2, FS_Interval
<1>4. RecordedFor(c)' \subseteq 1..Len(history')
  BY <1>1 DEF RecordedFor
<1> QED BY <1>3, <1>4, FS_Subset, FS_CardinalityType

\* The calls a caller counts are as many calls of its window.
LEMMA CountedWereRecorded ==
  ASSUME LimiterInv, NEW c \in Callers, hitting[c] = "count"
  PROVE  Cardinality(RecordedFor(c)) >= Len(bucket)
<1> DEFINE kept == (Forgotten + 1)..Len(history)
<1>1. LimiterTypeOK /\ kept \subseteq RecordedFor(c)
  BY DEF LimiterInv, Counted
<1>2. /\ Forgotten + 1 \in Int /\ Len(history) \in Int /\ Len(bucket) \in Nat
      /\ Len(history) - (Forgotten + 1) + 1 = Len(bucket)
  BY <1>1, LimiterTypes DEF Forgotten
<1>3. Cardinality(kept) = IF Forgotten + 1 > Len(history) THEN 0
                          ELSE Len(history) - (Forgotten + 1) + 1
  BY <1>2, FS_Interval
<1>4. Cardinality(kept) = Len(bucket)
  BY <1>2, <1>3
<1>5. Cardinality(kept) <= Cardinality(RecordedFor(c))
  BY <1>1, RecordedIsFinite, FS_Subset
<1> HIDE DEF kept
<1> QED BY <1>1, <1>2, <1>4, <1>5, RecordedIsFinite

\* While a caller is refused its window only gains calls.
LEMMA RefusalsStay ==
  ASSUME LimiterInv, LimiterTypeOK', NEW c \in Callers, hitting[c] = "refused", now'[c] = now[c],
         RecordedFor(c) \subseteq RecordedFor(c)'
  PROVE  Cardinality(RecordedFor(c)') >= Limit
<1>1. Cardinality(RecordedFor(c)) >= Limit /\ Cardinality(RecordedFor(c)) \in Nat
  BY RecordedIsFinite DEF LimiterInv, RefusalsAreDue
<1>2. IsFiniteSet(RecordedFor(c)') /\ Cardinality(RecordedFor(c)') \in Nat
  BY RecordedStaysFinite
<1>3. Cardinality(RecordedFor(c)) <= Cardinality(RecordedFor(c)')
  BY <1>2, FS_Subset
<1> QED BY <1>1, <1>2, <1>3, LimiterAssumption

LEMMA LimiterBegins == LimiterInit => LimiterInv
<1> SUFFICES ASSUME LimiterInit PROVE LimiterInv
  OBVIOUS
<1>1. LimiterTypeOK
  BY DEF LimiterInit, LimiterTypeOK
<1>2. Len(bucket) = 0 /\ Len(history) = 0 /\ 1..0 = {} /\ (0 + 1)..0 = {}
  BY DEF LimiterInit
<1> QED BY <1>1, <1>2 DEF LimiterInv, LimiterInit, Remembers, Chronicle, Counted,
                          RefusalsAreDue, Forgotten

\* A step of hit() before the count.
LEMMA ReadingKeeps ==
  ASSUME LimiterInv, NEW c \in Callers, Call(c) \/ LookForCalls(c) \/ PeekAtOldest(c)
  PROVE  LimiterInv'
<1>1. UNCHANGED <<time, bucket, history>> /\ LimiterTypeOK
  BY DEF Call, LookForCalls, PeekAtOldest, LimiterInv
<1>2. LimiterTypeOK'
  BY <1>1 DEF Call, LookForCalls, PeekAtOldest, Proceed, LimiterTypeOK, HitSteps
<1>3. Remembers' /\ Chronicle'
  BY <1>1, LimiterTypes
     DEF Call, LookForCalls, PeekAtOldest, LimiterInv, LimiterTypeOK, Remembers, Chronicle, Forgotten
<1>4. ASSUME NEW d \in Callers, hitting'[d] = "count",
             NEW k \in (Forgotten + 1)..Len(history)
      PROVE  history[k].at > now'[d] - Window
  <2>1. CASE hitting[d] = "count" /\ now'[d] = now[d]
    BY <1>4, <2>1 DEF LimiterInv, Counted, RecordedFor
  <2>2. CASE d = c /\ now' = now /\ bucket = << >>
    BY <1>1, <2>2, LimiterTypes DEF Forgotten
  <2>3. CASE d = c /\ now' = now /\ bucket # << >> /\ ~(bucket[1] <= now[c] - Window)
    <3>1. Len(bucket) > 0 /\ 1 \in 1..Len(bucket)
      BY <1>1, <2>3, LimiterTypes DEF LimiterTypeOK
    <3>2. /\ Forgotten + 1 \in 1..Len(history) /\ k \in 1..Len(history) /\ Forgotten + 1 <= k
          /\ bucket[1] = history[Forgotten + 1].read
      BY <1>1, <3>1, LimiterTypes DEF LimiterInv, Remembers, Forgotten
    <3>3. /\ history[Forgotten + 1].read <= history[Forgotten + 1].at
          /\ history[Forgotten + 1].at <= history[k].at
      BY <3>2 DEF LimiterInv, Chronicle
    <3> QED BY <1>1, <2>3, <3>1, <3>2, <3>3, LimiterTypes
  <2> QED BY <1>1, <1>4, <2>1, <2>2, <2>3
          DEF Call, LookForCalls, PeekAtOldest, Proceed, LimiterTypeOK, InHit, HitSteps
<1>5. Counted'
  <2>1. ASSUME NEW d \in Callers, hitting'[d] = "count",
               NEW k \in (Forgotten' + 1)..Len(history')
        PROVE  k \in DOMAIN history' /\ history'[k].at > now'[d] - Window
    <3>1. Forgotten' = Forgotten /\ Forgotten \in Nat /\ Len(history) \in Nat
      BY <1>1, LimiterTypes DEF Forgotten, LimiterInv, Remembers
    <3>2. k \in (Forgotten + 1)..Len(history) /\ k \in 1..Len(history)
      BY <1>1, <2>1, <3>1
    <3>3. DOMAIN history' = 1..Len(history)
      BY <1>1, LimiterTypes
    <3> QED BY <1>1, <1>4, <2>1, <3>2, <3>3
  <2> QED BY <2>1 DEF Counted, RecordedFor
<1>6. RefusalsAreDue'
  <2>1. ASSUME NEW d \in Callers, hitting'[d] = "refused"
        PROVE  hitting[d] = "refused" /\ now'[d] = now[d]
    BY <1>1, <2>1 DEF Call, LookForCalls, PeekAtOldest, Proceed, LimiterTypeOK
  <2>2. ASSUME NEW d \in Callers, now'[d] = now[d]
        PROVE  RecordedFor(d) \subseteq RecordedFor(d)'
    BY <1>1, <2>2 DEF RecordedFor
  <2> QED BY <1>2, <2>1, <2>2, RefusalsStay DEF RefusalsAreDue
<1> QED BY <1>2, <1>3, <1>5, <1>6 DEF LimiterInv

\* The answer of a refused call.
LEMMA CountingKeeps ==
  ASSUME LimiterInv, NEW c \in Callers, CountCalls(c)
  PROVE  LimiterInv'
<1>1. UNCHANGED <<time, now, bucket, history>> /\ LimiterTypeOK
  BY DEF CountCalls, LimiterInv
<1>2. LimiterTypeOK'
  BY <1>1 DEF CountCalls, Proceed, LimiterTypeOK, HitSteps
<1>3. Remembers' /\ Chronicle' /\ \A d \in Callers : RecordedFor(d)' = RecordedFor(d)
  BY <1>1 DEF LimiterInv, Remembers, Chronicle, Forgotten, RecordedFor
<1>4. Counted'
  BY <1>1, <1>3 DEF CountCalls, Proceed, LimiterTypeOK, LimiterInv, Counted, Forgotten
<1>5. RefusalsAreDue'
  <2>1. ASSUME NEW d \in Callers, hitting'[d] = "refused"
        PROVE  Cardinality(RecordedFor(d)) >= Limit
    <3>1. CASE hitting[d] = "refused"
      BY <3>1 DEF LimiterInv, RefusalsAreDue
    <3>2. CASE d = c /\ Len(bucket) >= Limit
      <4>1. Cardinality(RecordedFor(c)) >= Len(bucket) /\ Cardinality(RecordedFor(c)) \in Nat
        BY <1>1, CountedWereRecorded, RecordedIsFinite DEF CountCalls
      <4> QED BY <1>1, <3>2, <4>1, LimiterTypes
    <3> QED BY <1>1, <2>1, <3>1, <3>2 DEF CountCalls, Proceed, LimiterTypeOK
  <2> QED BY <1>3, <2>1 DEF RefusalsAreDue
<1> QED BY <1>2, <1>3, <1>4, <1>5 DEF LimiterInv

\* What goes is the head of the deque, or nothing.
LEMMA ForgetKeeps ==
  ASSUME LimiterInv, NEW c \in Callers, Forget(c)
  PROVE  LimiterInv'
<1>1. /\ UNCHANGED <<time, now, history>> /\ LimiterTypeOK
      /\ \A d \in Callers : hitting'[d] \in {"count", "refused"} => hitting[d] = hitting'[d]
      /\ hitting' \in [Callers -> HitSteps \cup {"away", "refused"}]
  BY DEF Forget, Proceed, LimiterInv, LimiterTypeOK, HitSteps
<1>2. /\ Len(bucket) \in Nat /\ Len(history) \in Nat /\ Forgotten \in Int
      /\ bucket \in Seq(Nat) /\ Forgotten = Len(history) - Len(bucket)
      /\ Len(bucket) <= Len(history)
  BY <1>1, LimiterTypes DEF LimiterInv, LimiterTypeOK, Remembers, Forgotten
<1>3. \/ UNCHANGED bucket
      \/ /\ bucket # << >> /\ bucket' = Tail(bucket) /\ bucket' \in Seq(Nat)
         /\ Len(bucket) > 0 /\ Len(bucket') = Len(bucket) - 1
         /\ \A i \in 1..Len(bucket') : bucket'[i] = bucket[i + 1]
  <2>1. CASE bucket = << >>
    BY <2>1 DEF Forget
  <2>2. CASE bucket # << >>
    <3>1. bucket' = Tail(bucket)
      BY <2>2 DEF Forget
    <3>2. bucket' \in Seq(Nat) /\ Len(bucket) > 0 /\ Len(bucket') = Len(bucket) - 1
      BY <1>2, <2>2, <3>1
    <3>3. \A i \in 1..Len(bucket') : bucket'[i] = bucket[i + 1]
      BY <1>2, <2>2, <3>1, <3>2
    <3> QED BY <2>2, <3>1, <3>2, <3>3
  <2> QED BY <2>1, <2>2
<1>4. LimiterTypeOK'
  BY <1>1, <1>2, <1>3 DEF LimiterTypeOK
<1>5. Chronicle' /\ \A d \in Callers : RecordedFor(d)' = RecordedFor(d)
  BY <1>1 DEF LimiterInv, Chronicle, RecordedFor
<1>6. Remembers' /\ Forgotten' \in Int /\ Forgotten' >= Forgotten
  <2>1. CASE UNCHANGED bucket
    <3>1. Forgotten' = Forgotten
      BY <1>1, <2>1 DEF Forgotten
    <3>2. Remembers'
      <4>1. Remembers
        BY DEF LimiterInv
      <4>2. bucket' = bucket /\ history' = history
        BY <1>1, <2>1
      <4> QED BY <4>1, <4>2, <3>1 DEF Remembers
    <3> QED BY <1>2, <3>1, <3>2
  <2>2. CASE ~ UNCHANGED bucket
    <3>1. Forgotten' = Forgotten + 1
      <4>1. Len(bucket') = Len(bucket) - 1 /\ Len(history') = Len(history)
        BY <1>1, <1>3, <2>2
      <4> QED BY <1>2, <4>1 DEF Forgotten
    <3>2. ASSUME NEW i \in 1..Len(bucket') PROVE bucket'[i] = history'[Forgotten' + i].read
      <4>1. bucket'[i] = bucket[i + 1] /\ i + 1 \in 1..Len(bucket)
        BY <1>2, <1>3, <2>2
      <4>2. bucket[i + 1] = history[Forgotten + (i + 1)].read
        BY <4>1 DEF LimiterInv, Remembers
      <4>3. Forgotten + (i + 1) = Forgotten' + i
        BY <1>2, <3>1
      <4> QED BY <1>1, <4>1, <4>2, <4>3
    <3>3. Len(bucket') <= Len(history')
      BY <1>1, <1>2, <1>3, <2>2
    <3> QED BY <1>2, <3>1, <3>2, <3>3 DEF Remembers
  <2> QED BY <2>1, <2>2
<1>7. Counted'
  <2>1. ASSUME NEW d \in Callers, hitting'[d] = "count", NEW k \in (Forgotten' + 1)..Len(history')
        PROVE  k \in RecordedFor(d)
    <3>1. hitting[d] = "count"
      BY <1>1, <2>1
    <3>2. /\ Forgotten \in Int /\ Forgotten' \in Int /\ Forgotten' >= Forgotten
          /\ Len(history) \in Int /\ Len(history') = Len(history)
      BY <1>1, <1>2, <1>6
    <3>3. \A f, g, n \in Int : f <= g => (g + 1)..n \subseteq (f + 1)..n
      OBVIOUS
    <3>4. (Forgotten' + 1)..Len(history') \subseteq (Forgotten + 1)..Len(history)
      BY <3>2, <3>3
    <3> QED BY <2>1, <3>1, <3>4 DEF LimiterInv, Counted
  <2> QED BY <1>5, <2>1 DEF Counted
<1>8. RefusalsAreDue'
  BY <1>1, <1>5 DEF LimiterInv, RefusalsAreDue
<1> QED BY <1>4, <1>5, <1>6, <1>7, <1>8 DEF LimiterInv

\* A recorded call joins every window: it is appended now.
LEMMA AdmitKeeps ==
  ASSUME LimiterInv, NEW c \in Callers, AdmitCall(c)
  PROVE  LimiterInv'
<1> DEFINE entry == [read |-> now[c], at |-> time]
           n == Len(history) + 1
<1>1. /\ UNCHANGED <<time, now>> /\ LimiterTypeOK /\ hitting[c] = "admit"
      /\ \A d \in Callers : hitting'[d] \in {"count", "refused"} => hitting[d] = hitting'[d]
      /\ hitting' \in [Callers -> HitSteps \cup {"away", "refused"}]
      /\ bucket' = Append(bucket, now[c]) /\ history' = Append(history, entry)
  BY DEF AdmitCall, Proceed, LimiterInv, LimiterTypeOK, HitSteps
<1>2. entry \in [read : Nat, at : Nat] /\ now[c] \in Nat
  BY <1>1, LimiterTypes
<1>3. /\ bucket' \in Seq(Nat) /\ history' \in Seq([read : Nat, at : Nat])
      /\ Len(bucket') = Len(bucket) + 1 /\ Len(history') = n
      /\ bucket'[Len(bucket) + 1] = now[c] /\ history'[n] = entry
      /\ \A i \in 1..Len(bucket) : bucket'[i] = bucket[i]
      /\ \A k \in 1..Len(history) : history'[k] = history[k]
  BY <1>1, <1>2 DEF LimiterTypeOK
<1>4. LimiterTypeOK'
  BY <1>1, <1>3 DEF LimiterTypeOK
<1>5. /\ Forgotten' = Forgotten /\ Forgotten \in Int /\ Len(bucket) \in Nat /\ Len(history) \in Nat
      /\ Forgotten + (Len(bucket) + 1) = n
  BY <1>1, <1>3, LimiterTypes DEF Forgotten
<1>6. entry.read = now[c] /\ entry.at = time /\ now[c] <= time /\ time \in Nat
  BY <1>1, LimiterTypes DEF LimiterInv, Chronicle
<1> HIDE DEF entry
<1>7. Remembers'
  <2>1. ASSUME NEW i \in 1..Len(bucket') PROVE bucket'[i] = history'[Forgotten' + i].read
    <3>1. CASE i = Len(bucket) + 1
      BY <1>3, <1>5, <1>6, <3>1
    <3>2. CASE i \in 1..Len(bucket)
      <4>1. Forgotten + i \in 1..Len(history)
        BY <1>5, <3>2 DEF LimiterInv, Remembers, Forgotten
      <4> QED BY <1>3, <1>5, <3>2, <4>1 DEF LimiterInv, Remembers
    <3> QED BY <1>3, <1>5, <3>1, <3>2
  <2> QED BY <1>3, <1>5, <2>1 DEF LimiterInv, Remembers
<1>8. Chronicle'
  <2>1. ASSUME NEW k \in 1..n
        PROVE  history'[k].read <= history'[k].at /\ history'[k].at <= time'
    <3>1. CASE k = n
      BY <1>1, <1>3, <1>6, <3>1
    <3>2. CASE k \in 1..Len(history)
      BY <1>1, <1>3, <3>2 DEF LimiterInv, Chronicle
    <3> QED BY <1>5, <3>1, <3>2
  <2>2. ASSUME NEW j \in 1..n, NEW k \in 1..n, j <= k PROVE history'[j].at <= history'[k].at
    <3>1. CASE k = n
      <4>1. history'[n].at = time' 
        BY <1>1, <1>3, <1>6
      <4> QED BY <2>1, <3>1, <4>1
    <3>2. CASE k \in 1..Len(history) /\ j \in 1..Len(history)
      BY <1>3, <2>2, <3>2 DEF LimiterInv, Chronicle
    <3> QED BY <1>5, <2>2, <3>1, <3>2
  <2> QED BY <1>1, <1>3, <2>1, <2>2 DEF LimiterInv, Chronicle
<1>9. ASSUME NEW d \in Callers
      PROVE  n \in RecordedFor(d)' /\ RecordedFor(d) \subseteq RecordedFor(d)'
  <2>1. DOMAIN history' = 1..n /\ DOMAIN history = 1..Len(history)
    BY <1>1, <1>3, <1>4, LimiterTypes
  <2>2. now[d] - Window < time /\ now'[d] = now[d]
    BY <1>1, LimiterTypes DEF LimiterInv, Chronicle
  <2>3. n \in RecordedFor(d)'
    BY <1>3, <1>5, <1>6, <2>1, <2>2 DEF RecordedFor
  <2>4. RecordedFor(d) \subseteq RecordedFor(d)'
    BY <1>3, <1>5, <2>1, <2>2 DEF RecordedFor
  <2> QED BY <2>3, <2>4
<1>10. Counted'
  <2>1. ASSUME NEW d \in Callers, hitting'[d] = "count", NEW k \in (Forgotten' + 1)..Len(history')
        PROVE  k \in RecordedFor(d)'
    <3>1. CASE k = n
      BY <1>9, <3>1
    <3>2. CASE k # n
      <4>1. hitting[d] = "count" /\ k \in (Forgotten + 1)..Len(history)
        BY <1>1, <1>3, <1>5, <2>1, <3>2
      <4> QED BY <1>9, <4>1 DEF LimiterInv, Counted
    <3> QED BY <3>1, <3>2
  <2> QED BY <2>1 DEF Counted
<1>11. RefusalsAreDue'
  <2>1. ASSUME NEW d \in Callers, hitting'[d] = "refused"
        PROVE  Cardinality(RecordedFor(d)') >= Limit
    BY <1>1, <1>4, <1>9, <2>1, RefusalsStay
  <2> QED BY <2>1 DEF RefusalsAreDue
<1> QED BY <1>4, <1>7, <1>8, <1>10, <1>11 DEF LimiterInv

\* Time may pass between any two steps of any caller.
LEMMA TimeKeeps == LimiterInv /\ TimePasses => LimiterInv'
<1> SUFFICES ASSUME LimiterInv, TimePasses PROVE LimiterInv'
  OBVIOUS
<1>1. /\ UNCHANGED <<hitting, now, bucket, history>> /\ LimiterTypeOK
      /\ time' = time + 1
  BY DEF TimePasses, LimiterInv
<1>2. time' \in Nat /\ \A x \in Nat : x <= time => x <= time'
  BY <1>1, LimiterTypes
<1>3. LimiterTypeOK'
  BY <1>1, <1>2 DEF LimiterTypeOK
<1>4. Chronicle'
  BY <1>1, <1>2, LimiterTypes DEF LimiterInv, Chronicle
<1> QED BY <1>1, <1>3, <1>4
        DEF LimiterInv, Remembers, Counted, RefusalsAreDue, Forgotten, RecordedFor

LEMMA LimiterGoesOn == LimiterInv /\ [LimiterNext]_limiterVars => LimiterInv'
<1> SUFFICES ASSUME LimiterInv, [LimiterNext]_limiterVars PROVE LimiterInv'
  OBVIOUS
<1>1. CASE UNCHANGED limiterVars
  BY <1>1 DEF limiterVars, LimiterInv, LimiterTypeOK, Remembers, Chronicle, Counted,
              RefusalsAreDue, Forgotten, RecordedFor
<1> QED BY <1>1, ReadingKeeps, CountingKeeps, ForgetKeeps, AdmitKeeps, TimeKeeps
        DEF LimiterNext

\* Types of the limiter's variables, for any number of threads, limit and window.
THEOREM LimiterTypeCorrect == LimiterSpec => []LimiterTypeOK
<1>1. LimiterInv => LimiterTypeOK
  BY DEF LimiterInv
<1> QED BY LimiterBegins, LimiterGoesOn, <1>1, PTL DEF LimiterSpec

\* Nobody is refused for calls that were recorded before its window or were refused
\* themselves, however the threads interleave and however long each of them takes.
THEOREM RefusedIsDue == LimiterSpec => []RefusalsAreDue
<1>1. LimiterInv => RefusalsAreDue
  BY DEF LimiterInv
<1> QED BY LimiterBegins, LimiterGoesOn, <1>1, PTL DEF LimiterSpec
=============================================================================
