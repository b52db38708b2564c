------------------------------- MODULE SignIn -------------------------------
(***************************************************************************)
(* Signing in with GitHub: the /auth/github handlers of app.py, the calls  *)
(* of github.py they make, and the polling of static/app.js.               *)
(*                                                                         *)
(* A ticket is what one sign-in is redeemed by: the state of a redirect    *)
(* (OAuthState) or a device code (DeviceFlow).  Handlers run in a pool of  *)
(* threads; only their transactions are serialized, and what they ask      *)
(* GitHub lies between two of them.  Answers may be lost, a request may    *)
(* arrive twice, and an address copied to another browser.  Nothing is     *)
(* assumed of GitHub about codes it has already given a token for.         *)
(***************************************************************************)
EXTENDS Naturals

CONSTANTS
  Browsers,
  Requests,       \* requests the server works on at a time
  MaxTickets      \* bound: sign-ins begun

ASSUME SignInAssumption == Browsers # {} /\ MaxTickets \in Nat

Tickets == 1..MaxTickets
NoTicket == 0

VARIABLES
  ticket,    \* by ticket: [kind, row, by, expired, verdict]: its row, who began it and
             \* what its user told GitHub
  sessions,  \* by ticket: how many Session rows were created for it
  browser,   \* by browser: [cookie, page, code]: the co4_oauth_state cookie, and where
             \* startDeviceFlow is with which device code
  request    \* by request: [step, from, ticket]: what the server does for it next

signInVars == <<ticket, sessions, browser, request>>

NotBegun(b) ==
  [kind |-> "none", row |-> "none", by |-> b, expired |-> FALSE, verdict |-> "pending"]

SignInInit ==
  LET anyone == CHOOSE b \in Browsers : TRUE IN
  /\ ticket = [x \in Tickets |-> NotBegun(anyone)]
  /\ sessions = [x \in Tickets |-> 0]
  /\ browser = [b \in Browsers |-> [cookie |-> NoTicket, page |-> "rest", code |-> NoTicket]]
  /\ request = [r \in Requests |-> [step |-> "none", from |-> anyone, ticket |-> NoTicket]]

\* Ticket x, the next not yet given out, is given to browser b; its row is inserted.
Begins(x, k, b) ==
  /\ ticket[x].kind = "none" /\ \A y \in 1..(x - 1) : ticket[y].kind # "none"
  /\ ticket' = [ticket EXCEPT ![x] =
       [kind |-> k, row |-> "open", by |-> b, expired |-> FALSE, verdict |-> "pending"]]

Arrives(r, step, b, x) ==
  /\ request[r].step = "none"
  /\ request' = [request EXCEPT ![r] = [step |-> step, from |-> b, ticket |-> x]]
Continues(r, step) == request' = [request EXCEPT ![r].step = step]
Ends(r) == Continues(r, "none")

Spend(x) == ticket' = [ticket EXCEPT ![x].row = "spent"]
CreateSession(x) == sessions' = [sessions EXCEPT ![x] = @ + 1]

-----------------------------------------------------------------------------
(* Redirects to GitHub and back *)

Login(b) ==
  /\ \E x \in Tickets :
       /\ Begins(x, "redirect", b)
       /\ \/ browser' = [browser EXCEPT ![b].cookie = x]
          \/ UNCHANGED browser
  /\ UNCHANGED <<sessions, request>>

\* Any browser may follow the address GitHub redirects to; its cookie is compared.
Callback(r, b) ==
  /\ \E x \in Tickets :
       /\ ticket[x].kind = "redirect" /\ ticket[x].verdict = "approved"
       /\ browser[b].cookie = x
       /\ Arrives(r, "redeem", b, x)
  /\ UNCHANGED <<ticket, sessions, browser>>

Redeem(r) ==
  LET x == request[r].ticket IN
  /\ request[r].step = "redeem"
  /\ \/ /\ ticket[x].row = "open" /\ ~ticket[x].expired
        /\ Spend(x) /\ Continues(r, "exchange")
     \/ /\ ticket[x].row # "open" \/ ticket[x].expired
        /\ Ends(r) /\ UNCHANGED ticket
  /\ UNCHANGED <<sessions, browser>>

\* gateway.exchange and gateway.user
Exchange(r) ==
  /\ request[r].step = "exchange"
  /\ Continues(r, "welcome") \/ Ends(r)
  /\ UNCHANGED <<ticket, sessions, browser>>

Welcome(r) ==
  LET b == request[r].from IN
  /\ request[r].step = "welcome"
  /\ CreateSession(request[r].ticket) /\ Ends(r)
  /\ \/ browser' = [browser EXCEPT ![b].cookie = NoTicket]
     \/ UNCHANGED browser
  /\ UNCHANGED ticket

-----------------------------------------------------------------------------
(* Device codes *)

Shows(b, page) == browser' = [browser EXCEPT ![b].page = page]

\* Request r is answered: its page goes on as said, unless the answer is lost or the
\* page waits for it no longer.
Answers(r, page) ==
  LET b == request[r].from IN
  /\ Ends(r)
  /\ IF browser[b].page = "polling" /\ browser[b].code = request[r].ticket
       THEN Shows(b, page) \/ Shows(b, "rest")
       ELSE UNCHANGED browser

\* startDeviceFlow; the limiter (RateLimiter) may refuse.
AskForCode(r, b) ==
  /\ browser' = [browser EXCEPT ![b].page = "asking", ![b].code = NoTicket]
  /\ Arrives(r, "code", b, NoTicket)
  /\ UNCHANGED <<ticket, sessions>>

\* GitHub gives a code and its row is inserted, or something fails.
GiveCode(r) ==
  LET b == request[r].from IN
  /\ request[r].step = "code" /\ Ends(r)
  /\ \/ \E x \in Tickets :
          /\ Begins(x, "device", b)
          /\ IF browser[b].page = "asking"
               THEN \/ browser' = [browser EXCEPT ![b].page = "waiting", ![b].code = x]
                    \/ Shows(b, "rest")
               ELSE UNCHANGED browser
     \/ UNCHANGED ticket /\ IF browser[b].page = "asking" THEN Shows(b, "rest")
                                                         ELSE UNCHANGED browser
  /\ UNCHANGED sessions

\* The timer of an open page; the same request may arrive more than once.
Poll(r, b) ==
  /\ browser[b].page \in {"waiting", "polling"} /\ Shows(b, "polling")
  /\ Arrives(r, "check", b, browser[b].code)
  /\ UNCHANGED <<ticket, sessions>>

CheckCode(r) ==
  LET x == request[r].ticket IN
  /\ request[r].step = "check"
  /\ \/ /\ ticket[x].row = "open" /\ ~ticket[x].expired
        /\ Continues(r, "ask") /\ UNCHANGED browser
     \/ /\ ticket[x].row # "open" \/ ticket[x].expired
        /\ Answers(r, "rest")
  /\ UNCHANGED <<ticket, sessions>>

\* poll_device_token: authorized; pending or slow_down; denied, expired or an error.
AskGitHub(r) ==
  LET x == request[r].ticket IN
  /\ request[r].step = "ask"
  /\ \/ ticket[x].verdict = "approved" /\ Continues(r, "complete") /\ UNCHANGED browser
     \/ ticket[x].verdict = "pending" /\ Answers(r, "waiting")
     \/ Answers(r, "rest")
  /\ UNCHANGED <<ticket, sessions>>

\* Mutant: the row is not looked at again after GitHub was asked.
CompleteUnchecked(r) ==
  /\ request[r].step = "complete"
  /\ CreateSession(request[r].ticket) /\ Spend(request[r].ticket) /\ Answers(r, "in")

Complete(r) ==
  LET x == request[r].ticket IN
  /\ request[r].step = "complete"
  /\ \/ ticket[x].row = "open" /\ CreateSession(x) /\ Spend(x) /\ Answers(r, "in")
     \/ ticket[x].row # "open" /\ Answers(r, "rest") /\ UNCHANGED <<ticket, sessions>>

\* The dialog is closed.
CloseDialog(b) ==
  /\ browser[b].page \in {"waiting", "polling"} /\ Shows(b, "rest")
  /\ UNCHANGED <<ticket, sessions, request>>

-----------------------------------------------------------------------------
(* The user at GitHub, and time *)

Decide(x) ==
  /\ ticket[x].kind # "none" /\ ticket[x].verdict = "pending"
  /\ \E v \in {"approved", "denied"} : ticket' = [ticket EXCEPT ![x].verdict = v]
  /\ UNCHANGED <<sessions, browser, request>>

Expire(x) ==
  /\ ticket[x].kind # "none" /\ ~ticket[x].expired
  /\ ticket' = [ticket EXCEPT ![x].expired = TRUE]
  /\ UNCHANGED <<sessions, browser, request>>

\* The dispatcher's tick deletes OAuthState rows; device codes stay.
Purge(x) ==
  /\ ticket[x].kind = "redirect" /\ ticket[x].expired /\ ticket[x].row = "open"
  /\ Spend(x)
  /\ UNCHANGED <<sessions, browser, request>>

SignInNext ==
  \/ \E b \in Browsers : Login(b) \/ CloseDialog(b)
  \/ \E r \in Requests, b \in Browsers : Callback(r, b) \/ AskForCode(r, b) \/ Poll(r, b)
  \/ \E r \in Requests :
       \/ Redeem(r) \/ Exchange(r) \/ Welcome(r)
       \/ GiveCode(r) \/ CheckCode(r) \/ AskGitHub(r) \/ Complete(r)
  \/ \E x \in Tickets : Decide(x) \/ Expire(x) \/ Purge(x)

SignInSpec == SignInInit /\ [][SignInNext]_signInVars
-----------------------------------------------------------------------------
(* Properties *)

TicketRows ==
  [kind : {"none", "redirect", "device"}, row : {"none", "open", "spent"}, by : Browsers,
   expired : BOOLEAN, verdict : {"pending", "approved", "denied"}]
Pages ==
  [cookie : Tickets \cup {NoTicket}, page : {"rest", "asking", "waiting", "polling", "in"},
   code : Tickets \cup {NoTicket}]
Steps == {"none", "redeem", "exchange", "welcome", "code", "check", "ask", "complete"}

SignInTypeOK ==
  /\ ticket \in [Tickets -> TicketRows]
  /\ sessions \in [Tickets -> Nat]
  /\ browser \in [Browsers -> Pages]
  /\ request \in
       [Requests -> [step : Steps, from : Browsers, ticket : Tickets \cup {NoTicket}]]

\* "A consumed code cannot be exchanged twice" (docs/github-app.md:59), nor a redirect's
\* state: however often its requests arrive and however they overlap while GitHub is
\* asked, a sign-in its user approved yields one session, for the browser that began it,
\* and none after its row is spent.
OneSessionPerSignIn ==
  /\ \A x \in Tickets : sessions[x] > 0 =>
       sessions[x] = 1 /\ ticket[x].row = "spent" /\ ticket[x].verdict = "approved"
  /\ \A r \in Requests : request[r].step \in {"welcome", "complete"} =>
       request[r].from = ticket[request[r].ticket].by
=============================================================================
