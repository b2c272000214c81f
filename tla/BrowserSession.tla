--------------------------- MODULE BrowserSession ---------------------------
(* The session a browser keeps: ApiClient, composed with the accounts of    *)
(* the server.                                                              *)
(*                                                                          *)
(* The tokens live in localStorage, which every tab of the browser shares;  *)
(* a refresh in flight is shared by the requests of one tab.  A request     *)
(* awaits a refresh before it is sent when the access token is about to     *)
(* expire, and again after a 401; when that second refresh fails the tab    *)
(* clears the storage and goes to the sign-in page.                         *)
EXTENDS Accounts

CONSTANTS
    Tab,        \* tabs open on the console, one of them perhaps on the NOC
    Pending     \* requests a tab may have under way at once

VARIABLES
    stored,     \* the "auth" item of localStorage
    inFlight,   \* the refresh a tab awaits: a slot of the server, or its failure
    fetching,   \* what each request of a tab awaits
    trouble     \* a refresh of this session was lost; one a session is the bound

browserVars == <<stored, inFlight, fetching, trouble>>
vars == <<accountVars, browserVars>>

Failed == "failed"

ASSUME BrowserAssumption == {None, Failed} \cap (Slot \cup Tab) = {}

NothingStored == [token |-> 0, access |-> "dead", origin |-> 0]

SignedIn == stored.token # 0

BrowserInit ==
    /\ stored = NothingStored
    /\ inFlight = [t \in Tab |-> None]
    /\ fetching = [t \in Tab |-> [r \in Pending |-> "idle"]]
    /\ trouble = FALSE

-----------------------------------------------------------------------------

\* The token may be revoked before its answer arrives.
Stores(s) ==
    stored' = [token |-> s, access |-> "fresh",
               origin |-> IF session[s].present THEN session[s].origin ELSE s]

Returned(c) == call[c] # NoCall /\ call[c].todo = <<>>

Frees(c) == call' = [call EXCEPT ![c] = NoCall]

ServerRests == UNCHANGED <<user, profile, session, held, issued, crossed, restarts, workload>>

\* The sign-in page saves the tokens it is answered.
SignIn(c) ==
    /\ \E d \in Slot : "tab" \in workload.ops[d]
    /\ ~SignedIn /\ Returned(c) /\ call[c].op \in {"login", "verifyTotp", "inviteEnable"}
    /\ call[c].result # 0
    /\ Stores(call[c].result)
    /\ trouble' = FALSE
    /\ Frees(c) /\ ServerRests
    /\ UNCHANGED <<inFlight, fetching>>

\* logout(): the storage is cleared; the server is not told.
SignOut ==
    /\ SignedIn
    /\ stored' = NothingStored
    /\ fetching' = [t \in Tab |-> [r \in Pending |-> "idle"]]
    /\ UNCHANGED <<accountVars, inFlight, trouble>>

\* The access token nears its end, then reaches it.
AccessAges ==
    /\ SignedIn /\ stored.access # "dead"
    /\ stored' = [stored EXCEPT !.access = IF @ = "fresh" THEN "due" ELSE "dead"]
    /\ UNCHANGED <<accountVars, inFlight, fetching, trouble>>

NeedsRefresh == SignedIn /\ stored.access # "fresh"

\* fetch(): a refresh first if one is due, and shared if one is in flight.
Fetch(t, r) ==
    /\ SignedIn /\ fetching[t][r] = "idle"
    /\ fetching' = [fetching EXCEPT ![t][r] = IF NeedsRefresh THEN "first" ELSE "send"]
    /\ UNCHANGED <<accountVars, stored, inFlight, trouble>>

Accepted == \E u \in User : user[u].present /\ user[u].isActive /\ stored.access # "dead"

Send(t, r) ==
    /\ fetching[t][r] = "send"
    /\ fetching' = [fetching EXCEPT ![t][r] = IF ~SignedIn \/ Accepted THEN "idle" ELSE "again"]
    /\ UNCHANGED <<accountVars, stored, inFlight, trouble>>

Awaiting(t) == \E r \in Pending : fetching[t][r] \in {"first", "again"}

\* Mutant: a refresh in flight is not shared.
StartRefreshUnshared(t, c) ==
    /\ inFlight[t] # Failed /\ SignedIn
    /\ \/ /\ Ready(c, "tab") /\ RefreshToken(c, stored.token)
          /\ inFlight' = [inFlight EXCEPT ![t] = c]
       \/ /\ ~Refreshable(stored.token)
          /\ inFlight' = [inFlight EXCEPT ![t] = Failed]
          /\ UNCHANGED accountVars
    /\ UNCHANGED <<stored, fetching, trouble>>

\* refreshToken(), for a request or for keepAlive(): the server takes the
\* token, refuses it, or is never reached.
StartRefresh(t, c) ==
    /\ inFlight[t] = None /\ SignedIn
    /\ \/ /\ Ready(c, "tab") /\ RefreshToken(c, stored.token)
          /\ inFlight' = [inFlight EXCEPT ![t] = c]
          /\ UNCHANGED trouble
       \/ /\ ~Refreshable(stored.token)
          /\ inFlight' = [inFlight EXCEPT ![t] = Failed]
          /\ UNCHANGED <<accountVars, trouble>>
       \/ /\ ~trouble /\ trouble' = TRUE
          /\ inFlight' = [inFlight EXCEPT ![t] = Failed]
          /\ UNCHANGED accountVars
    /\ UNCHANGED <<stored, fetching>>

Resumed(t) ==
    [r \in Pending |-> CASE fetching[t][r] = "first" -> "send"
                          [] fetching[t][r] = "again" -> "idle"
                          [] OTHER -> fetching[t][r]]

\* The answer of the refresh: its tokens are stored, whatever the storage
\* holds by then, and the requests that awaited it go on.
Refreshed(t) ==
    \E c \in Slot :
        /\ inFlight[t] = c /\ Returned(c) /\ call[c].result # 0
        /\ Stores(call[c].result)
        /\ inFlight' = [inFlight EXCEPT ![t] = None]
        /\ fetching' = [fetching EXCEPT ![t] = Resumed(t)]
        /\ Frees(c) /\ ServerRests
        /\ UNCHANGED trouble

\* The answer is an error, or does not come.
RefreshFails(t) ==
    \E c \in Slot :
        /\ inFlight[t] = c /\ Returned(c)
        /\ \/ call[c].result = 0 /\ UNCHANGED trouble
           \/ ~trouble /\ trouble' = TRUE
        /\ inFlight' = [inFlight EXCEPT ![t] = Failed]
        /\ Frees(c) /\ ServerRests
        /\ UNCHANGED <<stored, fetching>>

\* Requests after a 401 give the session up; the others are sent all the same.
GiveUp(t) ==
    /\ \/ inFlight[t] = Failed
       \/ inFlight[t] = None /\ ~SignedIn /\ Awaiting(t)
    /\ inFlight' = [inFlight EXCEPT ![t] = None]
    /\ IF \E r \in Pending : fetching[t][r] = "again"
       THEN /\ stored' = NothingStored
            /\ fetching' = [fetching EXCEPT ![t] = [r \in Pending |-> "idle"]]
       ELSE /\ fetching' = [fetching EXCEPT ![t] = Resumed(t)]
            /\ UNCHANGED stored
    /\ UNCHANGED <<accountVars, trouble>>

-----------------------------------------------------------------------------

\* The server on its own: the slots a tab awaits are answered to that tab.
OwnSlots == {inFlight[t] : t \in Tab}

ServerStep ==
    /\ \/ \E c \in Slot : Request(c) \/ Statement(c)
       \/ \E c \in Slot \ OwnSlots : Answer(c)
       \/ Clock
    /\ UNCHANGED browserVars

\* A restart cuts the refreshes in flight.
ServerRestart ==
    /\ Restart
    /\ inFlight' = [t \in Tab |-> IF inFlight[t] \in Slot THEN Failed ELSE inFlight[t]]
    /\ trouble' = (trouble \/ \E t \in Tab : inFlight[t] \in Slot)
    /\ UNCHANGED <<stored, fetching>>

TabStep(t) ==
    \/ \E r \in Pending : Fetch(t, r) \/ Send(t, r)
    \/ \E c \in Slot : StartRefresh(t, c)
    \/ Refreshed(t) \/ RefreshFails(t) \/ GiveUp(t)

ConsoleInit == Init /\ BrowserInit

ConsoleNext ==
    \/ ServerStep \/ ServerRestart
    \/ \E c \in Slot : SignIn(c)
    \/ SignOut \/ AccessAges
    \/ \E t \in Tab : TabStep(t)

ConsoleSpec == ConsoleInit /\ [][ConsoleNext]_vars

FairConsole == ConsoleSpec /\ Fairness

-----------------------------------------------------------------------------
(* Properties *)

\* A refresh fails only when the server has no token left of that sign-in, or
\* has switched the account off, unless the network or a restart lost it: the
\* requests and the keep-alive of a tab never take the session from each other.
SessionKept ==
    [][\A t \in Tab : inFlight[t] # Failed /\ inFlight'[t] = Failed /\ ~trouble' =>
         \A s \in Session :
            session[s].present /\ session[s].origin = stored.origin
                => ~user[session[s].user].isActive]_vars
=============================================================================
