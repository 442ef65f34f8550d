------------------------------- MODULE Access -------------------------------
(***************************************************************************)
(* Who may come in.  An administrator disables a user, at Keycloak first   *)
(* and then in the row that mirrors it, from a list that shows the change  *)
(* before it is made; the user's browser holds tokens in a cookie that     *)
(* Keycloak renews while the user is enabled.                              *)
(***************************************************************************)
EXTENDS Naturals, FiniteSets

CONSTANTS
    Screens,  \* pages of administrators that list the user
    Calls,    \* toggles of the user under way at once
    Fetches,  \* sessions the user's browser fetches at once
    Failures  \* TRUE when requests and answers may be lost

ASSUME AccessAssumption == Screens # {} /\ Failures \in BOOLEAN

VARIABLES
    keycloak,  \* Keycloak lets the user in
    row,       \* the user's row says so (isEnabled)
    screen,    \* lists of users
    call,      \* requests that enable or disable the user
    cookie,    \* tokens the user's browser keeps
    tab,       \* session the user's tab knows of
    fetch      \* answers the tab waits for

desk == <<screen, call, row>>
browser == <<cookie, tab, fetch>>
accessVars == <<keycloak, desk, browser>>

Tokens == {"none", "good", "due", "error"}
Listings == {"none", "asked", "on", "off"}
Screen == [shown : BOOLEAN, toggling : BOOLEAN, listing : Listings]
Call == [pc : {"idle", "read", "keycloak", "mirror"}, screen : Screens, next : BOOLEAN, alone : BOOLEAN]
FetchState == [pc : {"idle", "asked", "served"}, tokens : Tokens]

NoCall == [pc |-> "idle", screen |-> CHOOSE p \in Screens : TRUE, next |-> TRUE, alone |-> FALSE]
NoFetch == [pc |-> "idle", tokens |-> "none"]
SignedIn == {"good", "due", "error"}

AccessInit ==
    /\ keycloak = TRUE /\ row = TRUE
    /\ screen = [p \in Screens |-> [shown |-> TRUE, toggling |-> FALSE, listing |-> "none"]]
    /\ call = [c \in Calls |-> NoCall]
    /\ cookie = "none" /\ tab = "none"
    /\ fetch = [f \in Fetches |-> NoFetch]

-----------------------------------------------------------------------------
(* The list of users.                                                      *)
Active == {c \in Calls : call[c].pc # "idle"}

ToggleButton(p) == screen[p].listing = "none" /\ ~screen[p].toggling

(* The row is flipped at once, whatever comes of the request.              *)
HandleToggle(p, c) ==
    /\ ToggleButton(p) /\ call[c].pc = "idle"
    /\ screen' = [screen EXCEPT ![p] = [@ EXCEPT !.shown = ~screen[p].shown, !.toggling = TRUE]]
    /\ call' = [d \in Calls |->
                  IF d = c THEN [pc |-> "read", screen |-> p, next |-> ~screen[p].shown, alone |-> Active = {}]
                  ELSE [call[d] EXCEPT !.alone = FALSE]]
    /\ UNCHANGED <<keycloak, row, browser>>

(* One spinner serves all rows: another user's toggle puts it out.         *)
OtherToggled(p) ==
    /\ screen[p].toggling
    /\ screen' = [screen EXCEPT ![p].toggling = FALSE]
    /\ UNCHANGED <<keycloak, row, call, browser>>

UpdateUsersParam(p) ==
    /\ screen[p].listing = "none"
    /\ screen' = [screen EXCEPT ![p].listing = "asked"]
    /\ UNCHANGED <<keycloak, row, call, browser>>

GetUsers(p) ==
    /\ screen[p].listing = "asked"
    /\ screen' = [screen EXCEPT ![p].listing = IF row THEN "on" ELSE "off"]
    /\ UNCHANGED <<keycloak, row, call, browser>>

FetchUsers(p) ==
    /\ screen[p].listing # "none"
    /\ \/ /\ screen[p].listing # "asked"
          /\ screen' = [screen EXCEPT ![p] = [@ EXCEPT !.shown = screen[p].listing = "on", !.listing = "none"]]
       \/ Failures /\ screen' = [screen EXCEPT ![p].listing = "none"]
    /\ UNCHANGED <<keycloak, row, call, browser>>

-----------------------------------------------------------------------------
(* setUserEnabled, and what the page makes of its answer.                  *)
Answered(c, ok) ==
    LET p == call[c].screen IN
    /\ call' = [call EXCEPT ![c] = NoCall]
    /\ screen' = [screen EXCEPT ![p] =
                  [@ EXCEPT !.toggling = FALSE, !.shown = IF ok THEN screen[p].shown ELSE ~call[c].next]]

Load(c) ==
    /\ call[c].pc = "read"
    /\ \/ row = call[c].next /\ Answered(c, TRUE)
       \/ row # call[c].next /\ call' = [call EXCEPT ![c].pc = "keycloak"] /\ UNCHANGED screen
    /\ UNCHANGED <<keycloak, row, browser>>

(* Fault: a refusal of Keycloak's is ignored.                              *)
UpdateKeycloakUnchecked(c) ==
    /\ call[c].pc = "keycloak"
    /\ keycloak' \in {keycloak, call[c].next}
    /\ call' = [call EXCEPT ![c].pc = "mirror"]
    /\ UNCHANGED <<row, screen, browser>>

UpdateKeycloak(c) ==
    /\ call[c].pc = "keycloak"
    /\ keycloak' = call[c].next
    /\ call' = [call EXCEPT ![c].pc = "mirror"]
    /\ UNCHANGED <<row, screen, browser>>

Mirror(c) ==
    /\ call[c].pc = "mirror"
    /\ row' = call[c].next
    /\ Answered(c, TRUE) \/ (Failures /\ Answered(c, FALSE))
    /\ UNCHANGED <<keycloak, browser>>

(* A request dies anywhere, or Keycloak refuses it.                        *)
Abort(c) ==
    /\ Failures /\ call[c].pc # "idle"
    /\ Answered(c, FALSE)
    /\ UNCHANGED <<keycloak, row, browser>>

-----------------------------------------------------------------------------
(* The user's browser.                                                     *)
HandleLogin ==
    /\ cookie = "none" /\ tab = "none" /\ keycloak
    /\ cookie' = "good" /\ tab' = "good"
    /\ UNCHANGED <<keycloak, desk, fetch>>

(* Tokens are due for renewal a minute before they expire.                 *)
Due(t) == IF t = "good" THEN "due" ELSE t
Age ==
    /\ cookie = "good" \/ \E f \in Fetches : fetch[f].tokens = "good"
    /\ cookie' = Due(cookie)
    /\ fetch' = [f \in Fetches |-> [fetch[f] EXCEPT !.tokens = Due(fetch[f].tokens)]]
    /\ UNCHANGED <<keycloak, desk, tab>>

(* Every few minutes, when the window is looked at, before each request.   *)
GetSession(f) ==
    /\ tab # "none" /\ cookie # "none" /\ fetch[f].pc = "idle"
    /\ fetch' = [fetch EXCEPT ![f] = [pc |-> "asked", tokens |-> cookie]]
    /\ UNCHANGED <<keycloak, desk, cookie, tab>>

Served(f, tokens) == fetch' = [fetch EXCEPT ![f] = [pc |-> "served", tokens |-> tokens]]

(* Keycloak renews the tokens of an enabled user, whatever failed before.  *)
RefreshAccessToken(f) ==
    \/ keycloak /\ Served(f, "good")
    \/ (~keycloak \/ Failures) /\ Served(f, "error")

(* Fault: tokens that cannot be renewed are returned as they are.          *)
JwtSilent(f) ==
    /\ fetch[f].pc = "asked"
    /\ IF fetch[f].tokens = "due" /\ ~keycloak THEN Served(f, "due") ELSE RefreshAccessToken(f)
    /\ UNCHANGED <<keycloak, desk, cookie, tab>>

Jwt(f) ==
    /\ fetch[f].pc = "asked"
    /\ IF fetch[f].tokens = "good" THEN Served(f, "good") ELSE RefreshAccessToken(f)
    /\ UNCHANGED <<keycloak, desk, cookie, tab>>

(* The answer sets the cookie, even of a browser that signed out since.    *)
Session(f) ==
    /\ fetch[f].pc = "served"
    /\ cookie' = fetch[f].tokens
    /\ tab' = fetch[f].tokens
    /\ fetch' = [fetch EXCEPT ![f] = NoFetch]
    /\ UNCHANGED <<keycloak, desk>>

SignOut == cookie' = "none" /\ tab' = "none" /\ UNCHANGED <<keycloak, desk, fetch>>
TokenErrorWatcher == tab = "error" /\ SignOut
HandleLogout == tab # "none" /\ SignOut

-----------------------------------------------------------------------------
AccessNext ==
    \/ \E p \in Screens :
          \/ OtherToggled(p) \/ UpdateUsersParam(p) \/ GetUsers(p) \/ FetchUsers(p)
          \/ \E c \in Calls : HandleToggle(p, c)
    \/ \E c \in Calls : Load(c) \/ UpdateKeycloak(c) \/ Mirror(c) \/ Abort(c)
    \/ HandleLogin \/ Age \/ TokenErrorWatcher \/ HandleLogout
    \/ \E f \in Fetches : GetSession(f) \/ Jwt(f) \/ Session(f)
AccessSpec == AccessInit /\ [][AccessNext]_accessVars

(* An open tab fetches its session every few minutes and gets an answer.   *)
AccessFairness ==
    /\ WF_accessVars(Age) /\ WF_accessVars(TokenErrorWatcher)
    /\ \A f \in Fetches : WF_accessVars(GetSession(f) \/ Jwt(f) \/ Session(f))
AccessFairSpec == AccessSpec /\ AccessFairness

-----------------------------------------------------------------------------
AccessTypeOK ==
    /\ keycloak \in BOOLEAN /\ row \in BOOLEAN
    /\ screen \in [Screens -> Screen] /\ call \in [Calls -> Call]
    /\ cookie \in Tokens /\ tab \in Tokens /\ fetch \in [Fetches -> FetchState]

(* However toggles that overlapped or died halfway left Keycloak and the   *)
(* row, a toggle that changes the row and meets no other leaves both as    *)
(* the administrator wanted (setUserEnabled asks Keycloak first).          *)
ToggleAgrees ==
    [][\A c \in Calls :
        call[c].pc = "mirror" /\ call[c].alone /\ row' # row
        => row' = call[c].next /\ keycloak' = row']_accessVars

(* A disabled user with an open tab is signed out of it, or enabled again, *)
(* whatever was under way when the tokens ran out (the jwt callback and    *)
(* the watcher of its error).                                              *)
DisabledIsSignedOut == ~keycloak /\ tab \in SignedIn ~> tab = "none" \/ keycloak
=============================================================================
