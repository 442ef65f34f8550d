------------------------------ MODULE Accounts ------------------------------
(***************************************************************************)
(* Registration and first login.  register() of auth.service.ts makes an   *)
(* account in Keycloak, gives it a role, sends a mail, opens a Stripe      *)
(* account for a farmer and inserts the User row, one call after the other *)
(* and without undoing anything when one fails.  A login may come at any   *)
(* moment after the first of them: then SyncUserGuard inserts the row from *)
(* the roles in the token, unless it is there.                             *)
(***************************************************************************)
EXTENDS Naturals

CONSTANTS
    People,     \* e-mail addresses; one Keycloak id and one row each
    Tabs,       \* open registration pages
    Calls,      \* bound: authenticated requests under way at once
    None,
    Faults      \* TRUE when requests may die half-way

ASSUME AccountsAssumption ==
    /\ None \notin Tabs /\ None \notin {"FARMER", "RETAILER"}
    /\ Faults \in BOOLEAN

Roles == {"FARMER", "RETAILER"}
Keycloak == [made : BOOLEAN, role : Roles \cup {None}, mailed : BOOLEAN]
User == [role : Roles \cup {None}, stripe : Tabs \cup {None}]
Working == {"find", "create", "role", "mail", "stripe", "link", "insert", "answer"}
Told == {"verify", "onboarding", "refresh", "complete"}
Tab == [pc : {"choose", "form"} \cup Working \cup Told, who : People \cup {None},
        role : Roles \cup {None}, link : Tabs \cup {None}]
Call == [pc : {"idle", "guard", "sync", "insert"}, who : People \cup {None},
         role : Roles \cup {None}]

VARIABLES
    kc,         \* accounts of the Keycloak realm
    row,        \* User rows
    accounts,   \* Stripe accounts: <<the page that opened it, the person>>
    tab,        \* registration pages with the request each waits for
    token,      \* the roles claim of the token a person's browser holds
    call,       \* authenticated requests in the guard, with the token they carry
    lost        \* slots whose latest request died in the guard

vars == <<kc, row, accounts, tab, token, call, lost>>

-----------------------------------------------------------------------------
NoTab == [pc |-> "choose", who |-> None, role |-> None, link |-> None]
NoCall == [pc |-> "idle", who |-> None, role |-> None]
SignedOut == "out"
Exists(p) == row[p].role # None
Who(t) == tab[t].who
At(t, pc) == tab[t].pc = pc
Step(t, pc) == tab' = [tab EXCEPT ![t].pc = pc]

Init ==
    /\ kc = [p \in People |-> [made |-> FALSE, role |-> None, mailed |-> FALSE]]
    /\ row = [p \in People |-> [role |-> None, stripe |-> None]]
    /\ accounts = {}
    /\ tab = [t \in Tabs |-> NoTab]
    /\ token = [p \in People |-> SignedOut]
    /\ call = [c \in Calls |-> NoCall]
    /\ lost = {}

-----------------------------------------------------------------------------
(* The pages.                                                              *)

(* A role is marked on the page auth; its button leads to the form.        *)
RoleButton(t) == At(t, "choose")
HandleSignup(t, r) ==
    /\ RoleButton(t)
    /\ tab' = [tab EXCEPT ![t] = [NoTab EXCEPT !.pc = "form", !.role = r]]
    /\ UNCHANGED <<kc, row, accounts, token, call, lost>>

(* The form, whose button is disabled while a request is under way.        *)
SubmitButton(t) == At(t, "form")
HandleSubmit(t, p) ==
    /\ SubmitButton(t)
    /\ tab' = [tab EXCEPT ![t] = [@ EXCEPT !.pc = "find", !.who = p]]
    /\ UNCHANGED <<kc, row, accounts, token, call, lost>>

(* The answer: a farmer is sent to Stripe, others are told of the mail.    *)
HandleAnswer(t) ==
    /\ At(t, "answer")
    /\ Step(t, IF tab[t].role = "FARMER" /\ tab[t].link # None THEN "onboarding" ELSE "verify")
    /\ UNCHANGED <<kc, row, accounts, token, call, lost>>

(* An error leaves the form open for another try.                          *)
Refuse(t) == tab' = [tab EXCEPT ![t] = [NoTab EXCEPT !.pc = "form", !.role = tab[t].role]]

(* Stripe sends an expired link to the page auth/stripe/refresh, which asks *)
(* for a new one, and a finished one to auth/stripe/complete.              *)
LinkExpires(t) ==
    /\ At(t, "onboarding")
    /\ Step(t, "refresh")
    /\ UNCHANGED <<kc, row, accounts, token, call, lost>>

RefreshOnboardingLink(t) ==
    /\ At(t, "refresh")
    /\ Step(t, "onboarding")
    /\ UNCHANGED <<kc, row, accounts, token, call, lost>>

Onboarded(t) ==
    /\ At(t, "onboarding")
    /\ Step(t, "complete")
    /\ UNCHANGED <<kc, row, accounts, token, call, lost>>

-----------------------------------------------------------------------------
(* register().                                                             *)
FindExisting(t) ==
    /\ At(t, "find")
    /\ IF kc[Who(t)].made THEN Refuse(t) ELSE Step(t, "create")
    /\ UNCHANGED <<kc, row, accounts, token, call, lost>>

(* Keycloak keeps user names unique, whatever two requests found before.   *)
CreateInKeycloak(t) ==
    /\ At(t, "create")
    /\ IF kc[Who(t)].made THEN Refuse(t) /\ UNCHANGED kc
       ELSE Step(t, "role") /\ kc' = [kc EXCEPT ![Who(t)].made = TRUE]
    /\ UNCHANGED <<row, accounts, token, call, lost>>

AssignRole(t) ==
    /\ At(t, "role")
    /\ kc' = [kc EXCEPT ![Who(t)].role = tab[t].role]
    /\ Step(t, "mail")
    /\ UNCHANGED <<row, accounts, token, call, lost>>

SendVerifyEmail(t) ==
    /\ At(t, "mail")
    /\ kc' = [kc EXCEPT ![Who(t)].mailed = TRUE]
    /\ Step(t, IF tab[t].role = "FARMER" THEN "stripe" ELSE "insert")
    /\ UNCHANGED <<row, accounts, token, call, lost>>

CreateAccount(t) ==
    /\ At(t, "stripe")
    /\ accounts' = accounts \cup {<<t, Who(t)>>}
    /\ Step(t, "link")
    /\ UNCHANGED <<kc, row, token, call, lost>>

CreateLink(t) ==
    /\ At(t, "link")
    /\ tab' = [tab EXCEPT ![t] = [@ EXCEPT !.pc = "insert", !.link = t]]
    /\ UNCHANGED <<kc, row, accounts, token, call, lost>>

(* Fault: a row that is there already counts as success.                   *)
InsertOrFind(t) ==
    /\ At(t, "insert")
    /\ Step(t, "answer")
    /\ IF Exists(Who(t)) THEN UNCHANGED row
       ELSE row' = [row EXCEPT ![Who(t)] = [role |-> tab[t].role, stripe |-> tab[t].link]]
    /\ UNCHANGED <<kc, accounts, token, call, lost>>

(* The row is unique by Keycloak id and e-mail: a login that was faster    *)
(* has inserted it, without a Stripe account, and the registration fails.  *)
Insert(t) ==
    /\ At(t, "insert")
    /\ IF Exists(Who(t)) THEN Refuse(t) /\ UNCHANGED row
       ELSE /\ row' = [row EXCEPT ![Who(t)] = [role |-> tab[t].role, stripe |-> tab[t].link]]
            /\ Step(t, "answer")
    /\ UNCHANGED <<kc, accounts, token, call, lost>>

(* A call of Keycloak or Stripe fails or the server dies.  An answer that  *)
(* is lost while the request goes on is another page's submission.         *)
AbortRegister(t) ==
    /\ Faults
    /\ tab[t].pc \in Working
    /\ Refuse(t)
    /\ UNCHANGED <<kc, row, accounts, token, call, lost>>

-----------------------------------------------------------------------------
(* Logins and first requests.                                              *)

(* A login, or the refresh of a token; Keycloak puts in the roles of now.  *)
SignIn(p) ==
    /\ kc[p].made
    /\ token' = [token EXCEPT ![p] = kc[p].role]
    /\ UNCHANGED <<kc, row, accounts, tab, call, lost>>

(* The signIn event posts auth/sync, and every later request passes the    *)
(* same guard.                                                             *)
Request(c, p) ==
    /\ call[c] = NoCall
    /\ token[p] # SignedOut
    /\ call' = [call EXCEPT ![c] = [pc |-> "guard", who |-> p, role |-> token[p]]]
    /\ lost' = lost \ {c}
    /\ UNCHANGED <<kc, row, accounts, tab, token>>

Return(c) == call' = [call EXCEPT ![c] = NoCall]

(* Fault: the guard lets a request without a row pass.                     *)
CanActivatePasses(c) ==
    /\ call[c].pc = "guard"
    /\ Return(c)
    /\ UNCHANGED <<kc, row, accounts, tab, token, lost>>

(* The guard, and then the handler of auth/sync, which finds the row.      *)
CanActivate(c) ==
    /\ call[c].pc = "guard"
    /\ IF Exists(call[c].who) THEN Return(c) ELSE call' = [call EXCEPT ![c].pc = "sync"]
    /\ UNCHANGED <<kc, row, accounts, tab, token, lost>>

SyncUser(c) ==
    /\ call[c].pc = "sync"
    /\ IF Exists(call[c].who) THEN Return(c) ELSE call' = [call EXCEPT ![c].pc = "insert"]
    /\ UNCHANGED <<kc, row, accounts, tab, token, lost>>

(* Fault: a token without a known role makes a retailer.                   *)
SyncInsertDefault(c) ==
    /\ call[c].pc = "insert"
    /\ IF Exists(call[c].who) THEN UNCHANGED row
       ELSE row' = [row EXCEPT ![call[c].who].role =
              IF call[c].role = None THEN "RETAILER" ELSE call[c].role]
    /\ Return(c)
    /\ UNCHANGED <<kc, accounts, tab, token, lost>>

(* A role is required and the Keycloak id is unique: the insert fails on   *)
(* either.                                                                 *)
SyncInsert(c) ==
    /\ call[c].pc = "insert"
    /\ IF Exists(call[c].who) \/ call[c].role = None THEN UNCHANGED row
       ELSE row' = [row EXCEPT ![call[c].who].role = call[c].role]
    /\ Return(c)
    /\ UNCHANGED <<kc, accounts, tab, token, lost>>

AbortCall(c) ==
    /\ Faults
    /\ call[c].pc # "idle"
    /\ Return(c)
    /\ lost' = lost \cup {c}
    /\ UNCHANGED <<kc, row, accounts, tab, token>>

-----------------------------------------------------------------------------
Browse(t) ==
    \/ \E r \in Roles : HandleSignup(t, r)
    \/ \E p \in People : HandleSubmit(t, p)
    \/ HandleAnswer(t) \/ LinkExpires(t) \/ RefreshOnboardingLink(t) \/ Onboarded(t)
Register(t) ==
    \/ FindExisting(t) \/ CreateInKeycloak(t) \/ AssignRole(t) \/ SendVerifyEmail(t)
    \/ CreateAccount(t) \/ CreateLink(t) \/ Insert(t) \/ AbortRegister(t)
Serve(c) == CanActivate(c) \/ SyncUser(c) \/ SyncInsert(c)

Next ==
    \/ \E t \in Tabs : Browse(t) \/ Register(t)
    \/ \E p \in People : SignIn(p) \/ (\E c \in Calls : Request(c, p))
    \/ \E c \in Calls : Serve(c) \/ AbortCall(c)
Spec == Init /\ [][Next]_vars

(* A request that the server has taken up goes on.                         *)
Fairness == \A c \in Calls : WF_vars(Serve(c))
FairSpec == Spec /\ Fairness

-----------------------------------------------------------------------------
TypeOK ==
    /\ kc \in [People -> Keycloak]
    /\ row \in [People -> User]
    /\ accounts \subseteq Tabs \X People
    /\ tab \in [Tabs -> Tab]
    /\ token \in [People -> Roles \cup {None, SignedOut}]
    /\ call \in [Calls -> Call]
    /\ lost \subseteq Calls

(* Whoever inserts the row, registration or sync, from a token issued      *)
(* before or after the role was given: its role is Keycloak's, a Stripe    *)
(* account in it was opened for that farmer, and nobody has two            *)
(* (register() and syncUser() over the unique keys).                       *)
OwnAccount(p) == row[p].stripe # None => row[p].role = "FARMER" /\ <<row[p].stripe, p>> \in accounts
OneAccount(p) == \A t, u \in Tabs : <<t, p>> \in accounts /\ <<u, p>> \in accounts => t = u
RowsAgree ==
    \A p \in People :
        /\ Exists(p) => row[p].role = kc[p].role
        /\ OwnAccount(p) /\ OneAccount(p)

(* What the page says has happened: whoever is told of a mail has an       *)
(* account, a row of the chosen role and the mail, and a farmer at Stripe  *)
(* fills in the account that the row will be paid to, whatever logged in   *)
(* or registered meanwhile (register(): Stripe must come before the insert). *)
ToldIsTrue ==
    \A t \in Tabs : tab[t].pc \in Told =>
        /\ kc[Who(t)].role = tab[t].role /\ kc[Who(t)].mailed
        /\ row[Who(t)] = [role |-> tab[t].role, stripe |-> IF tab[t].role = "FARMER" THEN t ELSE None]

(* A registration that died after Keycloak knew the role, at whatever      *)
(* step, is made good by the next request whose token has the role: it     *)
(* finds or makes the row, whatever races with it and whatever died before, *)
(* unless this very request dies on its way (SyncUserGuard).               *)
FirstRequestSyncs ==
    \A c \in Calls, p \in People :
        (call[c].who = p /\ call[c].role \in Roles) ~> (Exists(p) \/ c \in lost)
=============================================================================
