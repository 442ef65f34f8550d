--------------------------- MODULE AccountsProofs ---------------------------
(***************************************************************************)
(* What holds of registration for any people, pages and requests.  The     *)
(* argument is who may still write what: Keycloak lets one registration of *)
(* an address pass, only that one gives the role, opens a Stripe account   *)
(* and believes in the row it inserted; a login can only write the role    *)
(* its token got from Keycloak.                                            *)
(***************************************************************************)
EXTENDS Accounts, TLAPS

Made == {"role", "mail", "stripe", "link", "insert", "answer"} \cup Told
Linked == {"insert", "answer"} \cup Told
Past(t) == tab[t].pc \in Made

(* What a page and its request know of Keycloak, Stripe and the row.       *)
Chosen(t) ==
    /\ tab[t].pc # "choose" => tab[t].role \in Roles
    /\ tab[t].pc \notin {"choose", "form"} => Who(t) \in People
    /\ tab[t].pc \in {"stripe", "link"} => tab[t].role = "FARMER"
    /\ tab[t].pc \notin Linked => tab[t].link = None
    /\ tab[t].pc \in Linked => tab[t].link = IF tab[t].role = "FARMER" THEN t ELSE None
InKeycloak(t) ==
    /\ Past(t) => kc[Who(t)].made
    /\ tab[t].pc = "role" => kc[Who(t)].role = None
    /\ Past(t) /\ tab[t].pc # "role" => kc[Who(t)].role = tab[t].role
    /\ Past(t) /\ tab[t].pc \notin {"role", "mail"} => kc[Who(t)].mailed
Opened(t) ==
    tab[t].pc \in {"link"} \cup Linked /\ tab[t].role = "FARMER" => <<t, Who(t)>> \in accounts
Inserted(t) ==
    tab[t].pc \in {"answer"} \cup Told => row[Who(t)] = [role |-> tab[t].role, stripe |-> tab[t].link]

(* One registration of an address gets past Keycloak.                      *)
Mine(t) ==
    Past(t) => \A u \in Tabs : (Past(u) /\ Who(u) = Who(t)) \/ <<u, Who(t)>> \in accounts => u = t

Person(p) ==
    /\ ~kc[p].made => kc[p].role = None
    /\ Exists(p) => row[p].role = kc[p].role
    /\ ~Exists(p) => row[p].stripe = None
    /\ OwnAccount(p) /\ OneAccount(p)
    /\ token[p] \in Roles => kc[p].role = token[p]
    /\ \A t \in Tabs : <<t, p>> \in accounts => kc[p].made

Carries(c) ==
    /\ call[c].pc # "idle" => call[c].who \in People
    /\ call[c].pc # "idle" /\ call[c].role \in Roles => kc[call[c].who].role = call[c].role

Page(t) == Chosen(t) /\ InKeycloak(t) /\ Opened(t) /\ Inserted(t)
IInv ==
    /\ TypeOK
    /\ \A t \in Tabs : Page(t) /\ Mine(t)
    /\ \A p \in People : Person(p)
    /\ \A c \in Calls : Carries(c)

-----------------------------------------------------------------------------
LEMMA AccountsConstants == None \notin Tabs /\ None \notin Roles /\ SignedOut \notin Roles
BY AccountsAssumption DEF Roles, SignedOut

LEMMA InitInv == Init => IInv
BY AccountsConstants DEF Init, IInv, TypeOK, Page, Chosen, InKeycloak, Opened, Inserted, Mine, Past, Made,
   Linked, Told, Working, Person, OwnAccount, OneAccount, Exists, Carries, NoTab, NoCall, Keycloak,
   User, Tab, Call, Who, SignedOut

(* A step of one page that changes nothing else.                           *)
OnlyTab(t) ==
    /\ tab' \in [Tabs -> Tab]
    /\ \A u \in Tabs \ {t} : tab'[u] = tab[u]
    /\ UNCHANGED <<kc, row, accounts, token, call>>
    /\ lost' \subseteq Calls

LEMMA PageStep ==
    ASSUME IInv, NEW t \in Tabs, OnlyTab(t), Page(t)', Past(t)' => Past(t) /\ Who(t)' = Who(t)
    PROVE  IInv'
<1>1. TypeOK'
  BY DEF OnlyTab, IInv, TypeOK
<1>2. \A u \in Tabs : Page(u)'
  BY DEF OnlyTab, IInv, Page, Chosen, InKeycloak, Opened, Inserted, Past, Who
<1>3. \A u \in Tabs : Past(u)' => Past(u) /\ Who(u)' = Who(u)
  BY DEF OnlyTab, Past, Who
<1>4. \A u \in Tabs : Mine(u)'
  BY <1>3 DEF OnlyTab, IInv, Mine
<1>5. \A p \in People : Person(p)'
  BY DEF OnlyTab, IInv, Person, Exists, OwnAccount, OneAccount
<1>6. \A c \in Calls : Carries(c)'
  BY DEF OnlyTab, IInv, Carries
<1>. QED
  BY <1>1, <1>2, <1>4, <1>5, <1>6 DEF IInv

LEMMA RefuseStep ==
    ASSUME IInv, NEW t \in Tabs, Refuse(t), tab[t].pc \in Working,
           UNCHANGED <<kc, row, accounts, token, call>>, lost' \subseteq Calls
    PROVE  IInv'
<1>1. tab'[t] = [pc |-> "form", who |-> None, role |-> tab[t].role, link |-> None]
  BY DEF Refuse, NoTab, IInv, TypeOK
<1>2. tab[t].role \in Roles /\ tab'[t] \in Tab
  BY <1>1 DEF IInv, Page, Chosen, Working, Tab, TypeOK
<1>3. OnlyTab(t)
  BY <1>2 DEF OnlyTab, Refuse, IInv, TypeOK
<1>4. Page(t)' /\ ~Past(t)'
  BY <1>1, <1>2 DEF Page, Chosen, InKeycloak, Opened, Inserted, Past, Made, Linked, Told, Working
<1>. QED
  BY <1>3, <1>4, PageStep

LEMMA BrowseSteps == ASSUME IInv, NEW t \in Tabs, Browse(t) PROVE IInv'
<1>. USE AccountsConstants
<1>1. CASE \E r \in Roles : HandleSignup(t, r)
  <2>1. PICK r \in Roles : tab'[t] = [pc |-> "form", who |-> None, role |-> r, link |-> None]
    BY <1>1 DEF HandleSignup, NoTab, IInv, TypeOK
  <2>2. OnlyTab(t)
    <3>1. tab'[t] \in Tab
      BY <2>1 DEF Tab
    <3>. QED
      BY <1>1, <3>1 DEF HandleSignup, OnlyTab, IInv, TypeOK
  <2>3. Page(t)' /\ ~Past(t)'
    BY <2>1 DEF Page, Chosen, InKeycloak, Opened, Inserted, Past, Made, Linked, Told, Working
  <2>. QED
    BY <2>2, <2>3, PageStep
<1>2. CASE \E p \in People : HandleSubmit(t, p)
  <2>1. PICK p \in People : HandleSubmit(t, p)
    BY <1>2
  <2>2. tab'[t] = [tab[t] EXCEPT !.pc = "find", !.who = p] /\ tab[t].pc = "form"
    BY <2>1 DEF HandleSubmit, SubmitButton, At, IInv, TypeOK
  <2>3. tab[t].link = None
    BY <2>2 DEF IInv, Page, Chosen, Linked, Told
  <2>4. OnlyTab(t)
    <3>0. tab[t] \in Tab
      BY DEF IInv, TypeOK
    <3>1. tab'[t] \in Tab
      BY <2>2, <3>0 DEF Tab, Working
    <3>. QED
      BY <2>1, <3>1 DEF HandleSubmit, OnlyTab, IInv, TypeOK
  <2>5. Page(t)' /\ ~Past(t)'
    <3>1. /\ tab'[t].pc = "find" /\ tab'[t].who = p /\ tab'[t].link = None
          /\ tab'[t].role = tab[t].role /\ tab[t].role \in Roles
      BY <2>2, <2>3 DEF IInv, TypeOK, Tab, Page, Chosen
    <3>. QED
      BY <3>1 DEF Page, Chosen, InKeycloak, Opened, Inserted, Past, Made, Linked, Told, Working, Who
  <2>. QED
    BY <2>4, <2>5, PageStep
<1>3. CASE HandleAnswer(t) \/ LinkExpires(t) \/ RefreshOnboardingLink(t) \/ Onboarded(t)
  <2>1. PICK pc \in Told : tab' = [tab EXCEPT ![t].pc = pc]
    BY <1>3 DEF HandleAnswer, LinkExpires, RefreshOnboardingLink, Onboarded, Step, Told
  <2>2. tab[t].pc \in {"answer"} \cup Told
    BY <1>3 DEF HandleAnswer, LinkExpires, RefreshOnboardingLink, Onboarded, At, Told
  <2>3. tab'[t] = [tab[t] EXCEPT !.pc = pc] /\ tab'[t] \in Tab /\ OnlyTab(t)
    BY <1>3, <2>1 DEF HandleAnswer, LinkExpires, RefreshOnboardingLink, Onboarded, OnlyTab, IInv, TypeOK, Tab
  <2>4. Past(t) /\ Who(t)' = Who(t) /\ UNCHANGED <<kc, row, accounts>>
    BY <2>2, <2>3 DEF Past, Made, Who, OnlyTab, IInv, TypeOK, Tab
  <2>5. Page(t)'
    BY <2>2, <2>3, <2>4 DEF IInv, TypeOK, Tab, Page, Chosen, InKeycloak, Opened, Inserted, Past, Made,
       Linked, Told, Working, Who
  <2>. QED
    BY <2>3, <2>4, <2>5, PageStep
<1>. QED
  BY <1>1, <1>2, <1>3 DEF Browse

(* The steps of register() that only this page sees.                       *)
LEMMA FindStep == ASSUME IInv, NEW t \in Tabs, FindExisting(t) PROVE IInv'
<1>1. CASE kc[Who(t)].made
  BY <1>1, RefuseStep DEF FindExisting, At, Working, IInv, TypeOK
<1>2. CASE ~kc[Who(t)].made
  <2>1. tab'[t] = [tab[t] EXCEPT !.pc = "create"] /\ tab'[t] \in Tab
    BY <1>2 DEF FindExisting, Step, IInv, TypeOK, Tab, Working
  <2>2. OnlyTab(t)
    BY <1>2, <2>1 DEF FindExisting, Step, OnlyTab, IInv, TypeOK
  <2>3. tab[t].pc = "find" /\ tab'[t].pc = "create"
    BY <2>1 DEF FindExisting, At, IInv, TypeOK, Tab
  <2>4. Page(t)' /\ ~Past(t)'
    BY <2>1, <2>3 DEF IInv, TypeOK, Tab, Page, Chosen, InKeycloak, Opened, Inserted, Past, Made, Linked,
       Told, Who
  <2>. QED
    BY <2>2, <2>4, PageStep
<1>. QED
  BY <1>1, <1>2

LEMMA LinkStep == ASSUME IInv, NEW t \in Tabs, CreateLink(t) PROVE IInv'
<1>1. tab'[t] = [tab[t] EXCEPT !.pc = "insert", !.link = t] /\ tab'[t] \in Tab
  BY DEF CreateLink, IInv, TypeOK, Tab, Working
<1>2. OnlyTab(t)
  BY <1>1 DEF CreateLink, OnlyTab, IInv, TypeOK
<1>3. /\ tab[t].pc = "link" /\ tab'[t].pc = "insert" /\ tab'[t].link = t
      /\ tab'[t].role = tab[t].role /\ tab'[t].who = tab[t].who
  BY <1>1 DEF CreateLink, At, IInv, TypeOK, Tab
<1>4. Past(t) /\ Who(t)' = Who(t) /\ UNCHANGED <<kc, row, accounts>>
  BY <1>3 DEF Past, Made, Who, CreateLink
<1>5. Page(t)
  BY DEF IInv
<1>6. Chosen(t)'
  BY <1>3, <1>5 DEF Page, Chosen, Linked, Told, Who
<1>7. InKeycloak(t)' /\ Opened(t)' /\ Inserted(t)'
  BY <1>3, <1>4, <1>5 DEF Page, InKeycloak, Opened, Inserted, Past, Made, Linked, Told, Who
<1>. QED
  BY <1>2, <1>4, <1>6, <1>7, PageStep DEF Page

LEMMA AbortRegisterStep == ASSUME IInv, NEW t \in Tabs, AbortRegister(t) PROVE IInv'
<1>1. lost' \subseteq Calls
  BY DEF AbortRegister, IInv, TypeOK, Page, Chosen, Working
<1>. QED
  BY <1>1, RefuseStep DEF AbortRegister

-----------------------------------------------------------------------------
(* The steps that write to Keycloak, for the only page past it.            *)
LEMMA KeycloakStep ==
    ASSUME IInv, NEW t \in Tabs, NEW k \in Keycloak,
           Who(t) \in People, kc' = [kc EXCEPT ![Who(t)] = k], k.made,
           kc[Who(t)].role = None \/ k.role = kc[Who(t)].role,
           tab' \in [Tabs -> Tab], \A u \in Tabs \ {t} : tab'[u] = tab[u], Who(t)' = Who(t),
           UNCHANGED <<row, accounts, token, call, lost>>,
           \A u \in Tabs \ {t} : Past(u) => Who(u) # Who(t),
           \A u \in Tabs \ {t} : <<u, Who(t)>> \notin accounts,
           Page(t)'
    PROVE  IInv'
<1>. USE AccountsConstants
<1>1. kc' \in [People -> Keycloak] /\ kc'[Who(t)] = k /\ \A p \in People \ {Who(t)} : kc'[p] = kc[p]
  BY DEF IInv, TypeOK
<1>2. TypeOK'
  BY <1>1 DEF IInv, TypeOK
<1>3. ASSUME NEW u \in Tabs \ {t} PROVE Page(u)'
  <2>1. Page(u) /\ tab'[u] = tab[u]
    BY DEF IInv
  <2>2. Past(u) => Who(u) \in People \ {Who(t)}
    BY <2>1 DEF Page, Chosen, Past, Made, Told
  <2>3. InKeycloak(u)'
    BY <1>1, <2>1, <2>2 DEF Page, InKeycloak, Past, Who, Made
  <2>. QED
    BY <2>1, <2>3 DEF Page, Chosen, Opened, Inserted, Who
<1>4. ASSUME NEW u \in Tabs PROVE Mine(u)'
  <2>1. CASE u = t
    BY <2>1 DEF Mine, Past, Who
  <2>2. CASE u # t
    BY <2>2 DEF IInv, Mine, Past, Who
  <2>. QED
    BY <2>1, <2>2
<1>5. ASSUME NEW p \in People PROVE Person(p)'
  <2>1. Person(p)
    BY DEF IInv
  <2>2. CASE p = Who(t)
    BY <1>1, <2>1, <2>2 DEF Person, Exists, OwnAccount, OneAccount
  <2>3. CASE p # Who(t)
    BY <1>1, <2>1, <2>3 DEF Person, Exists, OwnAccount, OneAccount
  <2>. QED
    BY <2>2, <2>3
<1>6. ASSUME NEW c \in Calls PROVE Carries(c)'
  <2>1. Carries(c)
    BY DEF IInv
  <2>. QED
    BY <1>1, <2>1 DEF Carries
<1>. QED
  BY <1>2, <1>3, <1>4, <1>5, <1>6 DEF IInv

(* No other page is past Keycloak with this address, nor has an account.   *)
LEMMA Alone ==
    ASSUME IInv, NEW t \in Tabs, Who(t) \in People, Past(t) \/ ~kc[Who(t)].made
    PROVE  /\ \A u \in Tabs \ {t} : Past(u) => Who(u) # Who(t)
           /\ \A u \in Tabs \ {t} : <<u, Who(t)>> \notin accounts
<1>1. CASE Past(t)
  BY <1>1 DEF IInv, Mine
<1>2. CASE ~kc[Who(t)].made
  BY <1>2 DEF IInv, Page, InKeycloak, Person
<1>. QED
  BY <1>1, <1>2

(* What moving on to another stage leaves as it was.                       *)
LEMMA Moves ==
    ASSUME IInv, NEW t \in Tabs, NEW pc \in Working, Step(t, pc)
    PROVE  /\ tab'[t].pc = pc /\ tab'[t].who = tab[t].who
           /\ tab'[t].role = tab[t].role /\ tab'[t].link = tab[t].link
           /\ tab' \in [Tabs -> Tab] /\ \A u \in Tabs \ {t} : tab'[u] = tab[u]
           /\ Who(t)' = Who(t)
<1>1. tab[t] \in Tab /\ tab \in [Tabs -> Tab]
  BY DEF IInv, TypeOK
<1>2. [tab[t] EXCEPT !.pc = pc] \in Tab
  BY <1>1 DEF Tab
<1>. QED
  BY <1>1, <1>2 DEF Step, Tab, Who

LEMMA CreateInKeycloakStep == ASSUME IInv, NEW t \in Tabs, CreateInKeycloak(t) PROVE IInv'
<1>. USE AccountsConstants
<1>1. CASE kc[Who(t)].made
  BY <1>1, RefuseStep DEF CreateInKeycloak, At, Working, IInv, TypeOK
<1>2. CASE ~kc[Who(t)].made
  <2>1. Page(t) /\ tab[t].pc = "create" /\ Who(t) \in People
    BY DEF CreateInKeycloak, At, IInv, Page, Chosen
  <2>2. Step(t, "role")
    BY <1>2 DEF CreateInKeycloak
  <2> DEFINE k == [kc[Who(t)] EXCEPT !.made = TRUE]
  <2>3. k \in Keycloak /\ k.made /\ k.role = kc[Who(t)].role /\ k.role = None
    <3>1. kc[Who(t)] \in Keycloak
      BY <2>1 DEF IInv, TypeOK
    <3>2. kc[Who(t)].role = None
      BY <1>2, <2>1 DEF IInv, Person
    <3>. QED
      BY <3>1, <3>2 DEF Keycloak
  <2>4. kc' = [kc EXCEPT ![Who(t)] = k]
    BY <1>2 DEF CreateInKeycloak
  <2>5. kc'[Who(t)] = k
    BY <2>1, <2>4 DEF IInv, TypeOK
  <2> HIDE DEF k
  <2>6. /\ tab'[t].pc = "role" /\ tab'[t].who = tab[t].who
        /\ tab'[t].role = tab[t].role /\ tab'[t].link = tab[t].link
        /\ tab' \in [Tabs -> Tab] /\ \A u \in Tabs \ {t} : tab'[u] = tab[u]
        /\ Who(t)' = Who(t)
    BY <2>2, Moves DEF Working
  <2>7. Page(t)'
    BY <2>1, <2>3, <2>5, <2>6 DEF Page, Chosen, InKeycloak, Opened, Inserted, Past, Made, Linked, Told, Who
  <2>. QED
    BY <1>2, <2>1, <2>3, <2>4, <2>6, <2>7, Alone, KeycloakStep DEF CreateInKeycloak
<1>. QED
  BY <1>1, <1>2

LEMMA AssignRoleStep == ASSUME IInv, NEW t \in Tabs, AssignRole(t) PROVE IInv'
<1>. USE AccountsConstants
<1>1. Page(t) /\ tab[t].pc = "role" /\ Who(t) \in People /\ Past(t)
  BY DEF AssignRole, At, IInv, Page, Chosen, Past, Made
<1> DEFINE k == [kc[Who(t)] EXCEPT !.role = tab[t].role]
<1>2. k \in Keycloak /\ k.made /\ k.role = tab[t].role /\ kc[Who(t)].role = None
  BY <1>1 DEF IInv, TypeOK, Keycloak, Page, Chosen, InKeycloak
<1>3. kc' = [kc EXCEPT ![Who(t)] = k]
  BY DEF AssignRole
<1>4. kc'[Who(t)] = k
  BY <1>1, <1>3 DEF IInv, TypeOK
<1> HIDE DEF k
<1>5. /\ tab'[t].pc = "mail" /\ tab'[t].who = tab[t].who
      /\ tab'[t].role = tab[t].role /\ tab'[t].link = tab[t].link
      /\ tab' \in [Tabs -> Tab] /\ \A u \in Tabs \ {t} : tab'[u] = tab[u]
      /\ Who(t)' = Who(t)
  BY Moves DEF Working, AssignRole
<1>6. Page(t)'
  BY <1>1, <1>2, <1>4, <1>5 DEF Page, Chosen, InKeycloak, Opened, Inserted, Past, Made, Linked, Told, Who
<1>. QED
  BY <1>1, <1>2, <1>3, <1>5, <1>6, Alone, KeycloakStep DEF AssignRole

LEMMA SendVerifyEmailStep == ASSUME IInv, NEW t \in Tabs, SendVerifyEmail(t) PROVE IInv'
<1>. USE AccountsConstants
<1>1. Page(t) /\ tab[t].pc = "mail" /\ Who(t) \in People /\ Past(t)
  BY DEF SendVerifyEmail, At, IInv, Page, Chosen, Past, Made
<1> DEFINE k == [kc[Who(t)] EXCEPT !.mailed = TRUE]
<1>2. k \in Keycloak /\ k.made /\ k.role = tab[t].role /\ k.role = kc[Who(t)].role /\ k.mailed
  BY <1>1 DEF IInv, TypeOK, Keycloak, Page, InKeycloak
<1>3. kc' = [kc EXCEPT ![Who(t)] = k]
  BY DEF SendVerifyEmail
<1>4. kc'[Who(t)] = k
  BY <1>1, <1>3 DEF IInv, TypeOK
<1> HIDE DEF k
<1>5. PICK pc \in {"stripe", "insert"} : Step(t, pc) /\ (tab[t].role = "FARMER" <=> pc = "stripe")
  BY DEF SendVerifyEmail
<1>6. /\ tab'[t].pc = pc /\ tab'[t].who = tab[t].who
      /\ tab'[t].role = tab[t].role /\ tab'[t].link = tab[t].link
      /\ tab' \in [Tabs -> Tab] /\ \A u \in Tabs \ {t} : tab'[u] = tab[u]
      /\ Who(t)' = Who(t)
  BY <1>5, Moves DEF Working
<1>7. Page(t)'
  BY <1>1, <1>2, <1>4, <1>5, <1>6 DEF Page, Chosen, InKeycloak, Opened, Inserted, Past, Made, Linked, Told, Who
<1>. QED
  BY <1>1, <1>2, <1>3, <1>6, <1>7, Alone, KeycloakStep DEF SendVerifyEmail

-----------------------------------------------------------------------------
(* Stripe and the row.                                                     *)
LEMMA CreateAccountStep == ASSUME IInv, NEW t \in Tabs, CreateAccount(t) PROVE IInv'
<1>1. Page(t) /\ tab[t].pc = "stripe" /\ Who(t) \in People /\ Past(t)
  BY DEF CreateAccount, At, IInv, Page, Chosen, Past, Made
<1>2. /\ tab'[t].pc = "link" /\ tab'[t].who = tab[t].who
      /\ tab'[t].role = tab[t].role /\ tab'[t].link = tab[t].link
      /\ tab' \in [Tabs -> Tab] /\ \A u \in Tabs \ {t} : tab'[u] = tab[u]
      /\ Who(t)' = Who(t)
  BY Moves DEF Working, CreateAccount
<1>3. accounts' = accounts \cup {<<t, Who(t)>>} /\ UNCHANGED <<kc, row, token, call, lost>>
  BY DEF CreateAccount
<1>4. TypeOK'
  BY <1>1, <1>2, <1>3 DEF IInv, TypeOK
<1>5. ASSUME NEW u \in Tabs PROVE Page(u)'
  <2>1. CASE u = t
    BY <1>1, <1>2, <1>3, <2>1 DEF Page, Chosen, InKeycloak, Opened, Inserted, Past, Made, Linked, Told, Who
  <2>2. CASE u # t
    BY <1>2, <1>3, <2>2 DEF IInv, Page, Chosen, InKeycloak, Opened, Inserted, Past, Who
  <2>. QED
    BY <2>1, <2>2
<1>6. ASSUME NEW u \in Tabs PROVE Mine(u)'
  <2>1. \A x \in Tabs : Past(x)' = Past(x) /\ Who(x)' = Who(x)
    BY <1>1, <1>2 DEF Past, Made, Who
  <2>2. Mine(u) /\ Mine(t)
    BY DEF IInv
  <2>. QED
    BY <1>1, <1>3, <2>1, <2>2 DEF Mine
<1>7. ASSUME NEW p \in People PROVE Person(p)'
  <2>1. Person(p) /\ Mine(t) /\ kc[Who(t)].made
    BY <1>1 DEF IInv, Page, InKeycloak
  <2>2. OneAccount(p)'
    BY <1>1, <1>3, <2>1 DEF Person, OneAccount, Mine
  <2>. QED
    BY <1>3, <2>1, <2>2 DEF Person, Exists, OwnAccount
<1>8. \A c \in Calls : Carries(c)'
  BY <1>3 DEF IInv, Carries
<1>. QED
  BY <1>4, <1>5, <1>6, <1>7, <1>8 DEF IInv

(* A row appears, of the role Keycloak has.                                *)
LEMMA RowStep ==
    ASSUME IInv, NEW p \in People, NEW r \in User, row' = [row EXCEPT ![p] = r], ~Exists(p),
           r.role = kc[p].role, r.role \in Roles,
           r.stripe # None => r.role = "FARMER" /\ <<r.stripe, p>> \in accounts,
           UNCHANGED <<kc, accounts, token>>
    PROVE  row' \in [People -> User] /\ \A q \in People : Person(q)'
<1>. USE AccountsConstants
<1>1. row' \in [People -> User] /\ row'[p] = r /\ \A q \in People \ {p} : row'[q] = row[q]
  BY DEF IInv, TypeOK
<1>2. ASSUME NEW q \in People PROVE Person(q)'
  <2>1. Person(q)
    BY DEF IInv
  <2>2. CASE q = p
    BY <1>1, <2>1, <2>2 DEF Person, Exists, OwnAccount, OneAccount
  <2>3. CASE q # p
    BY <1>1, <2>1, <2>3 DEF Person, Exists, OwnAccount, OneAccount
  <2>. QED
    BY <2>2, <2>3
<1>. QED
  BY <1>1, <1>2

(* No page counts on a row that is not there.                              *)
LEMMA NotInserted ==
    ASSUME IInv, NEW p \in People, ~Exists(p), NEW u \in Tabs, tab[u].pc \in {"answer"} \cup Told
    PROVE  Who(u) # p
<1>. USE AccountsConstants
<1>1. Page(u) /\ tab[u].pc \notin {"choose", "form"}
  BY DEF IInv, Told
<1>2. tab[u].role \in Roles
  BY <1>1 DEF Page, Chosen
<1>3. row[Who(u)] = [role |-> tab[u].role, stripe |-> tab[u].link]
  BY <1>1 DEF Page, Inserted
<1>4. row[Who(u)].role # None
  BY <1>2, <1>3
<1>. QED
  BY <1>4 DEF Exists

LEMMA InsertStep == ASSUME IInv, NEW t \in Tabs, Insert(t) PROVE IInv'
<1>. USE AccountsConstants
<1>1. CASE Exists(Who(t))
  BY <1>1, RefuseStep DEF Insert, At, Working, IInv, TypeOK
<1>2. CASE ~Exists(Who(t))
  <2>1. Page(t) /\ tab[t].pc = "insert" /\ Who(t) \in People /\ Past(t)
    BY DEF Insert, At, IInv, Page, Chosen, Past, Made
  <2>2. Step(t, "answer") /\ UNCHANGED <<kc, accounts, token, call, lost>>
    BY <1>2 DEF Insert
  <2>3. /\ tab'[t].pc = "answer" /\ tab'[t].who = tab[t].who
        /\ tab'[t].role = tab[t].role /\ tab'[t].link = tab[t].link
        /\ tab' \in [Tabs -> Tab] /\ \A u \in Tabs \ {t} : tab'[u] = tab[u]
        /\ Who(t)' = Who(t)
    BY <2>2, Moves DEF Working
  <2> DEFINE r == [role |-> tab[t].role, stripe |-> tab[t].link]
  <2>4. row' = [row EXCEPT ![Who(t)] = r]
    BY <1>2 DEF Insert
  <2>5. tab[t].role \in Roles /\ tab[t].role = kc[Who(t)].role
    BY <2>1 DEF Page, Chosen, InKeycloak, Past
  <2>6. tab[t].link = None \/ (tab[t].link = t /\ tab[t].role = "FARMER" /\ <<t, Who(t)>> \in accounts)
    BY <2>1 DEF Page, Chosen, Opened, Linked
  <2>7. r \in User /\ r.role = tab[t].role /\ r.stripe = tab[t].link
    BY <2>5, <2>6 DEF User
  <2>8. row'[Who(t)] = r
    BY <2>1, <2>4 DEF IInv, TypeOK
  <2> HIDE DEF r
  <2>9. row' \in [People -> User] /\ \A q \in People : Person(q)'
    BY <1>2, <2>1, <2>2, <2>4, <2>5, <2>6, <2>7, RowStep
  <2>10. TypeOK'
    BY <2>2, <2>3, <2>9 DEF IInv, TypeOK
  <2>11. ASSUME NEW u \in Tabs PROVE Page(u)'
    <3>1. CASE u = t
      <4>1. Inserted(t)'
        BY <2>3, <2>8 DEF Inserted, r
      <4>2. Chosen(t)'
        BY <2>1, <2>3 DEF Page, Chosen, Linked, Told, Who
      <4>3. InKeycloak(t)' /\ Opened(t)'
        BY <2>1, <2>2, <2>3 DEF Page, InKeycloak, Opened, Past, Made, Linked, Told, Who
      <4>. QED
        BY <3>1, <4>1, <4>2, <4>3 DEF Page
    <3>2. CASE u # t
      <4>1. Page(u) /\ tab'[u] = tab[u]
        BY <2>3, <3>2 DEF IInv
      <4>2. tab[u].pc \in {"answer"} \cup Told => Who(u) # Who(t) /\ Who(u) \in People
        BY <1>2, <2>1, <4>1, NotInserted DEF Page, Chosen, Told
      <4>3. Inserted(u)'
        BY <2>1, <2>4, <4>1, <4>2 DEF Page, Inserted, Who, IInv, TypeOK
      <4>. QED
        BY <2>2, <4>1, <4>3 DEF Page, Chosen, InKeycloak, Opened, Past, Who
    <3>. QED
      BY <3>1, <3>2
  <2>12. ASSUME NEW u \in Tabs PROVE Mine(u)'
    <3>1. \A x \in Tabs : Past(x)' = Past(x) /\ Who(x)' = Who(x)
      BY <2>1, <2>3 DEF Past, Made, Who
    <3>. QED
      BY <2>2, <3>1 DEF IInv, Mine
  <2>13. \A c \in Calls : Carries(c)'
    BY <2>2 DEF IInv, Carries
  <2>. QED
    BY <2>9, <2>10, <2>11, <2>12, <2>13 DEF IInv
<1>. QED
  BY <1>1, <1>2

-----------------------------------------------------------------------------
(* Logins and requests.                                                    *)
LEMMA SignInStep == ASSUME IInv, NEW p \in People, SignIn(p) PROVE IInv'
<1>. USE AccountsConstants
<1>1. TypeOK'
  BY DEF SignIn, IInv, TypeOK, Keycloak
<1>2. \A t \in Tabs : Page(t)' /\ Mine(t)'
  BY DEF SignIn, IInv, Page, Chosen, InKeycloak, Opened, Inserted, Mine, Past, Who
<1>3. ASSUME NEW q \in People PROVE Person(q)'
  <2>1. Person(q) /\ (token'[q] = token[q] \/ token'[q] = kc[q].role)
    BY DEF SignIn, IInv, TypeOK
  <2>. QED
    BY <2>1 DEF SignIn, Person, Exists, OwnAccount, OneAccount
<1>4. \A c \in Calls : Carries(c)'
  BY DEF SignIn, IInv, Carries
<1>. QED
  BY <1>1, <1>2, <1>3, <1>4 DEF IInv

(* A step of one request that leaves the row alone.                        *)
LEMMA CallStep ==
    ASSUME IInv, NEW c \in Calls, call' \in [Calls -> Call],
           \A d \in Calls \ {c} : call'[d] = call[d], Carries(c)',
           UNCHANGED <<kc, row, accounts, tab, token>>, lost' \subseteq Calls
    PROVE  IInv'
<1>1. TypeOK'
  BY DEF IInv, TypeOK
<1>2. \A t \in Tabs : Page(t)' /\ Mine(t)'
  BY DEF IInv, Page, Chosen, InKeycloak, Opened, Inserted, Mine, Past, Who
<1>3. \A p \in People : Person(p)'
  BY DEF IInv, Person, Exists, OwnAccount, OneAccount
<1>4. \A d \in Calls : Carries(d)'
  BY DEF IInv, Carries
<1>. QED
  BY <1>1, <1>2, <1>3, <1>4 DEF IInv

LEMMA ReturnStep ==
    ASSUME IInv, NEW c \in Calls, Return(c), UNCHANGED <<kc, row, accounts, tab, token>>,
           lost' \subseteq Calls
    PROVE  IInv'
<1>1. NoCall \in Call
  BY DEF NoCall, Call
<1>2. call' \in [Calls -> Call] /\ call'[c] = NoCall /\ \A d \in Calls \ {c} : call'[d] = call[d]
  BY <1>1 DEF Return, IInv, TypeOK
<1>3. Carries(c)'
  BY <1>2 DEF Carries, NoCall
<1>. QED
  BY <1>2, <1>3, CallStep

LEMMA RequestStep == ASSUME IInv, NEW c \in Calls, NEW p \in People, Request(c, p) PROVE IInv'
<1>. USE AccountsConstants
<1>1. token[p] \in Roles \cup {None} /\ Person(p)
  BY DEF Request, IInv, TypeOK
<1>2. [pc |-> "guard", who |-> p, role |-> token[p]] \in Call
  BY <1>1 DEF Call
<1>3. /\ call' \in [Calls -> Call] /\ call'[c] = [pc |-> "guard", who |-> p, role |-> token[p]]
      /\ \A d \in Calls \ {c} : call'[d] = call[d]
  BY <1>2 DEF Request, IInv, TypeOK
<1>4. Carries(c)'
  BY <1>1, <1>3 DEF Request, Carries, Person
<1>5. lost' \subseteq Calls
  BY DEF Request, IInv, TypeOK
<1>. QED
  BY <1>3, <1>4, <1>5, CallStep DEF Request

LEMMA ServeSteps == ASSUME IInv, NEW c \in Calls, Serve(c) \/ AbortCall(c) PROVE IInv'
<1>. USE AccountsConstants
<1>1. lost' \subseteq Calls
  <2>1. CASE Serve(c)
    BY <2>1 DEF Serve, CanActivate, SyncUser, SyncInsert, IInv, TypeOK
  <2>2. CASE AbortCall(c)
    BY <2>2 DEF AbortCall, IInv, TypeOK, Carries
  <2>. QED
    BY <2>1, <2>2
<1>2. CASE (CanActivate(c) \/ SyncUser(c)) /\ ~Exists(call[c].who)
  <2>1. PICK pc \in {"sync", "insert"} : call' = [call EXCEPT ![c].pc = pc]
    BY <1>2 DEF CanActivate, SyncUser
  <2>2. call[c] \in Call /\ call[c].pc # "idle"
    BY <1>2 DEF CanActivate, SyncUser, IInv, TypeOK
  <2>3. [call[c] EXCEPT !.pc = pc] \in Call
    BY <2>2 DEF Call
  <2>4. /\ call' \in [Calls -> Call] /\ \A d \in Calls \ {c} : call'[d] = call[d]
        /\ call'[c].who = call[c].who /\ call'[c].role = call[c].role
    BY <2>1, <2>2, <2>3 DEF IInv, TypeOK, Call
  <2>5. UNCHANGED <<kc, row, accounts, tab, token>>
    BY <1>2 DEF CanActivate, SyncUser
  <2>6. Carries(c)'
    BY <2>2, <2>4, <2>5 DEF IInv, Carries
  <2>. QED
    BY <1>1, <2>4, <2>5, <2>6, CallStep
<1>3. CASE (CanActivate(c) \/ SyncUser(c)) /\ Exists(call[c].who)
  BY <1>1, <1>3, ReturnStep DEF CanActivate, SyncUser
<1>4. CASE AbortCall(c)
  BY <1>1, <1>4, ReturnStep DEF AbortCall
<1>5. CASE SyncInsert(c) /\ (Exists(call[c].who) \/ call[c].role = None)
  BY <1>1, <1>5, ReturnStep DEF SyncInsert
<1>6. CASE SyncInsert(c) /\ ~(Exists(call[c].who) \/ call[c].role = None)
  <2> DEFINE p == call[c].who
  <2>1. p \in People /\ call[c].role \in Roles /\ kc[p].role = call[c].role
    BY <1>6 DEF SyncInsert, IInv, TypeOK, Call, Carries
  <2>2. row[p] \in User /\ row[p].stripe = None /\ ~Exists(p)
    BY <1>6, <2>1 DEF IInv, TypeOK, Person
  <2> DEFINE r == [row[p] EXCEPT !.role = call[c].role]
  <2>3. r \in User /\ r.role = call[c].role /\ r.stripe = None
    BY <2>1, <2>2 DEF User
  <2>4. row' = [row EXCEPT ![p] = r] /\ UNCHANGED <<kc, accounts, tab, token, lost>>
    BY <1>6 DEF SyncInsert
  <2> HIDE DEF r
  <2>5. row' \in [People -> User] /\ \A q \in People : Person(q)'
    <3> HIDE DEF p
    <3>. QED
      BY <2>1, <2>2, <2>3, <2>4, RowStep
  <2>6. NoCall \in Call /\ call' = [call EXCEPT ![c] = NoCall]
    BY <1>6 DEF SyncInsert, Return, NoCall, Call
  <2>7. TypeOK'
    BY <2>4, <2>5, <2>6 DEF IInv, TypeOK
  <2>8. ASSUME NEW t \in Tabs PROVE Page(t)' /\ Mine(t)'
    <3>1. tab[t].pc \in {"answer"} \cup Told => Who(t) # p /\ Who(t) \in People
      BY <2>1, <2>2, NotInserted DEF IInv, Page, Chosen, Told
    <3>2. Inserted(t)'
      BY <2>4, <3>1 DEF IInv, TypeOK, Page, Inserted, Who
    <3>. QED
      BY <2>4, <3>2 DEF IInv, Page, Chosen, InKeycloak, Opened, Mine, Past, Who
  <2>9. \A d \in Calls : Carries(d)'
    BY <2>4, <2>6 DEF IInv, TypeOK, Carries, NoCall
  <2>. QED
    BY <2>5, <2>7, <2>8, <2>9 DEF IInv
<1>. QED
  BY <1>2, <1>3, <1>4, <1>5, <1>6 DEF Serve

-----------------------------------------------------------------------------
LEMMA NextInv == IInv /\ [Next]_vars => IInv'
<1>. SUFFICES ASSUME IInv, [Next]_vars PROVE IInv'
  OBVIOUS
<1>1. CASE UNCHANGED vars
  BY <1>1 DEF vars, IInv, TypeOK, Page, Chosen, InKeycloak, Opened, Inserted, Mine, Past, Who, Person,
     Exists, OwnAccount, OneAccount, Carries
<1>2. ASSUME NEW t \in Tabs, Browse(t) \/ Register(t) PROVE IInv'
  BY <1>2, BrowseSteps, FindStep, CreateInKeycloakStep, AssignRoleStep, SendVerifyEmailStep,
     CreateAccountStep, LinkStep, InsertStep, AbortRegisterStep DEF Register
<1>3. ASSUME NEW p \in People, SignIn(p) \/ (\E c \in Calls : Request(c, p)) PROVE IInv'
  BY <1>3, SignInStep, RequestStep
<1>4. ASSUME NEW c \in Calls, Serve(c) \/ AbortCall(c) PROVE IInv'
  BY <1>4, ServeSteps
<1>. QED
  BY <1>1, <1>2, <1>3, <1>4 DEF Next

(* The evidence of every page and request is an invariant, whatever dies   *)
(* or overlaps (register() and SyncUserGuard).                             *)
THEOREM Invariance == Spec => []IInv
BY InitInv, NextInv, PTL DEF Spec

(* Every variable keeps its type.                                          *)
THEOREM TypeCorrect == Spec => []TypeOK
<1>1. IInv => TypeOK
  BY DEF IInv
<1>. QED
  BY <1>1, Invariance, PTL

(* Rows carry Keycloak's role, and only the farmer's own Stripe account    *)
(* (the two inserts of a User row).                                        *)
THEOREM Rows == Spec => []RowsAgree
<1>1. IInv => RowsAgree
  BY DEF IInv, Person, RowsAgree
<1>. QED
  BY <1>1, Invariance, PTL

(* What a registration page says is so (the order of register()).          *)
THEOREM Pages == Spec => []ToldIsTrue
<1>1. IInv => ToldIsTrue
  <2>. SUFFICES ASSUME IInv, NEW t \in Tabs, tab[t].pc \in Told
       PROVE  /\ kc[Who(t)].role = tab[t].role /\ kc[Who(t)].mailed
              /\ row[Who(t)] = [role |-> tab[t].role,
                               stripe |-> IF tab[t].role = "FARMER" THEN t ELSE None]
    BY DEF ToldIsTrue
  <2>1. Page(t) /\ Past(t) /\ tab[t].pc \notin {"role", "mail"} /\ tab[t].pc \in Linked
    BY DEF IInv, Past, Made, Linked, Told
  <2>2. kc[Who(t)].role = tab[t].role /\ kc[Who(t)].mailed
    BY <2>1 DEF Page, InKeycloak
  <2>3. row[Who(t)] = [role |-> tab[t].role, stripe |-> tab[t].link]
    BY <2>1 DEF Page, Inserted
  <2>4. tab[t].link = IF tab[t].role = "FARMER" THEN t ELSE None
    BY <2>1 DEF Page, Chosen
  <2>. QED
    BY <2>2, <2>3, <2>4
<1>. QED
  BY <1>1, Invariance, PTL
=============================================================================
