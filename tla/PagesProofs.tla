---------------------------- MODULE PagesProofs ----------------------------
(***************************************************************************)
(* What holds of pages that act on what they show: an administrator's list *)
(* of users (Access), and the pages of an order (OrderPages).  A toggle    *)
(* that meets no other is alone at both of its writes, and the one to      *)
(* Keycloak came first.  An order's answer, however old, is a trace the    *)
(* order once had, and a trace hangs together.                             *)
(***************************************************************************)
EXTENDS Access, OrderPages, SequenceTheorems, TLAPS

-----------------------------------------------------------------------------
(* Users and their sessions.                                               *)

(* A call that met no other has company by no other, and what it wrote to  *)
(* Keycloak is still there.                                                *)
Unmet(c) == call[c].pc # "idle" /\ call[c].alone
Alone(c) ==
    Unmet(c) =>
        /\ \A d \in Calls \ {c} : call[d].pc = "idle"
        /\ call[c].pc = "mirror" => keycloak = call[c].next

AccessInv == AccessTypeOK /\ \A c \in Calls : Alone(c)

-----------------------------------------------------------------------------
LEMMA NoCallType == NoCall \in Call /\ NoCall.pc = "idle"
<1>1. (CHOOSE p \in Screens : TRUE) \in Screens
  BY AccessAssumption
<1>. QED
  BY <1>1 DEF NoCall, Call

LEMMA NoFetchType == NoFetch \in FetchState
BY DEF NoFetch, FetchState, Tokens

LEMMA InitInv == AccessInit => AccessInv
<1>. SUFFICES ASSUME AccessInit PROVE AccessInv
  OBVIOUS
<1>1. screen \in [Screens -> Screen]
  BY DEF AccessInit, Screen, Listings
<1>2. call \in [Calls -> Call] /\ \A c \in Calls : call[c].pc = "idle"
  BY NoCallType DEF AccessInit
<1>3. AccessTypeOK
  BY <1>1, <1>2, NoFetchType DEF AccessInit, AccessTypeOK, Tokens
<1>. QED
  BY <1>2, <1>3 DEF AccessInv, Alone, Unmet

(* Nobody's toggle goes on.                                                *)
LEMMA AsideStep ==
    ASSUME AccessInv, keycloak' = keycloak, call' = call, AccessTypeOK'
    PROVE  AccessInv'
BY DEF AccessInv, Alone, Unmet

LEMMA PageSteps ==
    ASSUME AccessInv, NEW p \in Screens, OtherToggled(p) \/ UpdateUsersParam(p) \/ GetUsers(p) \/ FetchUsers(p)
    PROVE  AccessInv'
<1>1. \A l \in Listings, b, s \in BOOLEAN : [shown |-> s, toggling |-> b, listing |-> l] \in Screen
  BY DEF Screen
<1>2. screen[p] \in Screen /\ screen \in [Screens -> Screen]
  BY DEF AccessInv, AccessTypeOK
<1>3. PICK r \in Screen : screen' = [screen EXCEPT ![p] = r]
  <2>1. CASE OtherToggled(p)
    BY <1>2, <2>1 DEF OtherToggled, Screen
  <2>2. CASE UpdateUsersParam(p) \/ GetUsers(p)
    BY <1>2, <2>2 DEF UpdateUsersParam, GetUsers, Screen, Listings
  <2>3. CASE FetchUsers(p)
    BY <1>2, <2>3 DEF FetchUsers, Screen, Listings
  <2>. QED
    BY <2>1, <2>2, <2>3
<1>4. UNCHANGED <<keycloak, row, call, browser>>
  BY DEF OtherToggled, UpdateUsersParam, GetUsers, FetchUsers
<1>5. AccessTypeOK'
  BY <1>2, <1>3, <1>4 DEF AccessInv, AccessTypeOK, browser
<1>. QED
  BY <1>4, <1>5, AsideStep

LEMMA HandleToggleStep == ASSUME AccessInv, NEW p \in Screens, NEW c \in Calls, HandleToggle(p, c) PROVE AccessInv'
<1>. DEFINE r == [pc |-> "read", screen |-> p, next |-> ~screen[p].shown, alone |-> Active = {}]
<1>0. screen \in [Screens -> Screen] /\ call \in [Calls -> Call] /\ screen[p] \in Screen
  BY DEF AccessInv, AccessTypeOK
<1>1. r \in Call /\ r.pc = "read" /\ (r.alone => \A d \in Calls : call[d].pc = "idle")
  <2>1. (Active = {}) \in BOOLEAN
    OBVIOUS
  <2>2. r \in Call
    BY <1>0, <2>1 DEF Call, Screen
  <2>. QED
    BY <2>2 DEF Active
<1>2. call' = [d \in Calls |-> IF d = c THEN r ELSE [call[d] EXCEPT !.alone = FALSE]]
  BY DEF HandleToggle
<1>. HIDE DEF r
<1>3. \A d \in Calls : [call[d] EXCEPT !.alone = FALSE] \in Call /\ ~[call[d] EXCEPT !.alone = FALSE].alone
                       /\ [call[d] EXCEPT !.alone = FALSE].pc = call[d].pc
  BY <1>0 DEF Call
<1>4. call' \in [Calls -> Call]
  BY <1>1, <1>2, <1>3
<1>5. [screen[p] EXCEPT !.shown = ~screen[p].shown, !.toggling = TRUE] \in Screen
  BY <1>0 DEF Screen
<1>6. screen' \in [Screens -> Screen]
  BY <1>0, <1>5 DEF HandleToggle
<1>7. AccessTypeOK'
  BY <1>4, <1>6 DEF HandleToggle, AccessInv, AccessTypeOK, browser
<1>8. ASSUME NEW d \in Calls PROVE Alone(d)'
  <2>1. CASE d = c
    <3>1. call'[c] = r
      BY <1>2
    <3>2. \A e \in Calls \ {c} : call'[e].pc = call[e].pc
      BY <1>2, <1>3
    <3>. QED
      BY <1>1, <2>1, <3>1, <3>2 DEF Alone, Unmet
  <2>2. CASE d # c
    BY <1>2, <1>3, <2>2 DEF Alone, Unmet
  <2>. QED
    BY <2>1, <2>2
<1>. QED
  BY <1>7, <1>8 DEF AccessInv

(* A toggle that is answered leaves the others as lonely as they were.     *)
LEMMA AnsweredStep ==
    ASSUME AccessInv, NEW c \in Calls, call[c].pc # "idle", NEW ok \in BOOLEAN, Answered(c, ok),
           UNCHANGED <<keycloak, browser>>, row' \in BOOLEAN
    PROVE  AccessInv'
<1>0. screen \in [Screens -> Screen] /\ call \in [Calls -> Call] /\ call[c] \in Call /\ call[c].screen \in Screens
  BY DEF AccessInv, AccessTypeOK, Call
<1>1. call' = [call EXCEPT ![c] = NoCall] /\ call' \in [Calls -> Call]
  BY <1>0, NoCallType DEF Answered
<1>2. screen' \in [Screens -> Screen]
  <2>. DEFINE q == call[c].screen
              r == [screen[q] EXCEPT !.toggling = FALSE, !.shown = IF ok THEN screen[q].shown ELSE ~call[c].next]
  <2>1. screen[q] \in Screen
    BY <1>0
  <2>2. r \in Screen
    BY <1>0, <2>1 DEF Call, Screen
  <2>3. screen' = [screen EXCEPT ![q] = r]
    BY DEF Answered
  <2>. QED
    BY <1>0, <2>2, <2>3
<1>3. AccessTypeOK'
  BY <1>1, <1>2 DEF AccessInv, AccessTypeOK, browser
<1>4. ASSUME NEW d \in Calls PROVE Alone(d)'
  BY <1>0, <1>1, NoCallType DEF AccessInv, Alone, Unmet
<1>. QED
  BY <1>3, <1>4 DEF AccessInv

LEMMA ToggleSteps ==
    ASSUME AccessInv, NEW c \in Calls, Load(c) \/ UpdateKeycloak(c) \/ Mirror(c) \/ Abort(c)
    PROVE  AccessInv'
<1>0. call \in [Calls -> Call] /\ call[c] \in Call
  BY DEF AccessInv, AccessTypeOK
<1>1. ASSUME NEW ok \in BOOLEAN, Answered(c, ok), UNCHANGED <<keycloak, browser>>, row' \in BOOLEAN,
             call[c].pc # "idle"
      PROVE  AccessInv'
  BY <1>1, AnsweredStep
<1>2. ASSUME NEW s \in {"keycloak", "mirror"}, call' = [call EXCEPT ![c].pc = s], UNCHANGED <<row, screen, browser>>,
             call[c].pc # "idle", keycloak' \in BOOLEAN,
             s = "mirror" => keycloak' = call[c].next, s = "keycloak" => keycloak' = keycloak
      PROVE  AccessInv'
  <2>. DEFINE r == [call[c] EXCEPT !.pc = s]
  <2>1. r \in Call /\ r.pc = s /\ r.alone = call[c].alone /\ r.next = call[c].next
    BY <1>0 DEF Call
  <2>2. call' = [call EXCEPT ![c] = r]
    BY <1>2
  <2>. HIDE DEF r
  <2>3. AccessTypeOK'
    BY <1>0, <1>2, <2>1, <2>2 DEF AccessInv, AccessTypeOK, browser
  <2>4. ASSUME NEW d \in Calls PROVE Alone(d)'
    <3>1. call'[c] = r /\ \A e \in Calls \ {c} : call'[e] = call[e]
      BY <1>0, <2>2
    <3>2. CASE d = c
      BY <1>2, <2>1, <3>1, <3>2 DEF AccessInv, Alone, Unmet
    <3>3. CASE d # c
      <4>1. ~Unmet(d)
        BY <1>2, <3>3 DEF AccessInv, Alone, Unmet
      <4>. QED
        BY <3>1, <3>3, <4>1 DEF Alone, Unmet
    <3>. QED
      BY <3>2, <3>3
  <2>. QED
    BY <2>3, <2>4 DEF AccessInv
<1>3. row \in BOOLEAN /\ keycloak \in BOOLEAN /\ call[c].next \in BOOLEAN
  BY <1>0 DEF AccessInv, AccessTypeOK, Call
<1>4. CASE Load(c)
  BY <1>1, <1>2, <1>3, <1>4 DEF Load
<1>5. CASE UpdateKeycloak(c)
  BY <1>2, <1>3, <1>5 DEF UpdateKeycloak
<1>6. CASE Mirror(c) \/ Abort(c)
  BY <1>1, <1>3, <1>6 DEF Mirror, Abort
<1>. QED
  BY <1>4, <1>5, <1>6

(* The browser's steps keep off the administrators' side.                  *)
LEMMA BrowserSteps ==
    ASSUME AccessInv,
           \/ HandleLogin \/ Age \/ TokenErrorWatcher \/ HandleLogout
           \/ \E f \in Fetches : GetSession(f) \/ Jwt(f) \/ Session(f)
    PROVE  AccessInv'
<1>0. cookie \in Tokens /\ tab \in Tokens /\ fetch \in [Fetches -> FetchState]
  BY DEF AccessInv, AccessTypeOK
<1>1. UNCHANGED <<keycloak, screen, call, row>>
  BY DEF HandleLogin, Age, TokenErrorWatcher, HandleLogout, SignOut, GetSession, Jwt, Session, desk
<1>2. "none" \in Tokens /\ "good" \in Tokens /\ "error" \in Tokens /\ \A t \in Tokens : Due(t) \in Tokens
  BY DEF Tokens, Due
<1>3. \A s \in {"idle", "asked", "served"}, t \in Tokens : [pc |-> s, tokens |-> t] \in FetchState
  BY DEF FetchState
<1>4. cookie' \in Tokens /\ tab' \in Tokens /\ fetch' \in [Fetches -> FetchState]
  <2>1. CASE HandleLogin \/ TokenErrorWatcher \/ HandleLogout
    BY <1>0, <1>2, <2>1 DEF HandleLogin, TokenErrorWatcher, HandleLogout, SignOut
  <2>2. CASE Age
    <3>1. ASSUME NEW f \in Fetches PROVE [fetch[f] EXCEPT !.tokens = Due(fetch[f].tokens)] \in FetchState
      <4>1. fetch[f] \in FetchState /\ fetch[f].tokens \in Tokens
        BY <1>0 DEF FetchState
      <4>. QED
        BY <1>2, <4>1 DEF FetchState
    <3>. QED
      BY <1>0, <1>2, <2>2, <3>1 DEF Age
  <2>3. ASSUME NEW f \in Fetches, GetSession(f) PROVE cookie' \in Tokens /\ tab' \in Tokens /\ fetch' \in [Fetches -> FetchState]
    BY <1>0, <1>3, <2>3 DEF GetSession
  <2>4. ASSUME NEW f \in Fetches, Jwt(f) PROVE cookie' \in Tokens /\ tab' \in Tokens /\ fetch' \in [Fetches -> FetchState]
    BY <1>0, <1>2, <1>3, <2>4 DEF Jwt, RefreshAccessToken, Served
  <2>5. ASSUME NEW f \in Fetches, Session(f) PROVE cookie' \in Tokens /\ tab' \in Tokens /\ fetch' \in [Fetches -> FetchState]
    BY <1>0, <2>5, NoFetchType DEF Session, FetchState
  <2>. QED
    BY <2>1, <2>2, <2>3, <2>4, <2>5
<1>5. AccessTypeOK'
  BY <1>1, <1>4 DEF AccessInv, AccessTypeOK
<1>. QED
  BY <1>1, <1>5, AsideStep

LEMMA StepInv == AccessInv /\ [AccessNext]_accessVars => AccessInv'
<1>. SUFFICES ASSUME AccessInv, [AccessNext]_accessVars PROVE AccessInv'
  OBVIOUS
<1>1. CASE UNCHANGED accessVars
  <2>1. AccessTypeOK'
    BY <1>1 DEF accessVars, desk, browser, AccessInv, AccessTypeOK
  <2>. QED
    BY <1>1, <2>1, AsideStep DEF accessVars, desk
<1>2. ASSUME NEW p \in Screens, OtherToggled(p) \/ UpdateUsersParam(p) \/ GetUsers(p) \/ FetchUsers(p) PROVE AccessInv'
  BY <1>2, PageSteps
<1>3. ASSUME NEW p \in Screens, NEW c \in Calls, HandleToggle(p, c) PROVE AccessInv'
  BY <1>3, HandleToggleStep
<1>4. ASSUME NEW c \in Calls, Load(c) \/ UpdateKeycloak(c) \/ Mirror(c) \/ Abort(c) PROVE AccessInv'
  BY <1>4, ToggleSteps
<1>5. CASE \/ HandleLogin \/ Age \/ TokenErrorWatcher \/ HandleLogout
           \/ \E f \in Fetches : GetSession(f) \/ Jwt(f) \/ Session(f)
  BY <1>5, BrowserSteps
<1>. QED
  BY <1>1, <1>2, <1>3, <1>4, <1>5 DEF AccessNext

(* However many administrators toggle the user and however many requests   *)
(* die halfway, a toggle that met no other stays alone until it ends and   *)
(* finds Keycloak as it left it (setUserEnabled).                          *)
THEOREM AccessInvariance == AccessSpec => []AccessInv
BY InitInv, StepInv, PTL DEF AccessSpec

(* Type correctness, for any administrators, requests and sessions.        *)
THEOREM AccessTypeCorrect == AccessSpec => []AccessTypeOK
<1>1. AccessInv => AccessTypeOK
  BY DEF AccessInv
<1>. QED
  BY <1>1, AccessInvariance, PTL

(* A toggle that changes the row and met no other leaves Keycloak and the  *)
(* row as the administrator wanted them (setUserEnabled).                  *)
THEOREM Toggles == AccessSpec => ToggleAgrees
<1>. DEFINE Agreed(c) == call[c].pc = "mirror" /\ call[c].alone /\ row' # row
                         => row' = call[c].next /\ keycloak' = row'
<1>1. AccessInv /\ [AccessNext]_accessVars => [\A c \in Calls : Agreed(c)]_accessVars
  <2>. SUFFICES ASSUME AccessInv, AccessNext, NEW c \in Calls, call[c].pc = "mirror", call[c].alone, row' # row
                PROVE  row' = call[c].next /\ keycloak' = row'
    BY DEF Agreed
  <2>1. PICK d \in Calls : Mirror(d)
    BY DEF AccessNext, OtherToggled, UpdateUsersParam, GetUsers, FetchUsers, HandleToggle, Load, UpdateKeycloak, Abort,
           HandleLogin, Age, TokenErrorWatcher, HandleLogout, SignOut, GetSession, Jwt, Session, desk
  <2>2. d = c /\ keycloak = call[c].next
    BY <2>1 DEF AccessInv, Alone, Unmet, Mirror
  <2>. QED
    BY <2>1, <2>2 DEF Mirror
<1>2. AccessSpec => []AccessInv /\ [][AccessNext]_accessVars
  BY AccessInvariance DEF AccessSpec
<1>. QED
  BY <1>1, <1>2, PTL DEF ToggleAgrees

-----------------------------------------------------------------------------
(* The pages of an order.                                                  *)

(* Where the order stands, or stood before it was blocked; and a history   *)
(* that leads there: its last entry made the status, each step up to there *)
(* has its date and no later one has, and a delivered order its proof.     *)
Reached(s) == IF IsBlocked(s) THEN s.ledger[Len(s.ledger)].previousStatus ELSE s.status
Leads(s, n) ==
    /\ LedgerSteps[n] = Reached(s)
    /\ Dated(s) \ {1} = 2 .. n
    /\ n >= 3 => s.proof
Trace ==
    {s \in Order :
        /\ s.ledger # <<>> /\ s.ledger[Len(s.ledger)].currentStatus = s.status
        /\ \E n \in 1 .. 4 : Leads(s, n)}

(* What a page may be told, and the pages that were told nothing else.     *)
Truth(kind) == IF kind \in Details THEN Trace ELSE Order
Told(kind) == Truth(kind) \cup {Missing}
Awaited(kind) == [filter : Filters, got : Told(kind) \cup {Pending}]
Pcs == {"idle", "block", "unblock", "reload", "upload", "release"}
Opened(k) == [kind : {k}, pc : Pcs, loading : BOOLEAN, shown : Told(k), filter : Filters,
              asked : Seq(Awaited(k)), step : 0 .. 3]
Honest == UNION {Opened(k) : k \in Kinds}

PagesInv == order \in Trace /\ page \in [Pages -> Honest]

LEMMA Steps ==
    /\ DOMAIN LedgerSteps = 1 .. 4
    /\ \A i \in 1 .. 4 : LedgerSteps[i] \in EscrowState \ {"BLOCKED"}
    /\ \A i, j \in 1 .. 4 : LedgerSteps[i] = LedgerSteps[j] => i = j
    /\ \A x \in EscrowState \ {"BLOCKED"} : \E i \in 1 .. 4 : LedgerSteps[i] = x
    /\ \A i \in 1 .. 4 : /\ LedgerSteps[i] = "INITIATED" <=> i = 1
                         /\ LedgerSteps[i] = "LOCKED" <=> i = 2
                         /\ LedgerSteps[i] = "DELIVERED" <=> i = 3
                         /\ LedgerSteps[i] = "RELEASED" <=> i = 4
<1>1. DOMAIN LedgerSteps = 1 .. 4
  BY DEF LedgerSteps
<1>2. /\ LedgerSteps[1] = "INITIATED" /\ LedgerSteps[2] = "LOCKED"
      /\ LedgerSteps[3] = "DELIVERED" /\ LedgerSteps[4] = "RELEASED"
  BY DEF LedgerSteps
<1>3. \A i \in 1 .. 4 : i = 1 \/ i = 2 \/ i = 3 \/ i = 4
  OBVIOUS
<1>. QED
  BY <1>1, <1>2, <1>3 DEF EscrowState

(* An entry dates the step it leads to.                                    *)
LEMMA DatedMoved ==
    ASSUME NEW s, s.ledger \in Seq(Entry), NEW e \in Entry,
           NEW t, t.ledger = Append(s.ledger, e)
    PROVE  Dated(t) = Dated(s) \cup {i \in 1 .. 4 : e.currentStatus = LedgerSteps[i]}
<1>1. ToSet(t.ledger) = ToSet(s.ledger) \cup {e}
  <2>1. /\ Len(t.ledger) = Len(s.ledger) + 1 /\ DOMAIN t.ledger = 1 .. Len(t.ledger)
        /\ DOMAIN s.ledger = 1 .. Len(s.ledger) /\ Len(s.ledger) \in Nat
        /\ t.ledger[Len(s.ledger) + 1] = e
        /\ \A i \in 1 .. Len(s.ledger) : t.ledger[i] = s.ledger[i]
    OBVIOUS
  <2>. QED
    BY <2>1 DEF ToSet
<1>. QED
  BY <1>1, Steps DEF Dated

LEMMA LastOfAppend ==
    ASSUME NEW S, NEW q \in Seq(S), NEW e \in S, NEW r, r = Append(q, e)
    PROVE  r # <<>> /\ r[Len(r)] = e
OBVIOUS

LEMMA TraceMoves ==
    ASSUME NEW s \in Trace, NEW n \in 1 .. 4, Leads(s, n), NEW m \in 1 .. 4, NEW next \in EscrowState,
           \/ next = "BLOCKED" /\ s.status # "BLOCKED" /\ m = n
           \/ next = LedgerSteps[m] /\ m \in {n, n + 1},
           NEW t \in Order, t.status = next, m >= 3 => t.proof,
           t.ledger = Append(s.ledger, [previousStatus |-> s.status, currentStatus |-> next])
    PROVE  t \in Trace
<1>. DEFINE e == [previousStatus |-> s.status, currentStatus |-> next]
<1>1. /\ s.ledger \in Seq(Entry) /\ s.status \in EscrowState
      /\ e \in Entry /\ e.currentStatus = next /\ e.previousStatus = s.status
  BY DEF Trace, Order, Entry
<1>2. t.ledger # <<>> /\ t.ledger[Len(t.ledger)] = e
  <2>1. t.ledger = Append(s.ledger, e)
    OBVIOUS
  <2>. QED
    BY <1>1, <2>1, LastOfAppend
<1>3. Dated(t) = Dated(s) \cup {i \in 1 .. 4 : next = LedgerSteps[i]}
  BY <1>1, DatedMoved
<1>4. Leads(t, m)
  <2>1. CASE next = "BLOCKED" /\ s.status # "BLOCKED" /\ m = n
    <3>1. {i \in 1 .. 4 : next = LedgerSteps[i]} = {}
      BY <2>1, Steps
    <3>2. Reached(t) = s.status /\ Reached(s) = s.status
      BY <1>1, <1>2, <2>1 DEF Reached, IsBlocked
    <3>. QED
      BY <1>3, <2>1, <3>1, <3>2 DEF Leads
  <2>2. CASE next = LedgerSteps[m] /\ m \in {n, n + 1}
    <3>1. {i \in 1 .. 4 : next = LedgerSteps[i]} = {m}
      BY <2>2, Steps
    <3>2. Reached(t) = next
      BY <2>2, Steps DEF Reached, IsBlocked
    <3>3. ((2 .. n) \cup {m}) \ {1} = 2 .. m
      BY <2>2
    <3>4. Dated(t) \ {1} = ((Dated(s) \ {1}) \cup {m}) \ {1}
      BY <1>3, <3>1
    <3>. QED
      BY <2>2, <3>2, <3>3, <3>4 DEF Leads
  <2>. QED
    BY <2>1, <2>2
<1>. QED
  BY <1>1, <1>2, <1>4 DEF Trace

LEMMA MovedType ==
    ASSUME order \in Order, NEW next \in EscrowState
    PROVE  /\ Moved(next) \in Order /\ Moved(next).status = next
           /\ Moved(next).proof = order.proof
           /\ Moved(next).ledger =
                Append(order.ledger, [previousStatus |-> order.status, currentStatus |-> next])
<1>. DEFINE e == [previousStatus |-> order.status, currentStatus |-> next]
<1>1. e \in Entry
  BY DEF Order, Entry
<1>2. Moved(next) = [order EXCEPT !.status = next, !.ledger = Append(@, e)]
  BY DEF Moved
<1>. HIDE DEF e
<1>3. Append(order.ledger, e) \in Seq(Entry)
  BY <1>1 DEF Order
<1>4. /\ Moved(next) \in Order /\ Moved(next).status = next
      /\ Moved(next).proof = order.proof
      /\ Moved(next).ledger = Append(order.ledger, e)
  BY <1>2, <1>3 DEF Order
<1>. QED
  BY <1>4 DEF e

(* A step forward by the webhook, the proof or the release.                *)
LEMMA ForwardSteps ==
    ASSUME order \in Trace, Lock \/ VerifyProofOfDelivery \/ ReleaseFunds
    PROVE  order' \in Trace
<1>1. order \in Order
  BY DEF Trace
<1>2. PICK n \in 1 .. 4 : Leads(order, n)
  BY DEF Trace
<1>3. ASSUME order.status # "BLOCKED" PROVE LedgerSteps[n] = order.status
  BY <1>2, <1>3 DEF Leads, Reached, IsBlocked
<1>4. CASE Lock
  <2>1. n = 1 /\ "LOCKED" \in EscrowState /\ LedgerSteps[2] = "LOCKED"
    BY <1>3, <1>4, Steps DEF Lock, Transition, EscrowState
  <2>2. order' = Moved("LOCKED")
    BY <1>4 DEF Lock, Transition
  <2>3. /\ order' \in Order /\ order'.status = "LOCKED"
        /\ order'.ledger = Append(order.ledger, [previousStatus |-> order.status, currentStatus |-> "LOCKED"])
    BY <1>1, <2>1, <2>2, MovedType
  <2>. QED
    BY <1>2, <2>1, <2>3, TraceMoves
<1>5. CASE VerifyProofOfDelivery
  <2>1. n = 2 /\ "DELIVERED" \in EscrowState /\ LedgerSteps[3] = "DELIVERED"
    BY <1>3, <1>5, Steps DEF VerifyProofOfDelivery, EscrowState
  <2>2. /\ order' \in Order /\ order'.status = "DELIVERED" /\ order'.proof
        /\ order'.ledger = Append(order.ledger, [previousStatus |-> order.status, currentStatus |-> "DELIVERED"])
    BY <1>1, <1>5, <2>1, MovedType DEF VerifyProofOfDelivery, Order
  <2>. QED
    BY <1>2, <2>1, <2>2, TraceMoves
<1>6. CASE ReleaseFunds
  <2>1. n = 3 /\ "RELEASED" \in EscrowState /\ LedgerSteps[4] = "RELEASED" /\ order.proof
    BY <1>2, <1>3, <1>6, Steps DEF Leads, ReleaseFunds, Transition, EscrowState
  <2>2. order' = Moved("RELEASED")
    BY <1>6 DEF ReleaseFunds, Transition
  <2>3. /\ order' \in Order /\ order'.status = "RELEASED" /\ order'.proof
        /\ order'.ledger = Append(order.ledger, [previousStatus |-> order.status, currentStatus |-> "RELEASED"])
    BY <1>1, <2>1, <2>2, MovedType
  <2>. QED
    BY <1>2, <2>1, <2>3, TraceMoves
<1>. QED
  BY <1>4, <1>5, <1>6

LEMMA BlockStep == ASSUME order \in Trace, BlockOrder PROVE order' \in Trace
<1>1. order \in Order
  BY DEF Trace
<1>2. PICK n \in 1 .. 4 : Leads(order, n)
  BY DEF Trace
<1>3. n >= 3 => order.proof
  BY <1>2 DEF Leads
<1>4. "BLOCKED" \in EscrowState
  BY DEF EscrowState
<1>. QED
  BY <1>1, <1>2, <1>3, <1>4, MovedType, TraceMoves DEF BlockOrder

(* The last entry of a blocked order is its last block, and unblocking     *)
(* takes it back to where it stood.                                        *)
LEMMA LastIsBlock ==
    ASSUME NEW s \in Trace, IsBlocked(s)
    PROVE  LastBlock(s.ledger) = Len(s.ledger)
<1>1. /\ s.ledger \in Seq(Entry) /\ s.ledger # <<>>
      /\ s.ledger[Len(s.ledger)].currentStatus = "BLOCKED"
  BY DEF Trace, Order, IsBlocked
<1>2. /\ Len(s.ledger) \in DOMAIN s.ledger
      /\ \A j \in DOMAIN s.ledger : j \in Nat /\ j <= Len(s.ledger)
  BY <1>1
<1>3. Len(s.ledger) \in Nat
  BY <1>1
<1>. QED
  BY <1>1, <1>2, <1>3 DEF LastBlock

LEMMA UnblockStep == ASSUME order \in Trace, UnblockOrder PROVE order' \in Trace
<1>1. order \in Order
  BY DEF Trace
<1>2. PICK n \in 1 .. 4 : Leads(order, n)
  BY DEF Trace
<1>3. n >= 3 => order.proof
  BY <1>2 DEF Leads
<1>4. order' = Moved(LedgerSteps[n])
  <2>1. IsBlocked(order)
    BY DEF UnblockOrder, IsBlocked
  <2>2. order.ledger[LastBlock(order.ledger)].previousStatus = LedgerSteps[n]
    BY <1>2, <2>1, LastIsBlock DEF Leads, Reached
  <2>. QED
    BY <2>2 DEF UnblockOrder
<1>5. LedgerSteps[n] \in EscrowState
  BY Steps
<1>. QED
  BY <1>1, <1>2, <1>3, <1>4, <1>5, MovedType, TraceMoves

LEMMA CreatedTrace ==
    ASSUME NEW x \in {"INITIATED", "LOCKED"} PROVE Created(x) \in Trace
<1>. DEFINE s == Created(x)
            e == [previousStatus |-> "INITIATED", currentStatus |-> x]
            n == IF x = "LOCKED" THEN 2 ELSE 1
<1>1. /\ s \in Order /\ s.ledger = <<e>> /\ s.status = x /\ ~IsBlocked(s)
      /\ e.currentStatus = x
  BY DEF Created, Order, Entry, EscrowState, IsBlocked
<1>2. n \in 1 .. 4 /\ LedgerSteps[n] = x /\ Reached(s) = x /\ ~(n >= 3)
  BY <1>1, Steps DEF Reached
<1>3. ToSet(s.ledger) = {e}
  BY <1>1 DEF ToSet
<1>4. Dated(s) = {n}
  BY <1>1, <1>2, <1>3, Steps DEF Dated
<1>5. {n} \ {1} = 2 .. n
  OBVIOUS
<1>6. Leads(s, n)
  BY <1>2, <1>4, <1>5 DEF Leads
<1>7. s.ledger # <<>> /\ s.ledger[Len(s.ledger)] = e
  BY <1>1
<1>8. \E i \in 1 .. 4 : Leads(s, i)
  BY <1>2, <1>6
<1>9. s.ledger[Len(s.ledger)].currentStatus = s.status
  BY <1>1, <1>7
<1>. HIDE DEF s
<1>10. s \in Trace
  BY <1>1, <1>7, <1>8, <1>9 DEF Trace
<1>. QED
  BY <1>10 DEF s

-----------------------------------------------------------------------------
LEMMA HonestIsPage == Honest \subseteq Page
<1>. SUFFICES ASSUME NEW k \in Kinds, NEW r \in Opened(k) PROVE r \in Page
  BY DEF Honest
<1>1. Told(k) \subseteq Order \cup {Missing}
  BY DEF Told, Truth, Trace
<1>2. Awaited(k) \subseteq [filter : Filters, got : Order \cup {Missing, Pending}]
  BY <1>1 DEF Awaited
<1>3. r.asked \in Seq([filter : Filters, got : Order \cup {Missing, Pending}])
  BY <1>2, SeqMonotonic DEF Opened
<1>. QED
  BY <1>1, <1>3 DEF Opened, Pcs, Page

LEMMA HonestKind == ASSUME NEW r \in Honest PROVE r.kind \in Kinds /\ r \in Opened(r.kind)
BY DEF Honest, Opened

LEMMA AskingType ==
    ASSUME NEW k, NEW f \in Filters PROVE Asking(f) \in Awaited(k)
BY DEF Asking, Awaited

(* Whatever the server answers, it is where the order stands.              *)
LEMMA AnswerTold ==
    ASSUME order \in Trace, NEW k \in Kinds, NEW f \in Filters
    PROVE  Answer(k, f) \in Told(k)
<1>1. Listed(f) \in Order \cup {Missing} /\ Listed("LOCKED") \in Order \cup {Missing}
  <2>1. Row \in Order
    <3>1. order \in Order /\ <<>> \in Seq(Entry)
      BY DEF Trace
    <3>. QED
      BY <3>1 DEF Row, Order
  <2>. QED
    BY <2>1 DEF Listed
<1>2. CASE k \in Details
  BY <1>2 DEF Answer, Details, AdminFindOne, FindOne, Told, Truth
<1>3. CASE k \notin Details
  <2>1. Told(k) = Order \cup {Missing}
    BY <1>3 DEF Told, Truth
  <2>2. Answer(k, f) \in {Listed(f), Listed("LOCKED")}
    BY <1>3 DEF Answer, Kinds, Details, Lists, AdminFindAll,
                FarmerFindAll, RetailerFindAll, FarmerEscrows
  <2>. QED
    BY <1>1, <2>1, <2>2
<1>. QED
  BY <1>2, <1>3

(* What a page does with itself keeps it honest.                           *)
LEMMA IdleHonest ==
    ASSUME NEW p, page[p] \in Honest PROVE Idle(p) \in Honest
<1>1. "idle" \in Pcs
  BY DEF Pcs
<1>. QED
  BY <1>1, HonestKind DEF Idle, Opened, Honest

LEMMA AsksHonest ==
    ASSUME NEW p, page[p] \in Honest, NEW pc \in Pcs, NEW l \in BOOLEAN, NEW n \in 0 .. 3
    PROVE  /\ [Asks(p) EXCEPT !.pc = pc] \in Honest
           /\ [Asks(p) EXCEPT !.pc = pc, !.loading = l] \in Honest
           /\ [Asks(p) EXCEPT !.pc = pc, !.step = n] \in Honest
<1>. DEFINE k == page[p].kind
            q == Asking(page[p].filter)
<1>1. page[p] \in Opened(k) /\ k \in Kinds
  BY HonestKind
<1>2. q \in Awaited(k)
  BY <1>1, AskingType DEF Opened
<1>. HIDE DEF k
<1>3. Asks(p) \in Opened(k)
  <2>. HIDE DEF q
  <2>1. Append(page[p].asked, q) \in Seq(Awaited(k))
    BY <1>1, <1>2 DEF Opened
  <2>2. [page[p] EXCEPT !.asked = Append(@, q), !.loading = TRUE] \in Opened(k)
    BY <1>1, <2>1 DEF Opened
  <2>. QED
    BY <2>2 DEF Asks, q
<1>4. /\ [Asks(p) EXCEPT !.pc = pc] \in Opened(k)
      /\ [Asks(p) EXCEPT !.pc = pc, !.loading = l] \in Opened(k)
      /\ [Asks(p) EXCEPT !.pc = pc, !.step = n] \in Opened(k)
  BY <1>3 DEF Opened
<1>. QED
  BY <1>1, <1>4 DEF Honest

LEMMA ServedHonest ==
    ASSUME NEW p, page[p] \in Honest, order \in Trace, NEW i \in DOMAIN page[p].asked
    PROVE  [page[p] EXCEPT !.asked[i].got = Answer(page[p].kind, page[p].asked[i].filter)] \in Honest
<1>. DEFINE k == page[p].kind
            v == Answer(page[p].kind, page[p].asked[i].filter)
            a == [page[p].asked EXCEPT ![i] = [page[p].asked[i] EXCEPT !.got = v]]
<1>1. page[p] \in Opened(k) /\ k \in Kinds
  BY HonestKind
<1>2. page[p].asked \in Seq(Awaited(k)) /\ page[p].asked[i] \in Awaited(k)
  BY <1>1 DEF Opened
<1>3. v \in Told(k)
  BY <1>1, <1>2, AnswerTold DEF Awaited
<1>. HIDE DEF v, k
<1>4. [page[p].asked[i] EXCEPT !.got = v] \in Awaited(k)
  BY <1>2, <1>3 DEF Awaited
<1>5. a \in Seq(Awaited(k))
  BY <1>2, <1>4, ExceptSeq, LenProperties
<1>. HIDE DEF a
<1>6. [page[p] EXCEPT !.asked = a] \in Opened(k)
  BY <1>1, <1>5 DEF Opened
<1>7. [page[p] EXCEPT !.asked[i].got = v] = [page[p] EXCEPT !.asked = a]
  BY DEF a
<1>. QED
  BY <1>1, <1>6, <1>7 DEF Honest, v

LEMMA ArrivedHonest ==
    ASSUME NEW p, page[p] \in Honest, NEW i \in DOMAIN page[p].asked, NEW x \in Told(page[p].kind)
    PROVE  [Arrived(p, i) EXCEPT !.shown = x] \in Honest
<1>. DEFINE k == page[p].kind
            a == RemoveAt(page[p].asked, i)
            c == IF page[p].pc = "reload" THEN "idle" ELSE page[p].pc
<1>1. page[p] \in Opened(k) /\ k \in Kinds
  BY HonestKind
<1>2. a \in Seq(Awaited(k)) /\ c \in Pcs /\ x \in Told(k)
  <2>1. page[p].asked \in Seq(Awaited(k)) /\ page[p].pc \in Pcs
    BY <1>1 DEF Opened
  <2>2. a \in Seq(Awaited(k))
    BY <2>1 DEF RemoveAt
  <2>. QED
    BY <2>1, <2>2 DEF Pcs
<1>. HIDE DEF k, a
<1>3. Arrived(p, i) \in Opened(k)
  <2>1. [page[p] EXCEPT !.asked = a, !.loading = FALSE, !.pc = c] \in Opened(k)
    BY <1>1, <1>2 DEF Opened
  <2>. QED
    BY <2>1 DEF Arrived, a
<1>4. [Arrived(p, i) EXCEPT !.shown = x] \in Opened(k)
  BY <1>2, <1>3 DEF Opened
<1>. QED
  BY <1>1, <1>4 DEF Honest

-----------------------------------------------------------------------------
LEMMA SetHonest ==
    ASSUME page \in [Pages -> Honest], NEW p \in Pages, NEW r \in Honest, Set(p, r)
    PROVE  page' \in [Pages -> Honest]
BY DEF Set

LEMMA PagesInit == Init => PagesInv
<1>. SUFFICES ASSUME Init PROVE PagesInv
  OBVIOUS
<1>1. order \in Trace
  BY CreatedTrace DEF Init
<1>2. ASSUME NEW k \in Kinds PROVE NewPage(k) \in Honest
  <2>1. "All" \in Filters /\ "idle" \in Pcs /\ Missing \in Told(k)
    BY DEF Filters, Pcs, Told
  <2>2. <<Asking("All")>> \in Seq(Awaited(k))
    BY <2>1, AskingType
  <2>3. NewPage(k) \in Opened(k)
    BY <2>1, <2>2 DEF NewPage, Opened
  <2>. QED
    BY <2>3 DEF Honest
<1>. QED
  BY <1>1, <1>2 DEF Init, PagesInv

LEMMA FetchSteps ==
    ASSUME PagesInv, NEW p \in Pages, NEW i \in DOMAIN page[p].asked, Fetch(p, i) \/ FetchFails(p, i)
    PROVE  PagesInv'
<1>1. page \in [Pages -> Honest] /\ page[p] \in Honest /\ order \in Trace
  BY DEF PagesInv
<1>2. page[p] \in Opened(page[p].kind)
  BY <1>1, HonestKind
<1>3. order' = order
  BY DEF Fetch, Serve, Show, FetchFails
<1>4. page' \in [Pages -> Honest]
  <2>1. CASE Serve(p, i)
    BY <1>1, <2>1, ServedHonest, SetHonest DEF Serve
  <2>2. CASE Show(p, i)
    <3>1. page[p].asked[i] \in Awaited(page[p].kind)
      BY <1>2 DEF Opened
    <3>2. page[p].asked[i].got \in Told(page[p].kind)
      BY <2>2, <3>1 DEF Show, Awaited
    <3>. QED
      BY <1>1, <2>2, <3>2, ArrivedHonest, SetHonest DEF Show
  <2>3. CASE FetchFails(p, i)
    <3>. DEFINE x == IF page[p].kind = "escrows" THEN Missing ELSE page[p].shown
    <3>1. x \in Told(page[p].kind)
      BY <1>2 DEF Opened, Told
    <3>2. Arrived(p, i).shown = page[p].shown
      BY <1>2 DEF Arrived, Opened
    <3>3. [Arrived(p, i) EXCEPT !.shown = x] \in Honest
      BY <1>1, <3>1, ArrivedHonest
    <3>4. Set(p, [Arrived(p, i) EXCEPT !.shown = x])
      BY <2>3, <3>2 DEF FetchFails
    <3>. QED
      BY <1>1, <3>3, <3>4, SetHonest
  <2>. QED
    BY <2>1, <2>2, <2>3 DEF Fetch
<1>. QED
  BY <1>1, <1>3, <1>4 DEF PagesInv

LEMMA UpdateParamStep ==
    ASSUME PagesInv, NEW p \in Pages, NEW f \in Filters, UpdateParam(p, f) PROVE PagesInv'
<1>1. page \in [Pages -> Honest] /\ page[p] \in Honest /\ order \in Trace
  BY DEF PagesInv
<1>. DEFINE k == page[p].kind
            q == Asking(f)
<1>2. page[p] \in Opened(k) /\ k \in Kinds
  BY <1>1, HonestKind
<1>3. Append(page[p].asked, q) \in Seq(Awaited(k))
  <2>1. q \in Awaited(k) /\ page[p].asked \in Seq(Awaited(k))
    BY <1>2, AskingType DEF Opened
  <2>. HIDE DEF q
  <2>. QED
    BY <2>1
<1>. HIDE DEF k, q
<1>4. [page[p] EXCEPT !.filter = f, !.asked = Append(@, q), !.loading = TRUE] \in Opened(k)
  BY <1>2, <1>3 DEF Opened
<1>5. [page[p] EXCEPT !.filter = f, !.asked = Append(@, q), !.loading = TRUE] \in Honest
  BY <1>2, <1>4 DEF Honest
<1>6. page' \in [Pages -> Honest] /\ order' = order
  BY <1>1, <1>5, SetHonest DEF UpdateParam, q
<1>. QED
  BY <1>1, <1>6 DEF PagesInv

(* The buttons and the dialog only move the page itself on.                *)
LEMMA MovedHonest ==
    ASSUME NEW p, page[p] \in Honest, NEW pc \in Pcs, NEW n \in 0 .. 3
    PROVE  /\ [page[p] EXCEPT !.pc = pc] \in Honest /\ [page[p] EXCEPT !.step = n] \in Honest
           /\ [page[p] EXCEPT !.step = n, !.pc = pc] \in Honest
<1>1. page[p] \in Opened(page[p].kind) /\ page[p].kind \in Kinds
  BY HonestKind
<1>. DEFINE k == page[p].kind
<1>. HIDE DEF k
<1>2. page[p] \in Opened(k) /\ k \in Kinds
  BY <1>1 DEF k
<1>3. /\ [page[p] EXCEPT !.pc = pc] \in Opened(k) /\ [page[p] EXCEPT !.step = n] \in Opened(k)
      /\ [page[p] EXCEPT !.step = n, !.pc = pc] \in Opened(k)
  BY <1>2 DEF Opened
<1>. QED
  BY <1>2, <1>3 DEF Honest

LEMMA ButtonSteps ==
    ASSUME PagesInv, NEW p \in Pages, AdminOrder(p) \/ EscrowModal(p)
    PROVE  PagesInv'
<1>1. page \in [Pages -> Honest] /\ page[p] \in Honest /\ order \in Trace
  BY DEF PagesInv
<1>2. order' = order
  BY DEF AdminOrder, EscrowModal, HandleBlock, HandleUnblock, CallLost,
         OpenModal, HandleFile, UploadAgain, HandleClose
<1>3. PICK r \in Honest : Set(p, r)
  <2>1. {"block", "unblock", "upload"} \subseteq Pcs /\ {0, 1, 2} \subseteq 0 .. 3
    BY DEF Pcs
  <2>2. CASE AdminOrder(p)
    BY <1>1, <2>1, <2>2, MovedHonest, IdleHonest
       DEF AdminOrder, HandleBlock, HandleUnblock, CallLost
  <2>3. CASE EscrowModal(p)
    BY <1>1, <2>1, <2>3, MovedHonest
       DEF EscrowModal, OpenModal, HandleFile, UploadAgain, HandleClose
  <2>. QED
    BY <2>2, <2>3
<1>4. page' \in [Pages -> Honest]
  BY <1>1, <1>3, SetHonest
<1>. QED
  BY <1>1, <1>2, <1>4 DEF PagesInv

(* The handlers a page calls, and what it makes of their answers.          *)
LEMMA ReloadedHonest == ASSUME NEW p, page[p] \in Honest PROVE Reloaded(p) \in Honest
<1>1. "idle" \in Pcs /\ "reload" \in Pcs /\ page[p].loading \in BOOLEAN /\ 0 \in 0 .. 3
  BY HonestKind DEF Pcs, Opened
<1>2. [Asks(p) EXCEPT !.pc = "idle"] \in Honest
  BY <1>1, AsksHonest
<1>3. [Asks(p) EXCEPT !.pc = "reload", !.loading = page[p].loading] \in Honest
  BY <1>1, AsksHonest
<1>. QED
  BY <1>2, <1>3 DEF Reloaded

LEMMA AnswersStep == ASSUME PagesInv, NEW p \in Pages, Answers(p) PROVE PagesInv'
<1>1. page \in [Pages -> Honest] /\ page[p] \in Honest /\ order \in Trace
  BY DEF PagesInv
<1>2. {"idle", "release"} \subseteq Pcs /\ {0, 3} \subseteq 0 .. 3
  BY DEF Pcs
<1>3. (\E r \in Honest : Set(p, r)) /\ order' \in Trace
  <2>1. CASE Called(p, "block", BlockOrder)
    BY <1>1, <2>1, ReloadedHonest, IdleHonest, BlockStep DEF Called
  <2>2. CASE Called(p, "unblock", UnblockOrder)
    BY <1>1, <2>2, ReloadedHonest, IdleHonest, UnblockStep DEF Called
  <2>3. CASE BlockRefused(p) \/ UnblockRefused(p)
    BY <1>1, <2>3, IdleHonest DEF BlockRefused, UnblockRefused
  <2>4. CASE RunOcr(p)
    BY <1>1, <1>2, <2>4, MovedHonest, IdleHonest, ForwardSteps DEF RunOcr
  <2>5. CASE RunRelease(p)
    BY <1>1, <1>2, <2>5, AsksHonest, IdleHonest, ForwardSteps DEF RunRelease
  <2>. QED
    BY <2>1, <2>2, <2>3, <2>4, <2>5 DEF Answers
<1>4. page' \in [Pages -> Honest]
  BY <1>1, <1>3, SetHonest
<1>. QED
  BY <1>3, <1>4 DEF PagesInv

LEMMA PagesStep == PagesInv /\ [Next]_vars => PagesInv'
<1>. SUFFICES ASSUME PagesInv, [Next]_vars PROVE PagesInv'
  OBVIOUS
<1>1. CASE UNCHANGED vars
  BY <1>1 DEF vars, PagesInv
<1>2. ASSUME NEW p \in Pages, NEW i \in DOMAIN page[p].asked, Fetch(p, i) \/ FetchFails(p, i)
      PROVE  PagesInv'
  BY <1>2, FetchSteps
<1>3. ASSUME NEW p \in Pages, NEW f \in Filters, UpdateParam(p, f) PROVE PagesInv'
  BY <1>3, UpdateParamStep
<1>4. ASSUME NEW p \in Pages, Answers(p) PROVE PagesInv'
  BY <1>4, AnswersStep
<1>5. ASSUME NEW p \in Pages, AdminOrder(p) \/ EscrowModal(p) PROVE PagesInv'
  BY <1>5, ButtonSteps
<1>6. CASE Elsewhere
  BY <1>6, ForwardSteps, BlockStep, UnblockStep DEF Elsewhere, PagesInv
<1>. QED
  BY <1>1, <1>2, <1>3, <1>4, <1>5, <1>6 DEF Next

(* Whoever moves the order on, and whatever is lost or comes late: the     *)
(* order's ledger tells how it came to its status, and so does every       *)
(* answer under way and every page that shows one (transition,             *)
(* findOne, adminFindOne).                                                 *)
THEOREM PagesInvariance == Spec => []PagesInv
BY PagesInit, PagesStep, PTL DEF Spec

(* Type correctness, for any pages and however often the order is blocked. *)
THEOREM PagesTypeCorrect == Spec => []TypeOK
<1>1. PagesInv => TypeOK
  BY HonestIsPage DEF PagesInv, Trace, TypeOK
<1>. QED
  BY <1>1, PagesInvariance, PTL

(* The history that a page of an order shows hangs together (the timelines *)
(* of the order pages of admin, farmer and retailer).                      *)
THEOREM Histories == Spec => []PageTellsHistory
<1>1. PagesInv => PageTellsHistory
  <2>. SUFFICES ASSUME PagesInv, NEW p \in Pages, page[p].kind \in Details, page[p].shown # Missing
                PROVE  /\ ~IsBlocked(page[p].shown)
                            => Shows(p).done \ {1} = Shows(p).dated \ {1}
                       /\ IsBlocked(page[p].shown)
                            => Shows(p).before \in ToSet(LedgerSteps)
                       /\ page[p].shown.status = "RELEASED" => Shows(p).pod /\ page[p].shown.proof
    BY DEF PageTellsHistory
  <2>. DEFINE s == page[p].shown
  <2>1. s \in Trace
    BY HonestKind DEF PagesInv, Opened, Told, Truth
  <2>2. PICK n \in 1 .. 4 : Leads(s, n)
    BY <2>1 DEF Trace
  <2>3. /\ Shows(p).done = Done(s) /\ Shows(p).dated = Dated(s)
        /\ Shows(p).before = BeforeBlock(s)
        /\ Shows(p).pod = (s.status = "RELEASED") \/ Shows(p).pod = (s.status = "RELEASED" /\ s.proof)
    BY DEF Shows, Details, AdminOrderPage, RetailerOrderPage, FarmerOrderPage
  <2>4. ASSUME ~IsBlocked(s) PROVE Done(s) \ {1} = Dated(s) \ {1}
    <3>1. LedgerSteps[n] = s.status
      BY <2>2, <2>4 DEF Leads, Reached
    <3>2. CurrentStep(s) = n
      BY <3>1, Steps DEF CurrentStep
    <3>3. (1 .. n) \ {1} = 2 .. n
      OBVIOUS
    <3>. QED
      BY <2>2, <2>4, <3>2, <3>3 DEF Leads, Done
  <2>5. ASSUME IsBlocked(s) PROVE BeforeBlock(s) \in ToSet(LedgerSteps)
    <3>1. BeforeBlock(s) = LedgerSteps[n]
      BY <2>1, <2>2, <2>5, LastIsBlock DEF BeforeBlock, Leads, Reached
    <3>. QED
      BY <3>1, Steps DEF ToSet
  <2>6. ASSUME s.status = "RELEASED" PROVE s.proof
    <3>1. LedgerSteps[n] = "RELEASED"
      BY <2>2, <2>6 DEF Leads, Reached, IsBlocked
    <3>2. n = 4
      BY <3>1, Steps
    <3>. QED
      BY <2>2, <3>2 DEF Leads
  <2>. HIDE DEF s
  <2>7. /\ ~IsBlocked(s) => Shows(p).done \ {1} = Shows(p).dated \ {1}
        /\ IsBlocked(s) => Shows(p).before \in ToSet(LedgerSteps)
        /\ s.status = "RELEASED" => Shows(p).pod /\ s.proof
    BY <2>3, <2>4, <2>5, <2>6
  <2>. QED
    BY <2>7 DEF s
<1>. QED
  BY <1>1, PagesInvariance, PTL

(* Unblocking takes an order where the banner of a page that knows its     *)
(* ledger says it will (unblockOrder and the pages find the last block     *)
(* each for themselves).                                                   *)
THEOREM Banners == Spec => BannerIsKept
<1>. DEFINE Kept(p) ==
       /\ page[p].kind \in Details /\ IsBlocked(page[p].shown)
       /\ page[p].shown.ledger = order.ledger /\ order'.status # "BLOCKED"
       => order'.status = Shows(p).before
<1>1. PagesInv /\ [Next]_vars => [\A p \in Pages : Kept(p)]_vars
  <2>. SUFFICES ASSUME PagesInv, Next, NEW p \in Pages, page[p].kind \in Details,
                       IsBlocked(page[p].shown), page[p].shown.ledger = order.ledger,
                       order'.status # "BLOCKED"
                PROVE  order'.status = Shows(p).before
    BY DEF Kept
  <2>1. order \in Trace /\ page[p].shown \in Trace
    <3>1. Missing.status = None /\ Missing.ledger = <<>>
      BY DEF Missing
    <3>2. page[p].shown \in Trace \cup {Missing}
      BY HonestKind DEF PagesInv, Opened, Told, Truth
    <3>3. order \in Trace /\ order.ledger # <<>>
      BY DEF PagesInv, Trace
    <3>. QED
      BY <3>1, <3>2, <3>3
  <2>2. order.status = "BLOCKED"
    BY <2>1 DEF Trace, IsBlocked
  <2>3. UnblockOrder
    BY <2>2 DEF Next, Fetch, Serve, Show, FetchFails, UpdateParam,
                Answers, Called, BlockRefused, UnblockRefused, RunOcr,
                RunRelease, AdminOrder, HandleBlock, HandleUnblock, CallLost,
                EscrowModal, OpenModal, HandleFile, UploadAgain, HandleClose,
                Elsewhere, Lock, VerifyProofOfDelivery, ReleaseFunds,
                Transition, BlockOrder
  <2>4. Shows(p).before = order.ledger[LastBlock(order.ledger)].previousStatus
    BY DEF Shows, Details, AdminOrderPage, RetailerOrderPage,
           FarmerOrderPage, BeforeBlock
  <2>5. Shows(p).before \in EscrowState
    <3>1. LastBlock(order.ledger) = Len(order.ledger)
      BY <2>1, <2>2, LastIsBlock DEF IsBlocked
    <3>2. order.ledger \in Seq(Entry) /\ order.ledger # <<>>
      BY <2>1 DEF Trace, Order
    <3>3. order.ledger[Len(order.ledger)] \in Entry
      BY <3>2
    <3>. QED
      BY <2>4, <3>1, <3>3 DEF Entry
  <2>. QED
    BY <2>1, <2>3, <2>4, <2>5, MovedType DEF UnblockOrder, Trace
<1>2. Spec => []PagesInv /\ [][Next]_vars
  BY PagesInvariance DEF Spec
<1>. QED
  BY <1>1, <1>2, PTL DEF BannerIsKept
=============================================================================
