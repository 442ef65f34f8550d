----------------------------- MODULE KycProofs -----------------------------
(***************************************************************************)
(* What holds of identity verification for any users, browsers, phones and *)
(* sessions, whatever overlaps or is lost.  Each step of a session relies  *)
(* on what an earlier one left behind, possibly for another phone, so the  *)
(* invariant says what each row, each page and each call in flight has     *)
(* evidence for.  The evidence, what the vision service answered, only     *)
(* grows.                                                                  *)
(***************************************************************************)
EXTENDS Kyc, TLAPS

(* What a page and the call it waits for have in common.                   *)
Asks(t) ==
    /\ call[t].pc \in {"info", "accepted"} /\ page[t].step = 1 => page[t].number \in Numbers
    /\ page[t].step = 2 => page[t].number \in Numbers
    /\ call[t].pc = "info" => page[t].step = 1
    /\ call[t].pc = "card" =>
         page[t].step = 2 /\ call[t].cin \in Cards /\ call[t].number \in Numbers
    /\ call[t].pc \in {"face", "compare", "device", "notify"} => page[t].step = 3
    /\ call[t].pc \in {"accepted", "refused"} => page[t].step # 4

(* A session that is mentioned anywhere exists.                            *)
Known(t) ==
    /\ SessionOf(t) = None => call[t] = NoCall
    /\ SessionOf(t) # None => Exists(SessionOf(t))
SessionsExist ==
    /\ \A t \in Tabs : Known(t)
    /\ \A s \in passed : Exists(s)
    /\ \A d \in Devices : desk[d].session # None => Exists(desk[d].session)
    /\ \A d \in Devices : \A s \in opened[d] : Exists(s)

(* What a call has evidence for.                                           *)
Compares(t) ==
    call[t].pc = "compare" =>
        /\ call[t].cin \in Cards /\ ReadCard(call[t].cin)
        /\ row[SessionOf(t)].mode = "REAUTH" => HasProfile(UserOf(SessionOf(t)))
        /\ call[t].face \in Faces
Trusts(t) ==
    /\ call[t].pc = "face" => call[t].face \in Faces
    /\ call[t].pc \in {"device", "notify"} =>
         HasProfile(UserOf(SessionOf(t))) /\ SessionOf(t) \in passed
RowsRead == \A s \in Sessions : row[s].cin # None => ReadCard(row[s].cin)

Evidence ==
    /\ RowsRead
    /\ \A t \in Tabs : Asks(t) /\ Compares(t) /\ Trusts(t)

IInv == TypeOK /\ SessionsExist /\ Evidence /\ ProfileIsEvidenced /\ DeviceIsVetted

-----------------------------------------------------------------------------
LEMMA KycConstants ==
    /\ None \notin Users /\ None \notin Devices /\ None \notin Numbers /\ None \notin Cards /\ None \notin Faces
    /\ None \notin Sessions
    /\ Login \in [Devices -> Users]
BY KycAssumption DEF Sessions

LEMMA InitInv == Init => IInv
BY KycConstants DEF Init, IInv, TypeOK, SessionsExist, Known, Evidence, RowsRead, Asks, Compares,
   Trusts, ProfileIsEvidenced, DeviceIsVetted, NoRow, NoProfile, FreshDesk, NoPage, NoCall,
   Row, Profile, Desk, Page, Call, Stages, Modes, Exists, HasProfile, SessionOf

(* A browser that reads, clicks, closes, hears or loses something leaves   *)
(* what the server, the phones and the vision service know alone.          *)
LEMMA BrowserStep ==
    ASSUME IInv, UNCHANGED <<server, page, call, vision>>,
           TypeOK',
           \A d \in Devices : desk'[d].session \in {None, desk[d].session} \cup opened[d],
           \A d \in Devices : opened'[d] \subseteq opened[d]
    PROVE  IInv'
<1>1. SessionsExist'
  BY DEF IInv, SessionsExist, Known, Exists, SessionOf, server, vision, TypeOK, Desk
<1>2. Evidence'
  BY DEF IInv, Evidence, RowsRead, Asks, Compares, Trusts, ReadCard, HasProfile, UserOf,
         SessionOf, server, vision
<1>3. ProfileIsEvidenced'
  BY DEF IInv, ProfileIsEvidenced, ReadCard, HasProfile, server, vision
<1>4. DeviceIsVetted'
  BY DEF IInv, DeviceIsVetted, UserOf, HasProfile, server, vision
<1>. QED
  BY <1>1, <1>2, <1>3, <1>4 DEF IInv

LEMMA BrowserSteps ==
    ASSUME IInv, NEW d \in Devices,
           \/ FetchStatus(d) \/ FetchFails(d) \/ HandleAction(d) \/ CancelAndClose(d)
           \/ OnProgress(d) \/ Reload(d) \/ SocketDrops(d)
           \/ \E s \in Sessions : ShowCode(d, s) \/ JoinRoom(d, s)
    PROVE  IInv'
<1>1. UNCHANGED <<server, page, call, vision>>
  BY DEF FetchStatus, FetchFails, HandleAction, CancelAndClose, OnProgress, Reload, SocketDrops,
         ShowCode, JoinRoom, Reset
<1>2. desk' \in [Devices -> Desk]
  <2>1. desk \in [Devices -> Desk]
    BY DEF IInv, TypeOK
  <2>2. CASE FetchStatus(d)
    BY <2>1, <2>2 DEF FetchStatus, TrustStatus, Desk
  <2>3. CASE FetchFails(d)
    BY <2>1, <2>3 DEF FetchFails, Desk
  <2>4. CASE HandleAction(d)
    BY <2>1, <2>4 DEF HandleAction, Desk
  <2>5. CASE CancelAndClose(d)
    BY <2>1, <2>5 DEF CancelAndClose, Desk
  <2>6. CASE OnProgress(d) \/ Reload(d)
    <3>1. FreshDesk \in Desk
      BY DEF FreshDesk, Desk
    <3>2. desk' = [desk EXCEPT ![d] = FreshDesk]
      BY <2>6 DEF OnProgress, Reload, Reset
    <3>. QED
      BY <2>1, <3>1, <3>2
  <2>7. CASE SocketDrops(d)
    BY <2>1, <2>7 DEF SocketDrops
  <2>8. CASE \E s \in Sessions : ShowCode(d, s) \/ JoinRoom(d, s)
    BY <2>1, <2>8 DEF ShowCode, JoinRoom, Desk
  <2>. QED
    BY <2>2, <2>3, <2>4, <2>5, <2>6, <2>7, <2>8
<1>3. TypeOK'
  BY <1>1, <1>2 DEF FetchStatus, FetchFails, HandleAction, CancelAndClose, OnProgress, Reload,
     SocketDrops, ShowCode, JoinRoom, Reset, IInv, TypeOK, server, vision
<1>4. \A x \in Devices : desk'[x].session \in {None, desk[x].session} \cup opened[x]
  <2>1. desk \in [Devices -> Desk] /\ opened \in [Devices -> SUBSET Sessions]
    BY DEF IInv, TypeOK
  <2>2. CASE FetchStatus(d) \/ FetchFails(d) \/ HandleAction(d) \/ CancelAndClose(d)
    BY <2>1, <2>2 DEF FetchStatus, FetchFails, HandleAction, CancelAndClose, Desk
  <2>3. CASE OnProgress(d) \/ Reload(d)
    BY <2>1, <2>3 DEF OnProgress, Reload, Reset, FreshDesk
  <2>4. CASE SocketDrops(d) \/ \E s \in Sessions : JoinRoom(d, s)
    BY <2>1, <2>4 DEF SocketDrops, JoinRoom
  <2>5. CASE \E s \in Sessions : ShowCode(d, s)
    BY <2>1, <2>5 DEF ShowCode, Desk
  <2>. QED
    BY <2>2, <2>3, <2>4, <2>5
<1>5. \A x \in Devices : opened'[x] \subseteq opened[x]
  BY DEF FetchStatus, FetchFails, HandleAction, CancelAndClose, OnProgress, Reload, SocketDrops,
         ShowCode, JoinRoom, Reset, IInv, TypeOK
<1>. QED
  BY <1>1, <1>3, <1>4, <1>5, BrowserStep

(* A new session has no card and is not mentioned anywhere yet.            *)
LEMMA InitSessionStep ==
    ASSUME IInv, NEW s \in Sessions,
           NEW r \in [user : Users, device : Devices \cup {None}, mode : Modes], InitSession(s, r),
           UNCHANGED <<profile, devices, desk, joining, rooms, news, cut, late, page, call, vision>>,
           \A d \in Devices : opened'[d] \subseteq opened[d] \cup {s},
           opened' \in [Devices -> SUBSET Sessions]
    PROVE  IInv'
<1>. USE KycConstants
<1>1. ~Exists(s)
  BY DEF InitSession, IsNew, Sessions
<1>2. row'[s] \in Row /\ row'[s].user \in Users /\ row'[s].cin = None
  BY DEF InitSession, IInv, TypeOK, Row
<1>3. \A x \in Sessions \ {s} : row'[x] = row[x]
  BY DEF InitSession, IInv, TypeOK
<1>4. TypeOK'
  BY <1>2, <1>3 DEF InitSession, IInv, TypeOK, vision
<1>5. \A x \in Sessions : Exists(x) => x # s /\ Exists(x)' /\ row'[x] = row[x]
  BY <1>1, <1>3 DEF Exists
<1>6. Exists(s)'
  BY <1>2 DEF Exists
<1>7. SessionsExist'
  BY <1>5, <1>6 DEF IInv, SessionsExist, Known, SessionOf, TypeOK, vision, Desk, Page
<1>8. \A t \in Tabs : call[t] # NoCall => SessionOf(t) \in Sessions /\ row'[SessionOf(t)] = row[SessionOf(t)]
  BY <1>5 DEF IInv, SessionsExist, Known, TypeOK, Page, SessionOf
<1>9. Evidence'
  BY <1>2, <1>3, <1>8 DEF IInv, Evidence, RowsRead, Asks, Compares, Trusts, ReadCard,
     HasProfile, UserOf, SessionOf, vision, NoCall
<1>10. ProfileIsEvidenced'
  BY DEF IInv, ProfileIsEvidenced, ReadCard, HasProfile, vision
<1>11. DeviceIsVetted'
  BY <1>5 DEF IInv, DeviceIsVetted, HasProfile, UserOf, vision, SessionsExist, TypeOK
<1>. QED
  BY <1>4, <1>7, <1>9, <1>10, <1>11 DEF IInv

LEMMA StartSteps ==
    ASSUME IInv,
           \/ \E d \in Devices, s \in Sessions : StartKyc(d, s)
           \/ \E s \in Sessions, r \in Requests : StartElsewhere(s, r)
    PROVE  IInv'
<1>1. ASSUME NEW d \in Devices, NEW s \in Sessions, StartKyc(d, s) PROVE IInv'
  <2> DEFINE r == [user |-> Login[d], device |-> d,
                   mode |-> IF desk[d].kind = "noProfile" THEN "FULL" ELSE "REAUTH"]
  <2>1. r \in [user : Users, device : Devices \cup {None}, mode : Modes]
    BY KycConstants DEF Modes
  <2>2. InitSession(s, r)
    BY <1>1 DEF StartKyc
  <2>3. /\ \A x \in Devices : opened'[x] \subseteq opened[x] \cup {s}
        /\ opened' \in [Devices -> SUBSET Sessions]
    BY <1>1 DEF StartKyc, IInv, TypeOK
  <2>4. UNCHANGED <<profile, devices, desk, joining, rooms, news, cut, late, page, call, vision>>
    BY <1>1 DEF StartKyc
  <2>. QED
    BY <2>1, <2>2, <2>3, <2>4, InitSessionStep
<1>2. ASSUME NEW s \in Sessions, NEW r \in Requests, StartElsewhere(s, r) PROVE IInv'
  <2>1. r \in [user : Users, device : Devices \cup {None}, mode : Modes]
    BY KycAssumption
  <2>2. InitSession(s, r)
    BY <1>2 DEF StartElsewhere
  <2>3. /\ UNCHANGED <<profile, devices, desk, joining, rooms, news, cut, late, page, call, vision>>
        /\ UNCHANGED opened
    BY <1>2 DEF StartElsewhere, browser
  <2>4. /\ \A x \in Devices : opened'[x] \subseteq opened[x] \cup {s}
        /\ opened' \in [Devices -> SUBSET Sessions]
    BY <2>3 DEF IInv, TypeOK
  <2>. QED
    BY <2>1, <2>2, <2>3, <2>4, InitSessionStep
<1>. QED
  BY <1>1, <1>2

-----------------------------------------------------------------------------
(* A step of one phone, with what it writes to the server, keeps what is   *)
(* said of the others when the rows and the evidence of their sessions     *)
(* stay.                                                                   *)
Others(t) == \A x \in Tabs \ {t} : page'[x] = page[x] /\ call'[x] = call[x]

LEMMA PhoneStep ==
    ASSUME IInv, NEW t \in Tabs, Others(t), TypeOK', UNCHANGED <<server, browser, vision>>,
           Known(t)', Asks(t)', Compares(t)', Trusts(t)'
    PROVE  IInv'
<1>1. SessionsExist'
  BY DEF IInv, SessionsExist, Known, Others, Exists, SessionOf, server, browser, vision
<1>2. \A x \in Tabs : Asks(x)' /\ Compares(x)' /\ Trusts(x)'
  <2>1. SUFFICES ASSUME NEW x \in Tabs \ {t} PROVE Asks(x)' /\ Compares(x)' /\ Trusts(x)'
    OBVIOUS
  <2>2. /\ page'[x] = page[x] /\ call'[x] = call[x]
        /\ Asks(x) /\ Compares(x) /\ Trusts(x)
    BY DEF Others, IInv, Evidence
  <2>3. Asks(x)'
    BY <2>2 DEF Asks
  <2>4. Compares(x)'
    BY <2>2 DEF Compares, SessionOf, UserOf, HasProfile, ReadCard, server, vision
  <2>5. Trusts(x)'
    BY <2>2 DEF Trusts, SessionOf, UserOf, HasProfile, server, vision
  <2>. QED
    BY <2>3, <2>4, <2>5
<1>3. Evidence'
  BY <1>2 DEF IInv, Evidence, RowsRead, ReadCard, server, vision
<1>4. ProfileIsEvidenced'
  BY DEF IInv, ProfileIsEvidenced, ReadCard, HasProfile, server, vision
<1>5. DeviceIsVetted'
  BY DEF IInv, DeviceIsVetted, UserOf, HasProfile, server, vision
<1>. QED
  BY <1>1, <1>3, <1>4, <1>5 DEF IInv

LEMMA ScanStep == ASSUME IInv, NEW t \in Tabs, NEW s \in Sessions, Scan(t, s) PROVE IInv'
<1>. USE KycConstants
<1>1. FreshPage(s) \in Page /\ FreshPage(s).step \in {1, 3} /\ FreshPage(s).session = s
  BY DEF FreshPage, Page
<1>2. page' = [page EXCEPT ![t] = FreshPage(s)] /\ call[t] = NoCall /\ Exists(s)
  BY DEF Scan, IInv, SessionsExist, Known, SessionOf, NoPage
<1>3. TypeOK'
  BY <1>1, <1>2 DEF Scan, IInv, TypeOK, server, browser, vision
<1>4. Others(t)
  BY DEF Scan, Others, IInv, TypeOK
<1>5. Known(t)' /\ Asks(t)' /\ Compares(t)' /\ Trusts(t)'
  BY <1>1, <1>2 DEF Scan, Known, Asks, Compares, Trusts, SessionOf, Exists, NoCall, IInv, TypeOK,
     server
<1>. QED
  BY <1>3, <1>4, <1>5, PhoneStep DEF Scan

LEMMA SubmitSteps ==
    ASSUME IInv, NEW t \in Tabs,
           \/ \E n \in Numbers : SubmitStep1(t, n)
           \/ \E c \in Cards : CaptureAndVerifyCin(t, c)
           \/ \E f \in Faces : CaptureAndVerifyFace(t, f)
    PROVE  IInv'
<1>. USE KycConstants
<1>1. CASE \E n \in Numbers : SubmitStep1(t, n)
  <2>1. PICK n \in Numbers : SubmitStep1(t, n)
    BY <1>1
  <2>2. page'[t] = [page[t] EXCEPT !.number = n] /\ page'[t] \in Page /\ page[t].step = 1
    BY <2>1 DEF SubmitStep1, InfoForm, IInv, TypeOK, Page
  <2>3. call'[t] = [NoCall EXCEPT !.pc = "info"] /\ call'[t] \in Call
    BY <2>1 DEF SubmitStep1, SubmitStep, NoCall, Call, Stages, IInv, TypeOK
  <2>4. Others(t)
    BY <2>1 DEF SubmitStep1, SubmitStep, Others, IInv, TypeOK
  <2>5. UNCHANGED <<server, browser, vision>>
    BY <2>1 DEF SubmitStep1, SubmitStep
  <2>6. TypeOK'
    BY <2>1, <2>2, <2>3, <2>5 DEF SubmitStep1, SubmitStep, IInv, TypeOK, server, browser, vision
  <2>7. Known(t)' /\ Asks(t)' /\ Compares(t)' /\ Trusts(t)'
    BY <2>1, <2>2, <2>3, <2>5 DEF SubmitStep1, InfoForm, Uncovered, Known, Asks, Compares, Trusts,
       SessionOf, Exists, NoCall, IInv, SessionsExist, TypeOK, Page, server
  <2>. QED
    BY <2>4, <2>5, <2>6, <2>7, PhoneStep
<1>2. CASE \E c \in Cards : CaptureAndVerifyCin(t, c)
  <2>1. PICK c \in Cards : CaptureAndVerifyCin(t, c)
    BY <1>2
  <2>2. page[t].step = 2 /\ page[t].number \in Numbers /\ UNCHANGED page
    BY <2>1 DEF CaptureAndVerifyCin, CardCamera, IInv, Evidence, Asks
  <2>3. /\ call'[t] = [NoCall EXCEPT !.pc = "card", !.cin = c, !.number = page[t].number]
        /\ call'[t] \in Call
    BY <2>1, <2>2 DEF CaptureAndVerifyCin, SubmitStep, NoCall, Call, Stages, IInv, TypeOK
  <2>4. Others(t)
    BY <2>1 DEF CaptureAndVerifyCin, SubmitStep, Others, IInv, TypeOK
  <2>5. UNCHANGED <<server, browser, vision>>
    BY <2>1 DEF CaptureAndVerifyCin, SubmitStep
  <2>6. TypeOK'
    BY <2>1, <2>2, <2>3, <2>5 DEF CaptureAndVerifyCin, SubmitStep, IInv, TypeOK, server, browser, vision
  <2>7. Known(t)' /\ Asks(t)' /\ Compares(t)' /\ Trusts(t)'
    BY <2>1, <2>2, <2>3, <2>5 DEF CaptureAndVerifyCin, CardCamera, Uncovered, Known, Asks, Compares, Trusts,
       SessionOf, Exists, NoCall, IInv, SessionsExist, TypeOK, Page, server
  <2>. QED
    BY <2>4, <2>5, <2>6, <2>7, PhoneStep
<1>3. CASE \E f \in Faces : CaptureAndVerifyFace(t, f)
  <2>1. PICK f \in Faces : CaptureAndVerifyFace(t, f)
    BY <1>3
  <2>2. page[t].step = 3 /\ UNCHANGED page
    BY <2>1 DEF CaptureAndVerifyFace, FaceCamera
  <2>3. call'[t] = [NoCall EXCEPT !.pc = "face", !.face = f] /\ call'[t] \in Call
    BY <2>1 DEF CaptureAndVerifyFace, SubmitStep, NoCall, Call, Stages, IInv, TypeOK
  <2>4. Others(t)
    BY <2>1 DEF CaptureAndVerifyFace, SubmitStep, Others, IInv, TypeOK
  <2>5. UNCHANGED <<server, browser, vision>>
    BY <2>1 DEF CaptureAndVerifyFace, SubmitStep
  <2>6. TypeOK'
    BY <2>1, <2>2, <2>3, <2>5 DEF CaptureAndVerifyFace, SubmitStep, IInv, TypeOK, server, browser, vision
  <2>7. Known(t)'
    BY <2>1, <2>2, <2>5 DEF CaptureAndVerifyFace, FaceCamera, Uncovered, Known, SessionOf, Exists,
       IInv, SessionsExist, server
  <2>8. Asks(t)' /\ Compares(t)' /\ Trusts(t)'
    BY <2>2, <2>3 DEF Asks, Compares, Trusts, NoCall
  <2>. QED
    BY <2>4, <2>5, <2>6, <2>7, <2>8, PhoneStep
<1>. QED
  BY <1>1, <1>2, <1>3

LEMMA AnswerSteps ==
    ASSUME IInv, NEW t \in Tabs, Advance(t) \/ ShowMismatch(t) \/ Abort(t)
    PROVE  IInv'
<1>1. call'[t] = NoCall /\ call' \in [Tabs -> Call] /\ NoCall \in Call
  BY DEF Advance, ShowMismatch, Abort, IInv, TypeOK, NoCall, Call, Stages
<1>2. page'[t] \in Page /\ page' \in [Tabs -> Page]
  <2>1. CASE Advance(t)
    <3>1. page[t] \in Page /\ page[t].step \in 1 .. 3
      BY <2>1 DEF Advance, IInv, TypeOK, Page, Evidence, Asks
    <3>2. [page[t] EXCEPT !.step = @ + 1] \in Page
      BY <3>1 DEF Page
    <3>. QED
      BY <2>1, <3>2 DEF Advance, IInv, TypeOK
  <2>2. CASE ShowMismatch(t) \/ Abort(t)
    BY <2>2 DEF ShowMismatch, Abort, IInv, TypeOK
  <2>. QED
    BY <2>1, <2>2
<1>3. UNCHANGED <<server, browser, vision>> /\ Others(t)
  BY DEF Advance, ShowMismatch, Abort, Others, IInv, TypeOK
<1>4. TypeOK'
  BY <1>1, <1>2, <1>3 DEF IInv, TypeOK, server, browser, vision
<1>5. page'[t].session = page[t].session /\ page'[t].number = page[t].number
  BY DEF Advance, ShowMismatch, Abort, IInv, TypeOK, Page
<1>6. page'[t].step = 2 => page'[t].number \in Numbers
  BY <1>5 DEF Advance, ShowMismatch, Abort, IInv, TypeOK, Page, Evidence, Asks
<1>7. Known(t)'
  BY <1>1, <1>3, <1>5 DEF IInv, SessionsExist, Known, SessionOf, Exists, server
<1>8. Asks(t)' /\ Compares(t)' /\ Trusts(t)'
  BY <1>1, <1>6 DEF Asks, Compares, Trusts, NoCall
<1>. QED
  BY <1>3, <1>4, <1>7, <1>8, PhoneStep

-----------------------------------------------------------------------------
(* The backend.  What is read, matched and written is kept, rows keep their *)
(* user, browser and mode.                                                 *)
Keeps ==
    /\ read \subseteq read' /\ passed \subseteq passed'
    /\ \A s \in Sessions : row'[s].device = row[s].device /\ row'[s].mode = row[s].mode
                           /\ row'[s].user = row[s].user
    /\ \A u \in Users : HasProfile(u) => HasProfile(u)'

LEMMA BackendStep ==
    ASSUME IInv, NEW t \in Tabs, Others(t), UNCHANGED <<desk, opened, page>>, TypeOK', Keeps,
           call[t] # NoCall, \A s \in passed' : Exists(s),
           RowsRead', ProfileIsEvidenced', DeviceIsVetted',
           Asks(t)', Compares(t)', Trusts(t)'
    PROVE  IInv'
<1>1. \A s \in Sessions : Exists(s)' = Exists(s) /\ UserOf(s)' = UserOf(s)
  BY DEF Keeps, Exists, UserOf
<1>2. \A c : ReadCard(c) => ReadCard(c)'
  BY DEF Keeps, ReadCard
<1>3. \A x \in Tabs : SessionOf(x)' = SessionOf(x) /\ SessionOf(x) \in Sessions \cup {None}
  BY DEF SessionOf, IInv, TypeOK, Page
<1>4. \A x \in Tabs : Known(x)'
  BY <1>1, <1>3 DEF IInv, SessionsExist, Known, Others
<1>5. SessionsExist'
  BY <1>1, <1>4 DEF IInv, SessionsExist, TypeOK, Desk
<1>6. ASSUME NEW x \in Tabs \ {t} PROVE Asks(x)' /\ Compares(x)' /\ Trusts(x)'
  <2>1. /\ page'[x] = page[x] /\ call'[x] = call[x]
        /\ Asks(x) /\ Compares(x) /\ Trusts(x) /\ Known(x)
    BY DEF Others, IInv, Evidence, SessionsExist
  <2>2. CASE call[x] = NoCall
    BY <2>1, <2>2 DEF Asks, Compares, Trusts, NoCall
  <2>3. CASE call[x] # NoCall
    <3>1. SessionOf(x) \in Sessions /\ Exists(SessionOf(x))
      BY <1>3, <2>1, <2>3 DEF Known
    <3>2. UserOf(SessionOf(x)) \in Users
      BY <3>1, KycConstants DEF UserOf, Exists, IInv, TypeOK, Row
    <3>3. Compares(x)'
      BY <1>1, <1>2, <1>3, <2>1, <3>1, <3>2 DEF Compares, Keeps
    <3>4. Trusts(x)'
      BY <1>1, <1>3, <2>1, <3>1, <3>2 DEF Trusts, Keeps
    <3>5. Asks(x)'
      BY <2>1 DEF Asks
    <3>. QED
      BY <3>3, <3>4, <3>5
  <2>. QED
    BY <2>2, <2>3
<1>7. Evidence'
  BY <1>6 DEF Evidence
<1>. QED
  BY <1>5, <1>7 DEF IInv

(* A call that is under way belongs to a session with a user.              *)
LEMMA CallHasSession ==
    ASSUME IInv, NEW t \in Tabs, call[t].pc # "idle"
    PROVE  /\ call[t] # NoCall /\ SessionOf(t) \in Sessions /\ Exists(SessionOf(t))
           /\ row[SessionOf(t)].device \in Devices \cup {None} /\ UserOf(SessionOf(t)) \in Users
<1>1. call[t] # NoCall
  BY DEF NoCall
<1>2. SessionOf(t) \in Sessions /\ Exists(SessionOf(t))
  BY <1>1 DEF IInv, SessionsExist, Known, TypeOK, Page, SessionOf
<1>3. row[SessionOf(t)].device \in Devices \cup {None} /\ row[SessionOf(t)].user \in Users
  BY <1>2 DEF Exists, IInv, TypeOK, Row
<1>. QED
  BY <1>1, <1>2, <1>3 DEF UserOf

LEMMA SaveInfoStep == ASSUME IInv, NEW t \in Tabs, SaveInfo(t) PROVE IInv'
<1> DEFINE s == SessionOf(t)
<1>1. /\ call[t] # NoCall /\ s \in Sessions /\ Exists(s) /\ call[t].pc = "info"
  BY CallHasSession DEF SaveInfo
<1>2. page[t].step = 1 /\ page[t].number \in Numbers
  BY <1>1 DEF IInv, Evidence, Asks
<1>3. call' = [call EXCEPT ![t].pc = "accepted"] /\ call' \in [Tabs -> Call]
  BY DEF SaveInfo, Goto, IInv, TypeOK, Call, Stages
<1>4. /\ row' = [row EXCEPT ![s].number = page[t].number] /\ row' \in [Sessions -> Row]
      /\ \A x \in Sessions : row'[x].device = row[x].device /\ row'[x].mode = row[x].mode
                              /\ row'[x].user = row[x].user
                              /\ row'[x].cin = row[x].cin
  <2>1. row' = [row EXCEPT ![s].number = page[t].number] /\ row \in [Sessions -> Row]
    BY DEF SaveInfo, IInv, TypeOK
  <2>2. [row[s] EXCEPT !.number = page[t].number] \in Row
    BY <1>1, <1>2, <2>1 DEF Row
  <2>3. /\ row'[s] = [row[s] EXCEPT !.number = page[t].number]
        /\ \A x \in Sessions \ {s} : row'[x] = row[x]
    BY <1>1, <2>1
  <2>4. \A x \in Sessions : row'[x].device = row[x].device /\ row'[x].mode = row[x].mode
                            /\ row'[x].user = row[x].user /\ row'[x].cin = row[x].cin
    <3>1. row[s] \in Row
      BY <1>1, <2>1
    <3>. QED
      BY <2>3, <3>1 DEF Row
  <2>. QED
    BY <2>1, <2>2, <2>4
<1>5. TypeOK'
  BY <1>3, <1>4 DEF SaveInfo, IInv, TypeOK, browser, vision
<1>6. Keeps /\ Others(t) /\ UNCHANGED <<desk, opened, page>>
  BY <1>3, <1>4 DEF SaveInfo, Keeps, Others, HasProfile, browser, vision, IInv, TypeOK
<1>7. RowsRead'
  BY <1>4 DEF SaveInfo, RowsRead, ReadCard, vision, IInv, Evidence
<1>8. \A x \in passed' : Exists(x)
  BY DEF SaveInfo, vision, IInv, SessionsExist
<1>9. ProfileIsEvidenced'
  BY DEF SaveInfo, ProfileIsEvidenced, HasProfile, ReadCard, vision, IInv
<1>10. DeviceIsVetted'
  BY <1>4 DEF SaveInfo, DeviceIsVetted, UserOf, HasProfile, vision, IInv, TypeOK
<1>11. call'[t].pc = "accepted" /\ UNCHANGED page
  BY <1>3 DEF SaveInfo, IInv, TypeOK
<1>12. Asks(t)' /\ Compares(t)' /\ Trusts(t)'
  BY <1>2, <1>11 DEF Asks, Compares, Trusts
<1>. QED
  BY <1>1, <1>5, <1>6, <1>7, <1>8, <1>9, <1>10, <1>12, BackendStep

LEMMA VerifyCinStep == ASSUME IInv, NEW t \in Tabs, VerifyCin(t) PROVE IInv'
<1> DEFINE s == SessionOf(t)
           c == call[t].cin
<1>1. /\ call[t] # NoCall /\ s \in Sessions /\ Exists(s) /\ call[t].pc = "card"
  BY CallHasSession DEF VerifyCin
<1>2. page[t].step = 2 /\ page[t].number \in Numbers /\ c \in Cards /\ call[t].number \in Numbers
  BY <1>1 DEF IInv, Evidence, Asks
<1>3. PICK pc \in {"accepted", "refused"} : call' = [call EXCEPT ![t].pc = pc]
  BY DEF VerifyCin, Goto
<1>4. call' \in [Tabs -> Call] /\ call'[t].pc = pc
  BY <1>3 DEF IInv, TypeOK, Call, Stages
<1>5. /\ row' \in [Sessions -> Row]
      /\ \A x \in Sessions : row'[x].device = row[x].device /\ row'[x].mode = row[x].mode
                              /\ row'[x].user = row[x].user
      /\ \A x \in Sessions : row'[x].cin = row[x].cin
                              \/ (row'[x].cin = c /\ <<c, call[t].number>> \in read')
  <2>1. CASE row' = row
    BY <2>1 DEF IInv, TypeOK
  <2>2. CASE row' = [row EXCEPT ![s].cin = c] /\ read' = read \cup {<<c, call[t].number>>}
    BY <1>1, <1>2, <2>2 DEF IInv, TypeOK, Row
  <2>. QED
    BY <2>1, <2>2 DEF VerifyCin
<1>6. read \subseteq read' /\ read' \subseteq Cards \X (Numbers \cup {None})
  BY <1>2 DEF VerifyCin, IInv, TypeOK
<1>7. TypeOK'
  BY <1>4, <1>5, <1>6 DEF VerifyCin, IInv, TypeOK, browser
<1>8. Keeps /\ Others(t) /\ UNCHANGED <<desk, opened, page>>
  BY <1>3, <1>5, <1>6 DEF VerifyCin, Keeps, Others, HasProfile, browser, IInv, TypeOK
<1>9. RowsRead'
  BY <1>2, <1>5, <1>6 DEF RowsRead, ReadCard, IInv, Evidence
<1>10. \A x \in passed' : Exists(x)
  BY DEF VerifyCin, IInv, SessionsExist
<1>11. ProfileIsEvidenced'
  BY <1>6 DEF VerifyCin, ProfileIsEvidenced, HasProfile, ReadCard, IInv
<1>12. DeviceIsVetted'
  BY <1>5 DEF VerifyCin, DeviceIsVetted, UserOf, HasProfile, IInv, TypeOK
<1>13. Asks(t)' /\ Compares(t)' /\ Trusts(t)'
  BY <1>2, <1>4 DEF VerifyCin, Asks, Compares, Trusts
<1>. QED
  BY <1>1, <1>7, <1>8, <1>9, <1>10, <1>11, <1>12, <1>13, BackendStep

LEMMA LoadCardStep == ASSUME IInv, NEW t \in Tabs, LoadCard(t) PROVE IInv'
<1>. USE KycConstants
<1> DEFINE s == SessionOf(t)
<1>1. /\ call[t] # NoCall /\ s \in Sessions /\ Exists(s) /\ call[t].pc = "face" /\ UserOf(s) \in Users
  BY CallHasSession DEF LoadCard
<1>2. page[t].step = 3 /\ call[t].face \in Faces
  BY <1>1 DEF IInv, Evidence, Asks, Trusts
<1>3. /\ CardFor(t) \in Cards \cup {None}
      /\ CardFor(t) # None => ReadCard(CardFor(t))
      /\ CardFor(t) # None /\ row[s].mode = "REAUTH" => HasProfile(UserOf(s))
  BY <1>1 DEF CardFor, IInv, TypeOK, Row, Profile, Evidence, RowsRead, ProfileIsEvidenced
<1>4. call'[t] = IF CardFor(t) = None THEN [call[t] EXCEPT !.pc = "refused"]
                 ELSE [call[t] EXCEPT !.pc = "compare", !.cin = CardFor(t), !.number = row[s].number]
  BY DEF LoadCard, IInv, TypeOK
<1>5. call[t] \in Call /\ row[s].number \in Numbers \cup {None}
  BY <1>1 DEF IInv, TypeOK, Row
<1>6. call'[t] \in Call /\ call'[t].face = call[t].face
  BY <1>3, <1>4, <1>5 DEF Call, Stages
<1>7. \/ call'[t].pc = "refused"
      \/ (call'[t].pc = "compare" /\ call'[t].cin = CardFor(t) /\ CardFor(t) # None)
  BY <1>4, <1>5 DEF Call
<1>8. UNCHANGED <<server, browser, page, vision>> /\ Others(t)
  BY DEF LoadCard, Others, IInv, TypeOK
<1>9. TypeOK'
  BY <1>6, <1>8 DEF LoadCard, IInv, TypeOK, server, browser, vision
<1>10. Asks(t)'
  BY <1>2, <1>7, <1>8 DEF Asks
<1>11. Known(t)' /\ Trusts(t)'
  BY <1>1, <1>7, <1>8 DEF Known, Trusts, SessionOf, Exists, server
<1>12. Compares(t)'
  BY <1>2, <1>3, <1>6, <1>7, <1>8 DEF Compares, SessionOf, UserOf, HasProfile, ReadCard, server, vision
<1>. QED
  BY <1>8, <1>9, <1>10, <1>11, <1>12, PhoneStep

LEMMA VerifyFaceStep == ASSUME IInv, NEW t \in Tabs, VerifyFace(t) PROVE IInv'
<1>. USE KycConstants
<1> DEFINE s == SessionOf(t)
           u == UserOf(s)
           c == call[t].cin
           f == call[t].face
<1>1. /\ call[t] # NoCall /\ s \in Sessions /\ Exists(s) /\ call[t].pc = "compare" /\ u \in Users
  BY CallHasSession DEF VerifyFace
<1>2. /\ page[t].step = 3 /\ c \in Cards /\ f \in Faces /\ ReadCard(c)
      /\ row[s].mode = "REAUTH" => HasProfile(u)
  BY <1>1 DEF IInv, Evidence, Asks, Compares
<1>3. PICK pc \in {"device", "refused"} : call' = [call EXCEPT ![t].pc = pc]
  BY DEF VerifyFace, Goto
<1>4. call' \in [Tabs -> Call] /\ call'[t].pc = pc
  <2>1. call \in [Tabs -> Call] /\ pc \in Stages
    BY DEF IInv, TypeOK, Stages
  <2>2. [call[t] EXCEPT !.pc = pc] \in Call /\ [call[t] EXCEPT !.pc = pc].pc = pc
    BY <2>1 DEF Call
  <2>. QED
    BY <1>3, <2>1, <2>2
<1>5. UNCHANGED <<row, devices, browser, page, read>> /\ Others(t)
  BY <1>3 DEF VerifyFace, Others, IInv, TypeOK
<1>6. CASE pc = "refused"
  <2>1. UNCHANGED <<server, browser, page, vision>>
    BY <1>4, <1>6, <1>5 DEF VerifyFace, server, vision, Goto, IInv, TypeOK, Call
  <2>2. TypeOK'
    BY <1>4, <2>1 DEF IInv, TypeOK, server, browser, vision
  <2>3. Known(t)' /\ Asks(t)' /\ Compares(t)' /\ Trusts(t)'
    BY <1>1, <1>2, <1>4, <1>6, <2>1 DEF Known, Asks, Compares, Trusts, SessionOf, Exists, server
  <2>. QED
    BY <1>5, <2>1, <2>2, <2>3, PhoneStep
<1>7. CASE pc = "device"
  <2>1. /\ profile' = [profile EXCEPT ![u] = Written(t)]
        /\ matched' = matched \cup {<<u, c, f>>} /\ passed' = passed \cup {s}
    BY <1>4, <1>7 DEF VerifyFace, Goto, IInv, TypeOK, Call
  <2>2. /\ Written(t) \in Profile /\ Written(t).cin \in Cards /\ Written(t).face = f
        /\ Written(t).cin = c \/ (HasProfile(u) /\ Written(t).cin = profile[u].cin)
    <3>1. profile[u] \in Profile /\ call[t] \in Call /\ row[s].mode \in Modes
      BY <1>1 DEF IInv, TypeOK, Row
    <3>2. CASE row[s].mode = "FULL"
      <4>1. /\ Written(t) = [cin |-> c, face |-> f, number |-> Written(t).number]
            /\ Written(t).number \in {profile[u].number, call[t].number}
        BY <3>2 DEF Written, FullKyc
      <4>2. profile[u].number \in Numbers \cup {None} /\ call[t].number \in Numbers \cup {None}
        BY <3>1 DEF Profile, Call
      <4>. HIDE DEF c, f, u
      <4>3. [cin |-> c, face |-> f, number |-> Written(t).number] \in Profile
        BY <1>2, <4>1, <4>2 DEF Profile
      <4>. QED
        BY <1>2, <4>1, <4>3
    <3>3. CASE row[s].mode = "REAUTH"
      BY <1>2, <3>1, <3>3 DEF Written, Reauth, Profile, HasProfile
    <3>. QED
      BY <3>1, <3>2, <3>3 DEF Modes
  <2>3. TypeOK'
    BY <1>1, <1>2, <1>4, <1>5, <2>1, <2>2 DEF IInv, TypeOK, browser
  <2>4. \A x \in Users : HasProfile(x) => HasProfile(x)'
    BY <2>1, <2>2 DEF HasProfile, IInv, TypeOK
  <2>5. profile'[u].cin # None
    BY <1>1, <2>1, <2>2 DEF IInv, TypeOK
  <2>6. Keeps /\ UNCHANGED <<desk, opened, page>>
    BY <1>5, <2>1, <2>4 DEF Keeps, browser
  <2>7. RowsRead'
    BY <1>5 DEF RowsRead, ReadCard, IInv, Evidence
  <2>8. \A x \in passed' : Exists(x)
    BY <1>1, <2>1 DEF IInv, SessionsExist
  <2>9. ProfileIsEvidenced'
    <3>1. SUFFICES ASSUME NEW x \in Users, HasProfile(x)'
                   PROVE  /\ ReadCard(profile[x].cin)'
                          /\ \E y \in Faces : <<x, profile'[x].cin, y>> \in matched'
                          /\ \E y \in Cards : <<x, y, profile'[x].face>> \in matched' /\ ReadCard(y)'
      BY DEF ProfileIsEvidenced
    <3>2. \A y : ReadCard(y)' = ReadCard(y)
      BY <1>5 DEF ReadCard
    <3>3. CASE x # u
      <4>1. profile'[x] = profile[x] /\ HasProfile(x)
        BY <2>1, <3>1, <3>3 DEF HasProfile, IInv, TypeOK
      <4>2. /\ ReadCard(profile[x].cin)
            /\ \E y \in Faces : <<x, profile[x].cin, y>> \in matched
            /\ \E y \in Cards : <<x, y, profile[x].face>> \in matched /\ ReadCard(y)
        BY <4>1 DEF IInv, ProfileIsEvidenced
      <4>3. ReadCard(profile[x].cin)'
        BY <1>5, <4>1, <4>2 DEF ReadCard
      <4>. QED
        BY <2>1, <3>2, <4>1, <4>2, <4>3
    <3>4. CASE x = u
      <4>1. profile'[x] = Written(t)
        BY <1>1, <2>1, <3>4 DEF IInv, TypeOK
      <4>2. ReadCard(Written(t).cin) /\ \E y \in Faces : <<u, Written(t).cin, y>> \in matched'
        BY <1>1, <1>2, <2>1, <2>2 DEF IInv, ProfileIsEvidenced
      <4>3. <<u, c, Written(t).face>> \in matched' /\ ReadCard(c)
        BY <1>2, <2>1, <2>2
      <4>4. ReadCard(profile[x].cin)'
        BY <1>5, <4>1, <4>2 DEF ReadCard
      <4>. QED
        BY <1>2, <3>2, <3>4, <4>1, <4>2, <4>3, <4>4
    <3>. QED
      BY <3>3, <3>4
  <2>10. DeviceIsVetted'
    BY <1>5, <2>1, <2>4 DEF IInv, DeviceIsVetted, UserOf
  <2>11. HasProfile(UserOf(SessionOf(t)))' /\ SessionOf(t)' = s
    BY <1>5, <2>5 DEF SessionOf, UserOf, HasProfile
  <2>12. Asks(t)' /\ Compares(t)' /\ Trusts(t)'
    BY <1>2, <1>4, <1>5, <1>7, <2>1, <2>11 DEF Asks, Compares, Trusts
  <2>. QED
    BY <1>1, <1>5, <2>3, <2>6, <2>7, <2>8, <2>9, <2>10, <2>12, BackendStep
<1>. QED
  BY <1>6, <1>7

LEMMA UpsertTrustedDeviceStep == ASSUME IInv, NEW t \in Tabs, UpsertTrustedDevice(t) PROVE IInv'
<1> DEFINE s == SessionOf(t)
           u == UserOf(s)
           d == row[s].device
<1>1. /\ call[t] # NoCall /\ s \in Sessions /\ Exists(s) /\ call[t].pc = "device"
      /\ u \in Users /\ d \in Devices \cup {None}
  BY CallHasSession DEF UpsertTrustedDevice
<1>2. page[t].step = 3 /\ HasProfile(u) /\ s \in passed
  BY <1>1 DEF IInv, Evidence, Asks, Trusts
<1>3. call' = [call EXCEPT ![t].pc = "notify"] /\ call' \in [Tabs -> Call] /\ call'[t].pc = "notify"
  BY DEF UpsertTrustedDevice, Goto, IInv, TypeOK, Call, Stages
<1>4. devices' = [devices EXCEPT ![u] = @ \cup ({d} \ {None})] /\ UNCHANGED <<row, profile, browser, page, vision>>
  BY DEF UpsertTrustedDevice
<1>5. TypeOK'
  BY <1>1, <1>3, <1>4 DEF IInv, TypeOK, browser, vision
<1>6. Keeps /\ Others(t) /\ UNCHANGED <<desk, opened, page>>
  BY <1>3, <1>4 DEF Keeps, Others, HasProfile, browser, vision, IInv, TypeOK
<1>7. RowsRead' /\ (\A x \in passed' : Exists(x)) /\ ProfileIsEvidenced'
  BY <1>4 DEF RowsRead, ReadCard, ProfileIsEvidenced, HasProfile, vision, IInv, Evidence, SessionsExist
<1>8. DeviceIsVetted'
  BY <1>1, <1>2, <1>4 DEF DeviceIsVetted, UserOf, HasProfile, vision, IInv, TypeOK
<1>9. SessionOf(t)' = s /\ UserOf(s)' = u /\ HasProfile(u)'
  BY <1>2, <1>4 DEF SessionOf, UserOf, HasProfile
<1>10. Asks(t)' /\ Compares(t)' /\ Trusts(t)'
  BY <1>2, <1>3, <1>4, <1>9 DEF Asks, Compares, Trusts, vision
<1>. QED
  BY <1>1, <1>5, <1>6, <1>7, <1>8, <1>10, BackendStep

LEMMA NotifyDesktopStep == ASSUME IInv, NEW t \in Tabs, NotifyDesktop(t) PROVE IInv'
<1>1. /\ call[t] # NoCall /\ call[t].pc = "notify" /\ page[t].step = 3
  BY CallHasSession DEF NotifyDesktop, IInv, Evidence, Asks
<1>2. call' = [call EXCEPT ![t].pc = "accepted"] /\ call' \in [Tabs -> Call] /\ call'[t].pc = "accepted"
  BY DEF NotifyDesktop, Goto, IInv, TypeOK, Call, Stages
<1>3. UNCHANGED <<server, desk, opened, page, vision>> /\ news' \subseteq Devices
  BY DEF NotifyDesktop, IInv, TypeOK
<1>4. TypeOK'
  BY <1>2, <1>3 DEF NotifyDesktop, IInv, TypeOK, server, vision
<1>5. Keeps /\ Others(t)
  BY <1>2, <1>3 DEF Keeps, Others, HasProfile, server, vision, IInv, TypeOK
<1>6. RowsRead' /\ (\A x \in passed' : Exists(x)) /\ ProfileIsEvidenced'
  BY <1>3 DEF RowsRead, ReadCard, ProfileIsEvidenced, HasProfile, server, vision, IInv, Evidence,
     SessionsExist
<1>7. DeviceIsVetted'
  BY <1>3 DEF DeviceIsVetted, UserOf, HasProfile, server, vision, IInv
<1>8. Asks(t)' /\ Compares(t)' /\ Trusts(t)'
  BY <1>1, <1>2, <1>3 DEF Asks, Compares, Trusts
<1>. QED
  BY <1>1, <1>3, <1>4, <1>5, <1>6, <1>7, <1>8, BackendStep

-----------------------------------------------------------------------------
LEMMA NextInv == IInv /\ [Next]_vars => IInv'
<1>1. SUFFICES ASSUME IInv, [Next]_vars PROVE IInv'
  OBVIOUS
<1>2. CASE UNCHANGED vars
  <2>1. TypeOK'
    BY <1>1, <1>2 DEF vars, server, browser, vision, IInv, TypeOK
  <2>2. UNCHANGED <<server, page, call, vision, desk, opened>>
    BY <1>2 DEF vars, browser
  <2>. QED
    BY <1>1, <2>1, <2>2, BrowserStep
<1>3. ASSUME NEW d \in Devices, Browse(d) PROVE IInv'
  BY <1>1, <1>3, BrowserSteps, StartSteps DEF Browse
<1>6. ASSUME NEW s \in Sessions, NEW r \in Requests, StartElsewhere(s, r) PROVE IInv'
  BY <1>1, <1>6, StartSteps
<1>4. ASSUME NEW t \in Tabs, UsePhone(t) PROVE IInv'
  BY <1>1, <1>4, ScanStep, SubmitSteps, AnswerSteps DEF UsePhone
<1>5. ASSUME NEW t \in Tabs, HandleStep(t) PROVE IInv'
  BY <1>1, <1>5, SaveInfoStep, VerifyCinStep, LoadCardStep, VerifyFaceStep,
     UpsertTrustedDeviceStep, NotifyDesktopStep, AnswerSteps DEF HandleStep
<1>. QED
  BY <1>1, <1>2, <1>3, <1>4, <1>5, <1>6 DEF Next

(* Every page and every call has evidence for what it is about to write,   *)
(* in every reachable state of handleStep and its callers.                 *)
THEOREM Invariance == Spec => []IInv
BY InitInv, NextInv, PTL DEF Spec

(* Every variable keeps its type: in particular no profile is written      *)
(* without a card and no page goes past its last step.                     *)
THEOREM TypeCorrect == Spec => []TypeOK
<1>1. IInv => TypeOK
  BY DEF IInv
<1>. QED
  BY <1>1, Invariance, PTL

(* A verified profile has a card that was read and compared, and a face    *)
(* that matched a card that was read (handleStep, step 3).                 *)
THEOREM Profiles == Spec => []ProfileIsEvidenced
<1>1. IInv => ProfileIsEvidenced
  BY DEF IInv
<1>. QED
  BY <1>1, Invariance, PTL

(* A browser is trusted for a user only after a face was matched in a      *)
(* session that names both, whoever opened it (upsertTrustedDevice).       *)
THEOREM TrustedDevices == Spec => []DeviceIsVetted
<1>1. IInv => DeviceIsVetted
  BY DEF IInv
<1>. QED
  BY <1>1, Invariance, PTL
=============================================================================
