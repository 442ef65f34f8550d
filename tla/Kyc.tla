-------------------------------- MODULE Kyc --------------------------------
(***************************************************************************)
(* Identity verification: a browser that is not trusted opens a session    *)
(* and shows it as a QR code, phones that scan it send personal data, the  *)
(* identity card and a selfie to kyc.service.ts, the vision service        *)
(* answers, the trust profile and the trusted device are written, and the  *)
(* browser hears of it through a socket.  Any number of phones may scan    *)
(* the same code, the session row is shared by all of them and never       *)
(* closed: nothing reads its expiresAt or its status, which are left out.  *)
(***************************************************************************)
EXTENDS Naturals

CONSTANTS
    Users,
    Devices,    \* browsers, each with its fingerprint
    Login,      \* the user logged in to each browser
    Requests,   \* bodies and fingerprints that clients other than the modal send to kyc/init
    MaxSessions, \* bound: KycSession rows
    Tabs,       \* bound: loads of the page verify/[sessionId] on phones
    Numbers, Cards, Faces,  \* ID numbers typed, photographs taken
    None,
    Faults      \* TRUE when requests, sockets and pages may be lost

Modes == {"FULL", "REAUTH"}

ASSUME KycAssumption ==
    /\ Login \in [Devices -> Users]
    /\ Requests \subseteq [user : Users, device : Devices \cup {None}, mode : Modes]
    /\ None \notin Users \cup Devices \cup Numbers \cup Cards \cup Faces
    /\ MaxSessions \in Nat /\ None \notin 1 .. MaxSessions
    /\ Faults \in BOOLEAN

Sessions == 1 .. MaxSessions
Row == [user : Users \cup {None}, device : Devices \cup {None}, mode : Modes,
        number : Numbers \cup {None}, cin : Cards \cup {None}]
Profile == [cin : Cards \cup {None}, face : Faces \cup {None}, number : Numbers \cup {None}]
Desk == [trust : {"loading", "noProfile", "newDevice", "trusted"}, shown : BOOLEAN,
         kind : {"noProfile", "newDevice"}, session : Sessions \cup {None}]
Page == [session : Sessions \cup {None}, step : 1 .. 4, number : Numbers \cup {None}]
Stages == {"idle", "info", "card", "face", "compare", "device", "notify", "accepted", "refused"}
Call == [pc : Stages, cin : Cards \cup {None}, face : Faces \cup {None},
         number : Numbers \cup {None}]

VARIABLES
    row,      \* KycSession, by id
    profile,  \* TrustProfile of a user; isVerified is TRUE whenever it exists
    devices,  \* UserDevice: the fingerprints trusted for a user
    desk,     \* the browser: TrustContext and SecurityModal
    opened,   \* sessions created whose answer has not reached the browser yet
    joining,  \* join-kyc-room messages of a browser on their way to the gateway
    rooms,    \* socket rooms a browser has joined
    news,     \* browsers a SUCCESS event is on its way to
    cut,      \* browsers that lost a socket, a page or an answer
    late,     \* browsers whose room was joined, if at all, after SUCCESS was emitted to it
    page,     \* the phone's page
    call,     \* the PATCH kyc/step a phone waits for, with its locals
    read,     \* card and number that the OCR called a match
    matched,  \* user, card and face that the face service called a match
    passed    \* sessions in which it did

server == <<row, profile, devices>>
browser == <<desk, opened, joining, rooms, news, cut, late>>
vision == <<read, matched, passed>>
vars == <<server, browser, page, call, vision>>

-----------------------------------------------------------------------------
NoRow == [user |-> None, device |-> None, mode |-> "FULL", number |-> None, cin |-> None]
NoProfile == [cin |-> None, face |-> None, number |-> None]
FreshDesk == [trust |-> "loading", shown |-> FALSE, kind |-> "noProfile", session |-> None]
FreshPage(s) == [session |-> s, step |-> IF row[s].mode = "REAUTH" THEN 3 ELSE 1,
                 number |-> None]
NoPage == [session |-> None, step |-> 1, number |-> None]
NoCall == [pc |-> "idle", cin |-> None, face |-> None, number |-> None]

Exists(s) == row[s].user # None
IsNew(s) == \A x \in Sessions : Exists(x) <=> x < s
UserOf(s) == row[s].user
HasProfile(u) == profile[u].cin # None
SessionOf(t) == page[t].session

Init ==
    /\ row = [s \in Sessions |-> NoRow]
    /\ profile = [u \in Users |-> NoProfile]
    /\ devices = [u \in Users |-> {}]
    /\ desk = [d \in Devices |-> FreshDesk]
    /\ opened = [d \in Devices |-> {}]
    /\ joining = [d \in Devices |-> {}]
    /\ rooms = [d \in Devices |-> {}]
    /\ news = {} /\ cut = {} /\ late = {}
    /\ page = [t \in Tabs |-> NoPage]
    /\ call = [t \in Tabs |-> NoCall]
    /\ read = {} /\ matched = {} /\ passed = {}

-----------------------------------------------------------------------------
(* The browser.                                                            *)

(* GET users/trust-status with this browser's fingerprint.                 *)
TrustStatus(d) ==
    IF ~HasProfile(Login[d]) THEN "noProfile"
    ELSE IF d \in devices[Login[d]] THEN "trusted" ELSE "newDevice"

(* TrustContext asks once, when the page has loaded.                       *)
FetchStatus(d) ==
    /\ desk[d].trust = "loading"
    /\ desk' = [desk EXCEPT ![d].trust = TrustStatus(d)]
    /\ UNCHANGED <<server, opened, joining, rooms, news, cut, late, page, call, vision>>

(* A failed request leaves the initial state: no profile.                  *)
FetchFails(d) ==
    /\ Faults
    /\ desk[d].trust = "loading"
    /\ desk' = [desk EXCEPT ![d].trust = "noProfile"]
    /\ cut' = cut \cup {d}
    /\ UNCHANGED <<server, opened, joining, rooms, news, late, page, call, vision>>

(* A click on what TrustGate wraps opens the modal of SECURITY_GATE_TRIGGERED. *)
HandleAction(d) ==
    /\ desk[d].trust \in {"noProfile", "newDevice"}
    /\ desk' = [desk EXCEPT ![d].shown = TRUE, ![d].kind = desk[d].trust]
    /\ UNCHANGED <<server, opened, joining, rooms, news, cut, late, page, call, vision>>

(* POST kyc/init is public: user and mode are what the body says, the      *)
(* browser is what a header says, if it says anything.                     *)
InitSession(s, r) ==
    /\ IsNew(s)
    /\ row' = [row EXCEPT ![s] =
         [user |-> r.user, device |-> r.device, mode |-> r.mode, number |-> None, cin |-> None]]

(* The modal sends its own user, and runs the effect again when the access *)
(* token is renewed or the kind of error changes, until a session is set.  *)
StartKyc(d, s) ==
    /\ desk[d].shown /\ desk[d].session = None
    /\ InitSession(s, [user |-> Login[d], device |-> d,
                       mode |-> IF desk[d].kind = "noProfile" THEN "FULL" ELSE "REAUTH"])
    /\ opened' = [opened EXCEPT ![d] = @ \cup {s}]
    /\ UNCHANGED <<profile, devices, desk, joining, rooms, news, cut, late, page, call, vision>>

(* Any other client; no modal shows the session it gets.                   *)
StartElsewhere(s, r) ==
    /\ InitSession(s, r)
    /\ UNCHANGED <<profile, devices, browser, page, call, vision>>

(* Fault: the socket joins no room.                                       *)
ShowCodeOnly(d, s) ==
    /\ s \in opened[d]
    /\ opened' = [opened EXCEPT ![d] = @ \ {s}]
    /\ desk' = [desk EXCEPT ![d].session = s]
    /\ UNCHANGED <<server, joining, rooms, news, cut, late, page, call, vision>>

(* The answer: the QR code shows the session.  The socket only begins to   *)
(* connect, and sends join-kyc-room when it has.                           *)
ShowCode(d, s) ==
    /\ s \in opened[d]
    /\ opened' = [opened EXCEPT ![d] = @ \ {s}]
    /\ desk' = [desk EXCEPT ![d].session = s]
    /\ joining' = [joining EXCEPT ![d] = @ \cup {s}]
    /\ UNCHANGED <<server, rooms, news, cut, late, page, call, vision>>

(* handleJoinRoom() of the gateway.                                        *)
JoinRoom(d, s) ==
    /\ s \in joining[d]
    /\ joining' = [joining EXCEPT ![d] = @ \ {s}]
    /\ rooms' = [rooms EXCEPT ![d] = @ \cup {s}]
    /\ UNCHANGED <<server, desk, opened, news, cut, late, page, call, vision>>

CancelAndClose(d) ==
    /\ desk[d].shown
    /\ desk' = [desk EXCEPT ![d].shown = FALSE]
    /\ UNCHANGED <<server, opened, joining, rooms, news, cut, late, page, call, vision>>

Reset(d) ==
    /\ desk' = [desk EXCEPT ![d] = FreshDesk]
    /\ opened' = [opened EXCEPT ![d] = {}]
    /\ joining' = [joining EXCEPT ![d] = {}]
    /\ rooms' = [rooms EXCEPT ![d] = {}]
    /\ news' = news \ {d}
    /\ UNCHANGED <<server, late, page, call, vision>>

(* KYC_PROGRESS with SUCCESS arrives: the page reloads after two seconds.   *)
(* The other statuses only change a caption and are left out.              *)
OnProgress(d) == d \in news /\ Reset(d) /\ UNCHANGED cut

Reload(d) == Faults /\ Reset(d) /\ cut' = cut \cup {d}

(* socket.io connects again by itself, but nobody emits join-kyc-room again. *)
SocketDrops(d) ==
    /\ Faults
    /\ rooms[d] \cup joining[d] # {}
    /\ joining' = [joining EXCEPT ![d] = {}]
    /\ rooms' = [rooms EXCEPT ![d] = {}]
    /\ news' = news \ {d}
    /\ cut' = cut \cup {d}
    /\ UNCHANGED <<server, desk, opened, late, page, call, vision>>

-----------------------------------------------------------------------------
(* The phone.  An overlay covers the page while a call is under way.       *)
Uncovered(t) == SessionOf(t) # None /\ call[t] = NoCall
InfoForm(t) == Uncovered(t) /\ page[t].step = 1
CardCamera(t) == Uncovered(t) /\ page[t].step = 2
FaceCamera(t) == Uncovered(t) /\ page[t].step = 3

(* Step 4, which tells the user that the desktop will update by itself.    *)
AllDone(t) == SessionOf(t) # None /\ page[t].step = 4

SubmitStep(t, body) ==
    /\ call' = [call EXCEPT ![t] = body]
    /\ UNCHANGED <<server, browser, vision>>

(* A QR code is scanned, or the address opened by whoever has the id of a  *)
(* session; a page loaded anew is another tab.                             *)
Scan(t, s) ==
    /\ page[t] = NoPage
    /\ Exists(s) /\ \A d \in Devices : s \notin opened[d]
    /\ page' = [page EXCEPT ![t] = FreshPage(s)]
    /\ UNCHANGED <<server, browser, call, vision>>

SubmitStep1(t, n) ==
    /\ InfoForm(t)
    /\ page' = [page EXCEPT ![t].number = n]
    /\ SubmitStep(t, [NoCall EXCEPT !.pc = "info"])

(* The camera opens on demand and closes with a capture, which is left out. *)
CaptureAndVerifyCin(t, c) ==
    /\ CardCamera(t)
    /\ SubmitStep(t, [NoCall EXCEPT !.pc = "card", !.cin = c, !.number = page[t].number])
    /\ UNCHANGED page

CaptureAndVerifyFace(t, f) ==
    /\ FaceCamera(t)
    /\ SubmitStep(t, [NoCall EXCEPT !.pc = "face", !.face = f])
    /\ UNCHANGED page

(* The answer to submitStep: on to the next step, or a popup, after which  *)
(* the same step may be tried again.                                       *)
Advance(t) ==
    /\ call[t].pc = "accepted"
    /\ page' = [page EXCEPT ![t].step = @ + 1]
    /\ call' = [call EXCEPT ![t] = NoCall]
    /\ UNCHANGED <<server, browser, vision>>

ShowMismatch(t) ==
    /\ call[t].pc = "refused"
    /\ call' = [call EXCEPT ![t] = NoCall]
    /\ UNCHANGED <<server, browser, page, vision>>

-----------------------------------------------------------------------------
(* handleStep() of the backend.                                            *)
Goto(t, pc) == call' = [call EXCEPT ![t].pc = pc]

(* Step 1 writes what was typed, whatever the session has been through.    *)
SaveInfo(t) ==
    /\ call[t].pc = "info"
    /\ row' = [row EXCEPT ![SessionOf(t)].number = page[t].number]
    /\ Goto(t, "accepted")
    /\ UNCHANGED <<profile, devices, browser, page, vision>>

(* The OCR compares the card with the data of the same request, not with   *)
(* the session's; it is a similarity of texts, so any answer is possible.  *)
OcrAnswers == BOOLEAN

(* Fault: the card is saved whatever the OCR says.                       *)
VerifyCinKeeps(t) ==
    /\ call[t].pc = "card"
    /\ row' = [row EXCEPT ![SessionOf(t)].cin = call[t].cin]
    /\ \E ok \in OcrAnswers :
         IF ok THEN read' = read \cup {<<call[t].cin, call[t].number>>} /\ Goto(t, "accepted")
         ELSE Goto(t, "refused") /\ UNCHANGED read
    /\ UNCHANGED <<profile, devices, browser, page, matched, passed>>
VerifyCin(t) ==
    /\ call[t].pc = "card"
    /\ \E ok \in OcrAnswers :
         IF ok
         THEN /\ row' = [row EXCEPT ![SessionOf(t)].cin = call[t].cin]
              /\ read' = read \cup {<<call[t].cin, call[t].number>>}
              /\ Goto(t, "accepted")
         ELSE Goto(t, "refused") /\ UNCHANGED <<row, read>>
    /\ UNCHANGED <<profile, devices, browser, page, matched, passed>>

(* Step 3 takes the card of the profile or that of the session, as they    *)
(* are when the request arrives.                                           *)
CardFor(t) ==
    LET s == SessionOf(t) IN
    IF row[s].mode = "FULL" THEN row[s].cin
    ELSE IF HasProfile(UserOf(s)) THEN profile[UserOf(s)].cin ELSE None

LoadCard(t) ==
    /\ call[t].pc = "face"
    /\ call' = [call EXCEPT ![t] =
         IF CardFor(t) = None THEN [@ EXCEPT !.pc = "refused"]
         ELSE [@ EXCEPT !.pc = "compare", !.cin = CardFor(t), !.number = row[SessionOf(t)].number]]
    /\ UNCHANGED <<server, browser, page, vision>>

FaceAnswers == BOOLEAN

(* The upsert of a FULL verification leaves the number of an older profile. *)
FullKyc(t) ==
    [cin |-> call[t].cin, face |-> call[t].face,
     number |-> IF HasProfile(UserOf(SessionOf(t))) THEN profile[UserOf(SessionOf(t))].number
                ELSE call[t].number]
Reauth(t) == [profile[UserOf(SessionOf(t))] EXCEPT !.face = call[t].face]
Written(t) == IF row[SessionOf(t)].mode = "FULL" THEN FullKyc(t) ELSE Reauth(t)

(* Fault: a refused face does not end the request.                       *)
VerifyFaceContinues(t) ==
    /\ call[t].pc = "compare"
    /\ Goto(t, "device")
    /\ \E ok \in FaceAnswers :
         IF ok
         THEN /\ profile' = [profile EXCEPT ![UserOf(SessionOf(t))] = Written(t)]
              /\ matched' = matched \cup {<<UserOf(SessionOf(t)), call[t].cin, call[t].face>>}
              /\ passed' = passed \cup {SessionOf(t)}
         ELSE UNCHANGED <<profile, matched, passed>>
    /\ UNCHANGED <<row, devices, browser, page, read>>
VerifyFace(t) ==
    /\ call[t].pc = "compare"
    /\ \E ok \in FaceAnswers :
         IF ok
         THEN /\ profile' = [profile EXCEPT ![UserOf(SessionOf(t))] = Written(t)]
              /\ matched' = matched \cup {<<UserOf(SessionOf(t)), call[t].cin, call[t].face>>}
              /\ passed' = passed \cup {SessionOf(t)}
              /\ Goto(t, "device")
         ELSE /\ Goto(t, "refused")
              /\ UNCHANGED <<profile, matched, passed>>
    /\ UNCHANGED <<row, devices, browser, page, read>>

(* A session without a fingerprint makes no browser trusted.               *)
UpsertTrustedDevice(t) ==
    /\ call[t].pc = "device"
    /\ devices' = [devices EXCEPT ![UserOf(SessionOf(t))] =
           @ \cup ({row[SessionOf(t)].device} \ {None})]
    /\ Goto(t, "notify")
    /\ UNCHANGED <<row, profile, browser, page, vision>>

(* SUCCESS goes to the sockets that are in the room now.                   *)
NotifyDesktop(t) ==
    /\ call[t].pc = "notify"
    /\ news' = news \cup {d \in Devices : SessionOf(t) \in rooms[d]}
    /\ late' = late \cup {d \in Devices : SessionOf(t) \in opened[d] \cup joining[d]}
    /\ Goto(t, "accepted")
    /\ UNCHANGED <<server, desk, opened, joining, rooms, cut, page, vision>>

(* The vision service fails, the server dies, the connection breaks: what  *)
(* was written stays; the phone shows the popup or an alert.               *)
Abort(t) ==
    /\ Faults
    /\ call[t] # NoCall
    /\ call' = [call EXCEPT ![t] = NoCall]
    /\ UNCHANGED <<server, browser, page, vision>>

-----------------------------------------------------------------------------
Browse(d) ==
    \/ FetchStatus(d) \/ OnProgress(d) \/ FetchFails(d) \/ HandleAction(d) \/ CancelAndClose(d)
    \/ Reload(d) \/ SocketDrops(d)
    \/ \E s \in Sessions : StartKyc(d, s) \/ ShowCode(d, s) \/ JoinRoom(d, s)
UsePhone(t) ==
    \/ \E s \in Sessions : Scan(t, s)
    \/ \E n \in Numbers : SubmitStep1(t, n)
    \/ \E c \in Cards : CaptureAndVerifyCin(t, c)
    \/ \E f \in Faces : CaptureAndVerifyFace(t, f)
    \/ Advance(t) \/ ShowMismatch(t)
HandleStep(t) ==
    \/ SaveInfo(t) \/ VerifyCin(t) \/ LoadCard(t) \/ VerifyFace(t)
    \/ UpsertTrustedDevice(t) \/ NotifyDesktop(t) \/ Abort(t)

Next ==
    \/ \E d \in Devices : Browse(d)
    \/ \E s \in Sessions, r \in Requests : StartElsewhere(s, r)
    \/ \E t \in Tabs : UsePhone(t) \/ HandleStep(t)
Spec == Init /\ [][Next]_vars

-----------------------------------------------------------------------------
TypeOK ==
    /\ row \in [Sessions -> Row]
    /\ profile \in [Users -> Profile]
    /\ devices \in [Users -> SUBSET Devices]
    /\ desk \in [Devices -> Desk]
    /\ opened \in [Devices -> SUBSET Sessions]
    /\ joining \in [Devices -> SUBSET Sessions]
    /\ rooms \in [Devices -> SUBSET Sessions]
    /\ news \subseteq Devices /\ cut \subseteq Devices /\ late \subseteq Devices
    /\ page \in [Tabs -> Page]
    /\ call \in [Tabs -> Call]
    /\ read \subseteq Cards \X (Numbers \cup {None})
    /\ matched \subseteq Users \X Cards \X Faces /\ passed \subseteq Sessions

(* The card of a verified profile was read by the OCR and its holder's     *)
(* face was compared with it, and the face on record matched a card that   *)
(* had been read, for any phones, sessions and modes in any order          *)
(* (handleStep: what each step takes on trust from an earlier one).        *)
ReadCard(c) == \E n \in Numbers : <<c, n>> \in read
ProfileIsEvidenced ==
    \A u \in Users : HasProfile(u) =>
        /\ ReadCard(profile[u].cin)
        /\ \E f \in Faces : <<u, profile[u].cin, f>> \in matched
        /\ \E c \in Cards : <<u, c, profile[u].face>> \in matched /\ ReadCard(c)

(* A browser is trusted for a user only when a face was matched in a       *)
(* session that names this user and this browser, and the user then has a  *)
(* profile, whatever sessions of other users and browsers the same phones  *)
(* serve meanwhile (upsertTrustedDevice).  Who opened the session is       *)
(* another matter: kyc/init believes what it is sent.                      *)
DeviceIsVetted ==
    \A u \in Users : \A d \in devices[u] :
        HasProfile(u) /\ \E s \in passed : row[s].device = d /\ UserOf(s) = u

(* A phone that says All Done keeps its word to a browser that joined in   *)
(* time: the SUCCESS that reloads the page is on its way to the browser    *)
(* that still shows the session, and the status it then asks for is        *)
(* trusted; unless the browser lost its socket, its page or an answer, or  *)
(* its room was joined only after SUCCESS was emitted (SecurityModal,      *)
(* kyc.gateway and handleStep together).  The modal shows the code before  *)
(* it joins, so the last can happen, and that browser waits for good.      *)
DesktopUpdates ==
    \A t \in Tabs, d \in Devices :
        AllDone(t) /\ desk[d].session = SessionOf(t) =>
            \/ d \in news /\ TrustStatus(d) = "trusted"
            \/ d \in cut \cup late
=============================================================================
