# XpresPay: a TLA+ model of the marketplace

XpresPay is a marketplace in which retailers buy from farmers. A retailer pays
by card or with credit that a lender granted; the money is held until the
farmer proves the delivery, and is then transferred to the farmer's Stripe
account. An admin can freeze an order and let it go on later. The
repository holds a NestJS backend (`src/backend`), a Next.js frontend
(`src/frontend`), a Python service for image recognition (`src/kyc-vision`) and
a Keycloak realm.

These modules model what the backend does with orders, money, accounts,
identities and photos, and what the pages show of it and do to it. TLC checks them on
small instances, and TLAPS proves the most important safety properties for
every instance.

## Inventory

| component | state it keeps | operations | correct when |
|---|---|---|---|
| escrow ledger `transaction-ledger.service.ts` | `Transaction.status`, `TransactionLedger` rows | `transition()`: `lock`, `deliver`, `release` | a status moves along `VALID_TRANSITIONS` only, the ledger is the history of the status |
| escrow handlers `transactions.service.ts` | `proofOfDelivery`, `transferId`, the Stripe transfers | `verifyProofOfDelivery`, `releaseFunds`, `getPodUrl` (read) | no payout before payment and proof; one payout; a RELEASED order names its transfer |
| Stripe webhook `stripe-webhooks.controller.ts` | `Order.status` "paid" | `payment_intent.succeeded` | every payment is locked in the end, once |
| orders `orders.service.ts` | `Order`, `OrderItem`, `Loan.totalUsed`, `Product.stockAvailable` | `Order`, `blockOrder`, `unblockOrder`, listings | stock and credit are never overdrawn; a block saves the status it overwrites; unblocking restores it |
| credits `credits.service.ts` | `CreditOffer`, `Loan.totalCredit`, `stripeCustomerId`, Stripe charges, refunds, transfers | `createSetupIntent`, `createCredit`, `acceptCredit`, `cancelCredit`, `rejectCredit`, listings | each charge ends refunded or transferred, never both; the loan grants what was transferred |
| products `products.service.ts`, storage `storage.service.ts`; pages `farmer/products` | `Product`, `ProductImage`, objects of the bucket; the dialogs' lists of photos | `create`, `update`, `remove`, `addImage`, `deleteImage`; two `handleSave` | an edit does not undo what orders took from the stock; a photo's row and object go together; a save that says it is done is |
| users `users.service.ts`; page `admin/users` | `User.isEnabled`, `TrustProfile`, the Keycloak account; the list | `setUserEnabled`, `updateTrustScore`, `create`, listings | Keycloak and the database agree on who may log in |
| session tokens `[...nextauth]/route.ts`, `providers.tsx` | access and refresh token in a cookie, the tab's session | `jwt`, `session`, refresh, sign-in, sign-out | a disabled user is signed out |
| auth `auth.service.ts`, `sync-user.guard.ts`; pages `auth` | Keycloak user and role, Stripe account, `User` row | `register`, `SyncUserGuard`, `syncUser`, onboarding links | the row, Keycloak and Stripe agree; the page says what happened; a registration that died is made good |
| KYC `kyc.service.ts`, `kyc.gateway.ts`; pages `verify/[sessionId]`, `SecurityModal`, `TrustContext` | `KycSession`, `TrustProfile`, `UserDevice`, socket rooms; the pages' steps | `initSession`, `handleStep`, `join-kyc-room`, trust status | a verified profile has evidence; a trusted browser was vetted; the desktop hears of it |
| order pages of admin, farmer and retailer, escrow page and proof dialog | the order as last loaded, filters, dialogs | load, filter, block, unblock, upload, release | the history shown is coherent; the banner is kept; no page hangs |
| cart `useCart.ts`, market and checkout pages | a cart per user in local storage, the group to order in session storage, the steps of the checkout | add, remove, set, clear, order, pay | nobody loses or inherits a cart; an order is one farmer's and within the stock; "confirmed" is true |
| notification `notification.service.ts`; `NotificationContext.tsx` | `Notification` rows; the page's copy | create, list, mark read | nobody is told of what did not happen |
| kyc-vision | none | OCR, face match, proof matching | any answer is possible |
| loan `loan.service.ts` | none: a generated stub | none | nothing to check |
| guards, bootstrap, Keycloak realm, scripts, credit pages, dashboards | none | checks of claims, wiring, rendering | not state machines |

How they interact: the frontend calls the backend over HTTP; the buyer's page
confirms the payment with Stripe directly, and Stripe tells the backend by a
webhook that it repeats until it is answered with 2xx. The handlers of one
order share its `Transaction` row and its ledger. `releaseFunds` calls Stripe,
then the ledger, the users service and the notification service inside one
database transaction. Accepting a credit offer raises the `Loan` row that
the checkout draws from. A login hands the browser tokens that carry the roles; the first
request that carries them lets the guard insert the `User` row. The phone that
verifies an identity and the desktop that waits share only a session row and a socket room. The cart
never reaches the backend: a checkout sends the group that a tab has in its session storage.

What is hard: every handler is a sequence of awaits over Postgres at READ
COMMITTED, with no row locks, no conditional updates and no idempotency keys at
Stripe. Two requests interleave at every await; a request may die between a
Stripe call and the database write that records it; webhooks are repeated and
may arrive while an admin blocks the order; a status read before an await is
used after it. The tests of the repository instantiate the classes and exercise none of
this.

## The modules

| module | models |
|---|---|
| `Escrow` | the escrow of an order: every handler that moves it, step by step, with Stripe |
| `EscrowPromise` | what the escrow promises, as an abstract specification |
| `EscrowRefinement` | the mapping from `Escrow` to `EscrowPromise` |
| `EscrowProofs` | the theorems about `Escrow` and their proofs |
| `Credits` | credit offers: the saved card, the charge, the answers and the loan they raise |
| `CreditPromise` | what a credit offer promises its two parties |
| `CreditRefinement` | the mapping from `Credits` to `CreditPromise` |
| `CreditsProofs` | the theorems about both and their proofs |
| `Checkout` | `Order()` and what changes the rows it reads: stock, prices, loans |
| `Sale` | what a checkout promises: everything sold and paid at once |
| `CheckoutRefinement` | the mapping from `Checkout` to `Sale` |
| `CheckoutProofs` | the theorems about `Checkout` and their proofs |
| `Kyc`, `KycProofs` | identity verification by a desktop and phones |
| `Accounts`, `AccountsProofs` | registration, first login and onboarding |
| `OrderPages` | what the pages of all roles show of an order and do to it |
| `Access` | enabling and disabling a user, and the tokens of the user's browser |
| `PagesProofs` | the theorems about `OrderPages` and `Access`, whose names are kept apart for it (`AccessInit`, `AccessSpec`, ...) |
| `Shop`, `ShopProofs` | the cart and the pages that order from it |
| `Catalogue`, `CatalogueProofs` | products and their photos, in two stores and two dialogs |
| `MC...` | an instance of each component for TLC |

The state machines are kept apart, each with the inputs the others may give it:
`Escrow` starts from any purchase a checkout can commit (`Purchase`), `Checkout` has
`Grant` for what an accepted offer of `Credits` does to a loan. What crosses from one to
the other is a committed row, read again by the next request. `OrderPages` takes each handler
of `Escrow` as one step, since it is about pages that act on old answers; what
overlapping handlers do is `Escrow`'s subject.

### Escrow

The variables follow the rows: `status`, `proof` and `transferId` are columns
of `Transaction`, `orderStatus` is `Order.status`, `ledger` the set of
`TransactionLedger` entries of an order (`prev`, `cur`, and the timestamp as
`at`), `trust` the increments of `TrustProfile.trustScore`, `notices` the
notifications sent. `paid`, `acked` and `transfers` are what Stripe knows: the
payment succeeded, the event was answered, the transfers made. `purchase` is
what the checkout computed: sellers, credit applied, the rest for the card, the fee, and `whole`: whether the
amount to transfer is a whole number of cents.

A handler is cut at its awaits. A request in flight is a record in `req`: which
handler, where it is, the order, the farmer who called, and the locals it carries
over an await (`seen`, the status it read; `stamp`, the timestamp of the ledger
entry it inserted; `transfer`, the transfer Stripe made for it).

- *lock*: `WebhookReceive`, then `Load` (read and check), `Create` (the entry, uncommitted) and
  `WebhookCommit` (the update, `Order.status`, the commit and the 2xx).
- *deliver*: `ProofReceive` (owner and status), `ProofRead` (the OCR answer, any),
  `ProofRecord` (upload and row), `Load`, `Create`, `DeliverCommit`.
- *release*: `ReleaseReceive`, `ReleaseRecheck`, `ReleaseTransfer` or
  `ReleaseRefused`, `Load`, `Create`, `ReleaseNotify` or `ReleaseRollback`, `ReleaseCommit`.
- *block* and *unblock*: a read, then one batched write (`BlockWrite`, `UnblockWrite`).
- `Abort` ends any request between two steps: a crash, a lost connection, a
  timeout. What was committed or done at Stripe stays.

Choices that a reader should know. The entry that `Create` inserts becomes visible at
the commit, with the timestamp taken at the insert. The notification of a release is
written through the service's own client and not the transaction's, so it
survives a rollback. `TransferAmount` is the amount received minus the fee, and
without a payment intent nothing was received, so it is not positive. The code computes it in floating
point, as `amount_received - Number(platformFee) * 100`. For an order paid by card alone the result is whole, since the
amount is some twenty times the fee and the subtraction rounds the fee's error away; with credit it may be
39.99999999999999. So a `Purchase` with credit may have `whole = FALSE`, and Stripe refuses what is not `Transferable`. The upload of the proof and the row update that names it
are one step, since nothing reads the file in between. The
404 of an unknown order or a stranger's order is a request that is never
begun. Ledger amounts are left out: they are copied, never computed with.

### EscrowPromise

An order has a phase (awaiting, held, proven, settled), may be frozen, and
counts its payouts. Freezing leaves the phase alone; settling is the payout. The
mapping reads the phase of a blocked order from its last BLOCKED entry, and calls
an order settled from the moment Stripe accepted the transfer.

### Credits

`status`, `refundId` and `transferId` are columns of `CreditOffer`, `loans` the
pairs that have a `Loan` row, `customer` is `User.stripeCustomerId`. `granted`
is `Loan.totalCredit`: the increments in the order they were made, each as the
number of the transfer it stands for; the column is their sum times the
offer's amount. `customers`, `intents`, `cards`, `charged`, `refunded` and
`transfers` are what Stripe knows.

- *setup*: `SetupReceive` (reads the user row), `SetupCustomer` and `SetupSave`
  when it names no customer, `SetupIntent`; `ConfirmCard` is the lender's page.
- *create*: `CreateReceive`, `CreateCharge` or `CreateDeclined`, then the
  transaction: `CreateFindLoan` and `CreateInsert`, which fails when another request
  created the loan of the pair in between, since the pair is unique.
- *cancel* and *reject*: `AnswerReceive` (finds a PENDING offer), `Refund`,
  `Close` (updates by id).
- *accept*: `AcceptReceive`, `AcceptTransfer`, `AcceptOffer`, `AcceptGrant`. The last
  two are written through the service's client and not the transaction's: two
  commits, as two steps.
- `Tell` writes the notification, which no handler awaits. `Refused` and `Abort` are
  the faults.

One variable no code keeps: `disturbed`, a history of the offers that two requests worked on at the same
time, or that one died over after it moved money and before it wrote all of it down. No guard reads it. What the handlers promise in
full, they promise to the other offers only, and `UndisturbedIsSettled` says it of those while anything happens around them.

The amount of an offer never changes, so one offer's charge, refund and transfer are
counted and not added up. An offer `c` names the request that creates it: a
second POST is another offer. The role and amount checks
of `createCredit` change nothing and are a request that is not begun.

### CreditPromise

The money of an offer is at one `place`: the lender's card, the platform, returned, the
farmer. It moves card to platform to one of the other two, and the loan counts
what the farmer received, once. The mapping takes the place from Stripe's records and
the count from `granted`.

### Checkout

`shelf`, `stock` and `price` are the `Product` rows, `total` and `used` the
two columns of `Loan`, `orders` what an order committed (its subtotal, credit
and amount by card), `told` the sellers with a notification, `intents` the amounts of
the payment intents at Stripe. `page` is the stock that a farmer's product page listed when it was loaded, `form` an edit form a farmer
has open with the stock it shows, copied from the page. Each `r` in `Requests` is one
call of `POST /orders`, with its locals in `req`.

- *before the transaction*: `Receive`, `CheckStock` per item, `ReadLoan`, `ReadPrice` per
  item, `CreateIntent` or `IntentRefused`. Nothing read here is protected.
- *the transaction*: `Reserve` per item, `Notify` (the writes up to the notification,
  which goes through another connection and stays after a rollback), `Commit`.
- *around it*: `EditPrice`, `GetMyProducts` of the product page, `OpenForm`, `CloseForm` and `SaveForm` of the edit modal,
  `Remove`, and `Grant`.

A transaction that wrote a `Product` row holds it (`held`) until it ends. Others see the old
value when they read, and wait when they write; `updateMany` then evaluates its
condition anew, as Postgres does at READ COMMITTED. A cycle of waiting
transactions is broken by aborting one of its members (`BreakDeadlock`). The
row lock of the loan is not modelled: it is taken after all products,
so who waits for it holds up nobody it depends on, and increments commute.

Amounts are cents. The tax is 5 %, rounded; `toFixed(2)` of a binary fraction may round half a
cent either way, the model rounds it up. A loan that was never opened is one with
0 credit; both give a credit of 0. `amountToTransfer`, which Escrow derives
from the payment instead, and the order's text fields are left out. An empty
cart passes the DTO, so the model allows it: it has no loan and no seller. A
repeated product in a cart is allowed too, and is in the instances. The edit form sends
any price back; leaving it as it was opened is one of the choices. It always sends a stock: that of the page's
load, plus the farmer's change.

### Sale

One action sells: all items are in stock and leave it, at the prices of that moment,
paid by the loan as far as it reaches if wished, the rest by card. The mapping is
the identity on stock, prices, loans and orders: the sale is the commit, and
whatever happened before is stuttering.

### Kyc

`row` is `KycSession` (browser, mode, typed number, card), `profile` and `devices` are
`TrustProfile` and `UserDevice`, `rooms` the socket rooms, `joining` the `join-kyc-room` messages on their way to the gateway. `desk` is what `TrustContext` and
`SecurityModal` keep in a browser, `page` what `verify/[sessionId]` keeps on a phone, `call` the
`PATCH kyc/step` that a phone waits for. `read`, `matched` and `passed` are history: what the
vision service has said. So are `cut` and `late`.

- *desktop*: `FetchStatus`, `HandleAction`, `StartKyc` (the POST), `ShowCode` (its answer: the QR code is on the
  screen, the socket begins to connect), `JoinRoom` (the gateway), `CancelAndClose`, `OnProgress` (the reload after success).
- *other clients*: `StartElsewhere`. The POST is public and takes the user and the mode from its body and the
  fingerprint from a header, so a session may name any user and browser of `Requests`.
- *phone*: `Scan`, then one submission per step, `Advance` or `ShowMismatch`.
- *server*: `SaveInfo`; `VerifyCin`; `LoadCard`, `VerifyFace`, `UpsertTrustedDevice`, `NotifyDesktop`,
  the writes of step 3 in their order.
- *faults*: `FetchFails`, `Reload`, `SocketDrops`, `Abort`. `cut` remembers the browsers one of
  the first three struck, `late` those whose room was joined, if at all, after SUCCESS was emitted to it: a phone may be
  through before the desktop has joined. They hear of nothing, and `DesktopUpdates` promises them nothing.

Any number of phones may scan one code, and none is ever told that the session is over: `expiresAt`
and `status` are written and never read, so the model leaves them out. The card is
compared with the number in the same request, not with the one in the session, and a
repeated full verification keeps the number of the older profile. `ProfileIsEvidenced` says
what remains true regardless. The caption that other `KYC_PROGRESS` messages change, and the
camera, are left out. A page loaded anew on a phone is another member of `Tabs`.

### Accounts

`kc` is what Keycloak knows of an e-mail address (account, role, mail sent), `row` the `User` row,
`accounts` the Stripe accounts with the page whose request opened them, `tab` the
registration pages with the request each waits for, `token` the roles in a browser's token,
`call` the authenticated requests in the guard. `lost` remembers the slots of `call` whose latest request died there; a registration
that dies leaves no trace in it.

`register()` is one action per call: `FindExisting`, `CreateInKeycloak`, `AssignRole`,
`SendVerifyEmail`, `CreateAccount`, `CreateLink`, `Insert`. Nothing is undone when one fails. A login
(`SignIn`) may come at any moment once the account exists, and takes the roles of that moment; its
requests go through `CanActivate`, `SyncUser` and `SyncInsert`. Uniqueness is Keycloak's of
user names and the database's of Keycloak ids.

### OrderPages

One order and the pages that show it. `order` is the transaction's status, ledger and proof.
A page has the answer it shows, the questions it has asked (`asked`: the filter, and the answer
once the server has read it), its filter, its dialog (`step`) and the handler under
way (`pc`). `Serve` reads at the server, `Show` and `FetchFails` end a request in any
order: no page cancels a request or compares an answer with its filter. `Shows` is the
rendering: steps done, steps dated, the status before the block, the link to the proof.

Each handler of the backend is one step; what others do is `Elsewhere`, so one page is
enough to check. Search and pagination are left out. A purchase wholly on credit
starts LOCKED and has no INITIATED entry, so its first step is done without a date. The success
screen of the proof dialog is left out: the page closes the dialog in the same
callback. A detail page whose load fails goes back to its list, which is a page of another kind.

### Access

`keycloak` and `row` say whether the user is let in. An administrator's `screen` shows the row with
the toggle applied at once; `call` is `setUserEnabled`: `Load` (the early return when the row
already agrees), `UpdateKeycloak`, `Mirror`, and `Abort` in between. `cookie`, `tab` and
`fetch` are the user's browser: the tokens in the cookie, the session its tab knows, the
requests for a session under way. `Jwt` renews tokens that are due, `Session` stores the
answer, `TokenErrorWatcher` signs out. `Age` lets all good tokens come due at once.

Only one user is modelled; another user's toggle is `OtherToggled`, since one variable holds the
spinner of all rows. The loss of an answer to the browser is left out; a failed refresh
(`Failures` in `RefreshAccessToken`) is not.

### Shop

`session` is the browser's cookie, `storage` the carts in local storage, `tab` React's state
and the session storage of each tab, `orders` what the backend made. `wanted` is history: the
changes each user made, summed.

`SeeSession` is the render in which a tab learns who is signed in, with both effects of `useCart`: the
one that reads the new user's cart and the one that writes what was rendered *before*. `Flush`
is the render after it. The other operations set the state and write the storage in one step, as
a click and its effects do. `Mount` takes the group from the session storage; it happens when the
checkout page is mounted and not when another group is chosen in the drawer beside it.
`HandleConfirmOrder`, `MakeOrder` and `Confirmed` or `ConfirmFails` are the order,
`HandleCreditSuccess` ends one that credit covered. A payment by card is three steps: `HandlePayment` asks Stripe, `ConfirmCardPayment`
is what Stripe does, `HandleAnswer` what the page does with the answer. The page waits with everything around it alive, so
the tab may be elsewhere, or hold another group, when the answer comes: the callbacks of the page that
asked still run (`Succeeded`). Only a reload makes it deaf (`pay` is `left`). `Settle` is a bank that took its time.
`heard` says what is left of the page that asked for an order: the page itself, the app around it, or nothing after a reload.
`Reload` of the success page shows it again, since its order is in the address.

An order here is one call of `POST /orders`, which is `Checkout`'s subject; prices and sums
are left out. When the last item is taken off the list the page shows a spinner, and only leaving it
helps. One order at a time per tab is a bound, and one payment.

### Catalogue

`rows` and `objects` are the two stores of a photo, `products` the product rows; a photo is its
key, which names product, file and time. `used` and `torn` are history: keys that were
uploaded, and photos over which a call died or whose product was removed. A `page` is a tab
of the farmer with its list, its dialog (`gone` and `files` are what it has marked and picked) and the save under way: `marked` and
`picked` are these lists as the save found them, `del` and `put` what is left of them, `key` the photo the current call is about.

A save is a series of calls: `Create` or `Update`, then `DeleteImage`, `DeleteFile`, `DeleteRow` per
photo taken away, then `UploadFile`, `CreateRow` per new one. `Failed` ends it at the first call that fails, and
the dialog, if still open, may save again *from the start*. The buttons of the photos are not disabled by a
save, and it does not see what they do: `handleSave` goes on with the lists it closed over. Closing a dialog stops nothing. A lost
answer is `Abort` after the call's last step. `Remove` exists in the interface only: no page
calls it. One save at a time per page is a bound, and so is that the next dialog waits for it and that a list is not refreshed
under an open dialog; two tabs may save at once.

## The runs

All runs pass; every property of a run has a bug of the code's kind that breaks it, in `PROJECT.json`.

| run | instance and faults | checks |
|---|---|---|
| `escrow_race` | one order of two farmers, one without a trust profile; three overlapping requests that may die anywhere | `EscrowIsFunded`, `PayoutNeedsDelivery`, `BlockedCanBeRestored`, `ReleasedWasPaidOut`, `PaidOrderIsInLedger` |
| `escrow_serial` | two orders, one request at a time, no faults, purchases by card, by credit, almost by credit, and in part by credit with a fraction of a cent to transfer | `HistoryTellsStatus`, `Escrow` implements `EscrowPromise` (`KeepsPromise`), `PaymentIsLocked`, `FirstDeliveryIsReleased` |
| `credits_race` | two offers for one loan, overlapping requests that may die anywhere | `AnswersAreSettled`, `CreditIsBacked`, `NoticesAreTrue`, `UndisturbedIsSettled` |
| `credits_serial` | three offers of two lenders, one request at a time | `BooksAgree`, `CardIsFound`, `Credits` implements `CreditPromise` (`KeepsOfferPromise`) |
| `checkout_race` | three checkouts with stock for two, two of them want the same products in opposite order; overlap, faults, a product removed, a loan raised | `TypeOK` (stock and credit are natural numbers), `StockIsConserved`, `LoanIsSpentByOrders`, `SellersAreTold`, `CheckoutEnds` |
| `checkout_serial` | two checkouts that want more than there is, edits by a form that shows an older page's stock, a loan raised, one at a time | `CreditWithinLoan`, `PaidInFull`, `Checkout` implements `Sale` (`KeepsSale`) |
| `kyc` | one browser, two sessions of either mode, one of them perhaps opened for it by another user's client, two phones, two cards; rooms may be joined late, sockets, pages and requests be lost | `ProfileIsEvidenced`, `DeviceIsVetted`, `DesktopUpdates` |
| `accounts` | one address, two registration pages, two requests that may die | `RowsAgree`, `ToldIsTrue`, `FirstRequestSyncs` |
| `order_pages` | a page of each kind in turn, two answers outstanding, two blocks, everything else elsewhere; answers may be lost | `PageTellsHistory`, `BannerIsKept`, `PagesSettle` |
| `access` | one list, two toggles at once, two fetches of the session at once; requests may die | `ToggleAgrees`, `DisabledIsSignedOut` |
| `shop` | two retailers in turn in one tab, two farmers, one product all but sold out; orders and payments answered late, elsewhere or never | `CartIsStored`, `OrdersAreFit`, `SuccessIsPaid` |
| `catalogue` | two tabs, one product, one picture uploaded at most twice; photos changed during a save; calls may die | `StoresAgree`, `SavedIsDone` |

There are two regimes on the money paths. In the races requests overlap and die anywhere (several slots in
`Procs`, or `Overlap`, and `Faults = TRUE`): what holds there holds of the code without
reservation. In the serial runs requests follow one another and nothing fails:
the properties of that regime fail as soon as two requests overlap. Two checkouts that overlap overdraw a
loan (`CreditWithinLoan`), after which the next order's card pays more than the order costs
(`PaidInFull`). Nothing in the code enforces this regime. A form saved after a sale puts the sold units back on sale
(`StockIsConserved`) in either regime, which is why that property is about products no form changes. The six other runs are races: everything
overlaps and everything may be lost, and their properties say what the code
nevertheless guarantees.

Bounds. `Procs` of two or three: an overlap needs two, and a third can act between
the other two. `MaxBlocks` bounds the BLOCKED entries of an order, checked when
the block starts. `MaxTransfers`
is two, the second being the payout that must not happen. `MaxStamp` bounds
the ledger timestamps of an order: three transitions and two entries per
block, so in the serial run (7) it never cuts anything off. In the
race (4) it covers the whole life of an order plus one stale or blocking write.
For credits, `MaxTransfers` of two admits one transfer too many, by an overlap or by an accept repeated after a death, and
`MaxCustomers` bounds the customers a lender gets: one in the race over offers, which is about the
offers, two where the customers are the question. Slots are interchangeable,
so the escrow and credits races use their symmetry.
For the checkout, two `Prices` are enough for a price to change under a quote,
`Grants` and `MaxCredit` let a loan reach nothing, part and all of an order (42 cents is an
order of two units with its tax), `Changes` let a farmer save a form with the stock it shows or a unit more. In the race the first cart can be
served with either of the other two and not with both, one of the two that use the loan is paid by it in full
and the other in part; no property of the race depends on a price, so there is one, and it
has no form (`Changes` is empty), since a form saved after a sale breaks what the race checks.
For `Kyc`, two sessions of one browser can be one of each mode, two phones overlap in one session or run two, a second
user is one whose client names the same browser, and a second card is one that was never read. For `Accounts`, two pages race for one address and two
requests race for its row with tokens from before and after the role. A third answer under way in
`OrderPages` (`MaxAsked`) is like the second, and two blocks tell the first from the last. In `Shop` one tab is
a real bound for `CartIsStored` (two tabs overwrite each other's carts, see below) and only an economy for the
other two properties, which are proved for any number of tabs. One order in `Shop` suffices for a
late answer to meet another group. In `Catalogue` two uploads of one picture
are a retry. Those properties that are also proved hold beyond every bound.
The systems may really stop (every order released, no slot busy, bounds reached), so deadlock
is not checked, except in `shop`, where a retailer can always reload.

Fairness. `WF(Step(p))` in `Escrow`: a request in progress continues, since
nothing in the handlers waits for another request. `SF(~acked /\ WebhookReceive)`: Stripe
delivers an event again until it was answered with 2xx; strong, because the
retries go on over days, whatever occupies the backend in between.
`SF(ReleaseReceive)`: `ProofOfDeliveryModal.tsx` calls release as soon as the
proof was accepted; it calls once, so `FirstDeliveryIsReleased` claims the release only for
orders that were never blocked, and only without faults and overlaps, where once is enough.
`WF(Step(r))` in `Checkout`: a request continues unless it waits for a row, and Postgres breaks
a cycle of waiting transactions, so `BreakDeadlock` is one of the fair steps.
In `Accounts` a request the server took up goes on or dies. In `OrderPages`
requests are answered and answers arrive or fail; users need do nothing. In `Access` tokens grow old, and an open tab
fetches its session every four minutes (`refetchInterval` of `providers.tsx`), gets an answer and
runs its watcher.

## Disagreements with the repository's own words

These follow from the modelled steps; none is a property of a passing run.

- `transition()` says it validates the transition against the state machine, but updates by id
  whatever it read: an overlapping delivery of the payment event moves an order from DELIVERED back to LOCKED.
- `blockOrder` saves the previous status "so unblock can restore": it saves the one read
  before the batch, and a webhook in between makes unblock restore INITIATED.
- the success page promises funds are released once delivery is confirmed: not for
  an order that credit paid, whose transfer would not be positive, nor for one paid in part on credit whose
  transfer is no whole number of cents (a fee of 1.10 and 1.50 by card).
- "Only PENDING credits can be cancelled": an accept between the query and the
  update makes it cancel an accepted one, refunded and transferred.
- the Stripe customer is "created once, reused forever": two setup requests at once
  create two, and the card saved for one of them is lost.
- "All items must belong to the same farmer (single-farmer checkout)": the owner of the
  first product is remembered and compared with no other. The pages send one farmer's
  items (`OrdersAreFit`), the interface takes any.
- the edit form writes the stock that the page listed when it was loaded: changing a price puts back on sale what
  was sold since, though nothing overlapped.
- the phone says that the desktop will update by itself: not if the phone was through before the desktop joined its room, which it
  does only after it shows the code. That desktop waits for good.
- a product saved without photos is reported as saved and is not created: the query of
  `products.service.ts:23` is only awaited inside the loop over the files.
- a save whose delete failed halfway can never finish: the retry deletes the same photos again, and those
  that are gone are an error. A retry after a failed upload uploads the first pictures twice, and one of a new product makes a second product.
- the buttons of the photos stay enabled during a save: what is marked or picked then is shown as changed, and dropped without
  a word when the save closes the dialog.
- `usePresignedUrl.ts` keeps a URL for 50 minutes that `storage.service.ts:54` signs for 60 seconds.
- two tabs of one retailer overwrite each other's cart: each writes its own copy with every change.
- items put into the cart before the tab knows its session are lost.
- an order whose answer is lost stays in the cart and in session storage: the page shows an error and
  the same group can be ordered again, a second payment. Leaving the page while the order is made has the
  same end without an error, except that the cart then loses the items.
- a payment that succeeds after the retailer left the checkout takes the tab to the success page, and removes
  from session storage whatever group was chosen meanwhile. A payment whose answer is lost leaves the form: Stripe refuses the
  next try, and the page never says that the order is paid.
- the list of orders may show the rows of an older filter under a newer one (`ordering` in `PROJECT.json`).
- a session expires and closes by `expiresAt` and `status`, which nothing reads: a QR code works for ever and for several phones;
  and the number in a verified profile need not be the one compared with the card.
- a farmer who logs in before `register()` inserts the row gets a row without a Stripe account, the
  registration reports a failure, and nothing gives the row an account later.
- an answer to a session request that was under way at a sign-out sets the cookie again.

## What is proved

`EscrowProofs` proves, for any orders, farmers, number of overlapping requests,
purchases, blocks and faults: `TypeCorrect`, `Funding` (`EscrowIsFunded`), `Payouts`
(`PayoutNeedsDelivery`), `Releases` (`ReleasedWasPaidOut`) and `Blocks`
(`BlockedCanBeRestored`).

None of these is inductive. The code checks a status when a request begins and
acts on it several awaits later, and a block saves a status that an unblock writes
back much later. So what the proof carries (`Invariance`) is *evidence*: for a
status, the facts outside the row that justify it (money arrived; a proof was
recorded; the transfer named by the row was made). All these facts are
monotone: no action takes back a payment, a proof or a transfer. The
invariant says that there is evidence for the status of every row, for the
`prev` of every BLOCKED ledger entry, and for what every request in
flight has seen and is about to write. Then an action that writes a stale status writes one that
has evidence. The proof has one lemma for the monotone facts and one per action.
Assumed are only the `ASSUME`s of the modules, which TLC evaluates on each run.

`PaidOrders` (`PaidOrderIsInLedger`) holds with the same freedom: `orderStatus` and the entry of the lock are
written in one transaction, and a request that may commit has read the status its handler expects, so no other
writes such an entry (`MInv`). Two more theorems are about requests that do not overlap. `History` (`HistoryTellsStatus`) needs
one slot (`OneSlot`) and allows requests to die anywhere: what the one request has read is what the row
says, the timestamp it took is above every entry, and the entries chain by timestamp (`Chain`). `Implements`
(`Spec => KeepsPromise`) needs `Serial`: one slot, no faults, and a trust profile for every farmer. The last
condition is one the code does not enforce: `updateTrustScore` throws for a farmer without a profile
after Stripe made the transfer and before the row is written, so a second release pays again, which the promise forbids
(in `escrow_race` one of the two farmers has none). Its invariant adds to the history how many transfers there are at each
stage of the release; each step of a handler then is a step of `EscrowPromise` or a stutter.

`CreditsProofs` proves for any offers, lenders, farmers, overlap and faults:
`TypeCorrect`, `Answers` (`AnswersAreSettled`), `Backing` (`CreditIsBacked`), `Charges`
(`MoneyComesFromCharge`), `Notices` (`NoticesAreTrue`) and `Undisturbed` (`UndisturbedIsSettled`). The argument is the same: each
row and each request in flight has evidence in what Stripe did. `CreditIsBacked` needs one
thing more, that a transfer belongs to one request only: the number a request carries
is in no other request past its transfer, and is not in `granted` until that request puts it there. `Undisturbed` has an
invariant of its own (`UInv`): an undisturbed offer has at most one request, and its books stand where that request has
brought them (`Stand`), or are settled when there is none (`Calm`), however many requests other offers have.
Under `Serial` (one slot, no faults) its second part proves `Books`
(`BooksAgree`) and `Implements` (`Spec => KeepsOfferPromise`) for any number of offers,
lenders and farmers. That invariant says, for each offer, which of the three books are ahead of the
others at each stage of the one request in flight. `Cards` (`CardIsFound`) needs one slot only and allows
faults: a setup that dies leaves a Stripe customer without a card, and every setup intent and every card
belongs to the customer the row names (`Wallet`).

`CheckoutProofs` proves for any carts, products, prices, overlap and faults: `TypeCorrect`
(so stock is never negative), `Sellers` (`SellersAreTold`) and `Loans` (`LoanIsSpentByOrders`). The invariant
says that what an open transaction took of a row is still there, since nobody else writes a
held row; that a request past its notification has told its only seller; that credit was given to
requests with a loan only; and that what an open transaction holds of a product is what the items it has been
through ask for (`LInv`).

`Stock` (`StockIsConserved`) holds for overlapping, waiting and dying checkouts, prices edited and products removed, as long
as no edit form changes a stock (`Changes = {}`). A form sends back the stock of the page's load
even when requests never overlap, so no weaker condition on overlap would do. A commit takes from each row
what its transaction holds there, which by `LInv` is what the order then counts as sold.

Under `Overlap = FALSE`, with faults, it proves `Credit` (`CreditWithinLoan`), `FullyPaid` (`PaidInFull`) and
`Implements` (`Spec => KeepsSale`). While the one request runs, what it
read of the loan, and then the credit it took, is at most what is left (`Claim`),
and accepted offers only raise that; the prices it read are those it sells at (`Priced`). In the
refinement the commit is the sale, and every step before it and every abort is a stutter, since an open
transaction only holds rows; what the items cost one by one is what they cost product by
product (`CostIsWorth`).

Its sums are folds over finite sets. The lemmas about them (`TalliesAgree`, `SumUnfolds`, `SumAdds`, `SumRaised` and
others) need induction over finite sets; instead of an induction theorem, which takes an operator as its
parameter, they take a smallest set on which the claim fails (`Smallest`, from the well-foundedness of strict inclusion) and
remove one element of it. `Implements` assumes that `Products` is finite, so that an order has a price, and that no product opens
with more than `MaxStock`, the bound of the edits.

`KycProofs` proves for any users, browsers, sessions, phones, cards and faults: `TypeCorrect`, `Profiles`
(`ProfileIsEvidenced`) and `TrustedDevices` (`DeviceIsVetted`). Again the invariant is evidence, this time in
what the vision service said: for the card of a session row, for the one a request took along, and
for a request past the face comparison that its session passed.

`AccountsProofs` proves for any people, pages and requests: `TypeCorrect`, `Rows` (`RowsAgree`) and `Pages`
(`ToldIsTrue`). Only one page per address gets past `CreateInKeycloak` (`made` never goes back), so from
there on what that page holds and what Keycloak and Stripe have is known stage by stage; a token
with a role has Keycloak's.

`PagesProofs` proves for any administrators and requests: `AccessTypeCorrect` and `Toggles` (`ToggleAgrees`), an
action property. The invariant: a toggle that met no other is alone, and past its write
Keycloak has what it wrote. About the pages of an order it proves, for any number of pages, blocks, answers under way and
faults: `PagesTypeCorrect`, `Histories` (`PageTellsHistory`) and `Banners` (`BannerIsKept`, an action property). The
invariant (`PagesInv`) is a set of traces: orders whose ledger is not empty, ends in the status and dates each
step up to where the order stands, or stood before its block, and no later one. Every handler leads from a trace
to a trace, so the order is one, every answer the server gave a detail page was one when given,
and what such a page shows is an answer.

`ShopProofs` proves for any users, tabs, products, farmers and stock: `CartsAreStored` (`CartIsStored`),
`Orders` (`OrdersAreFit`) and `Successes` (`SuccessIsPaid`). The invariant follows the items on their way from
the drawer to the order: a group, a list, a call and an order hold one farmer's products, and past the
first step they are within the stock. It follows a payment in the same way, wherever its tab goes: the order of an answer
"succeeded" is paid, nothing takes that back, and a success page names such an order and has no group beside it. Its types leave the bounds away (a cart is a function to the
natural numbers), since the bound on the pieces is a sum.

`CatalogueProofs` proves for any tabs, products and pictures: `TypeCorrect`, `Photos` (`StoresAgree`) and
`SavesAreDone` (`SavedIsDone`). The invariant says which stores a photo may be in at each stage of a call, that a
photo whose row is still to be made is known to no page and the work of one call, and what a save has done so
far of the lists it began with, which its dialog may no longer show.

Model-checked only: liveness (`PaymentIsLocked`, `FirstDeliveryIsReleased`, `CheckoutEnds`,
`FirstRequestSyncs`, `PagesSettle` and `DisabledIsSignedOut`), since fairness
and ENABLED are out of the proof system's reach, and one invariant, `DesktopUpdates`. Every other safety
property that a run checks, the action properties and the three refinements included, is also the statement of a theorem. The modules use no recursive
operator. The type invariant of `Shop` describes its state and is neither proved nor listed by a run.

## Not modelled

- An earlier save of a photo dialog that closes a newer one when it ends, and a list refreshed under an open dialog: both are excluded by the
  bounds of `Catalogue`.
- The notification context and bell: a list that is polled and marked as read, on which nothing else depends.
- The cache of presigned URLs: a matter of two clock constants, listed above.
- Credit pages, dashboards, sidebars, the user detail page: they load, show and send what the handlers modelled here take.
- Search, pagination, forms' text fields, captions and sums that are only shown.
- Guards that read claims, `IdentityGuard` (applied to no route), the storage controller (called by no page),
  the stub loan service, wiring, compose files and the Keycloak realm.
- The image models of kyc-vision: stateless, and any answer is possible. The matching of a proof
  by the short reference of an order compares normalised texts, in which different references may look alike (B and 5, for one);
  the model allows any answer.
- The connection pool under `acceptCredit` (a hazard without a property): its size is not in the code.
