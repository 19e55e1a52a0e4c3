# style-hub-back: a TLA+ verification project

The repository is the backend of an online shop: NestJS and GraphQL over Prisma
and a single SQLite file, with a Telegram bot for the admin, a Telegram bot and
Mini App for the sellers in the warehouse ("ombor"), an SMS gateway and a mail
gateway. It runs as one Node process that is restarted when it dies. There are
no tests in the repository; what it promises is in its comments, its schema and
its input types.

This directory holds the specifications of its core, the TLC configurations
that check them and the proofs TLAPS checks. Paths below are relative to
`src/src/modules/` of the repository unless they say otherwise.

1. The system: inventory
2. How the models read the code
3. The modules
4. The runs
5. Disagreements between the code and what it says
6. What is proved
7. Hazards and what covers them
8. Plan
9. What is not modelled

## 1. The system: inventory

| component | state it keeps | operations that change it | who calls them | modules |
|---|---|---|---|---|
| order (`order/order.service.ts`) | `orders` and `order_items` rows: `status`, `paymentStatus`, items with copied prices | `createFromCart`, `updateStatus`, `setPaymentStatus`, `rejectPayment` | buyers (GraphQL), admin web panel, admin's Telegram buttons | OrderStock, Checkout, Receipts |
| product (`product/product.service.ts`) | `products` (`stock`, `soldCount`, `viewCount`, `rating`, `isActive`) and `product_variants` (`stock`) | `create`, `update`, `remove`, `hardDelete`, `findBySlug` (view counter), `recalculateSoldCounts` at boot | admin web panel, visitors, boot | Inventory, OrderStock, Shelf |
| cart (`cart/cart.service.ts`) | `cart_items`, one row per user and item | `add`, `updateQuantity`, `remove`, `clear` | buyers; `createFromCart` deletes rows | Cart, Checkout |
| promo code (`promo-code/promo-code.service.ts`) | `promo_codes`, `promo_code_usages`, `usedCount` | `create`, `update`, `remove`, `evaluate`, `recordUsage` | admin; `createFromCart` | PromoCode, Checkout, Links, Pricing |
| admin tools (`admin-tools/`) | none | `clearAllData`, `clearOrdersData` | admin | OrderStock, Checkout, Payment |
| ombor (`ombor/ombor.service.ts`) | `stock_deductions`, `telegram_store_links`; in memory: failed logins, idempotency cache, requests in flight | `session`, `login`, `logout`, `deduct` | sellers' Mini App | Ombor, Inventory |
| store (`store/store.service.ts`) | `stores` with an access code and a commission | `create`, `update`, `remove`, `regenerateAccessCode`, `revokeSellers`, statistics that create missing codes | admin | Store |
| payment (`payment/`) | `payments`, one per order | `initiate`, `markPaid`, `markFailed`; Click and Payme webhooks | buyers, payment providers | Payment |
| auth (`auth/`) | `phone_otps`; reset codes, reset tokens, verification codes and `lastSeenAt` of `users` | send and verify OTP, `register`, `verifyEmail`, `login`, request and perform reset, `refresh` | buyers | Account |
| user (`user/`) | `users.isActive`, profile | `setActive`, `remove`, profile edits | admin, buyers | Account |
| sms, mail (`sms/`, `mail/`) | cached Eskiz token and login in progress | send a code; log in again when the token is refused | auth | Sms |
| telegram, stock-bot (`telegram/`, `stock-bot/`) | the chat and language of an order; in memory: pending receipts, error cooldown | bot callbacks, receipts, notices, launch with retry | Telegram, order, error filter | Bot, Receipts |
| review (`review/`) | `reviews`; `products.rating` and `reviewsCount` derived from them | `create`, `delete` | buyers, admin | Shelf |
| presence (`presence/`) | last heartbeat of each client, in memory | `heartbeat`, `getOnlineCount` | visitors | - |
| wishlist (`wishlist/`) | `wishlist_items` | `toggle`, `remove` | buyers | Shelf |
| catalogue content (`category/`, `brand/`, `gender/`, `banner/`, `site-settings/`) | one table each | create, update, reorder, remove | admin | Links (banner, category) |
| stats, upload, guards, filters, prisma | none of their own | queries, file storage, authorisation, logging | everyone | - |

**Who meets whom.** Stock is the meeting point. `adjustInventory` (order), the
product form (product), the warehouse deduction (ombor) and two resets of
`soldCount` (admin tools, boot) all write the same four columns, and nothing
but the database serialises them. The order row has three writers: the web
panel, the bot's buttons and the payment webhooks. The cart is written by the
buyer's requests and by the checkout. The promo code table is written by the
admin while checkouts read it and later redeem what they read.

**What is hard.** Every handler is an `async` function: it reads, decides, and
writes in a later statement. Between two `await`s any other handler can run.
Only some of the writes are grouped in a transaction, and the reads the
decisions rest on are almost always outside of it. Several pieces of state live
in memory (login failures, idempotency keys, tokens, heartbeats) and are lost
in a restart, while the rows they protect are not.

**What makes each part correct.**

- order and product: stock never negative; goods of an order leave once, when
  the order becomes paid, and come back once; a paid order is never turned into
  a rejected one; `soldCount` is the number of units out with orders.
- cart: one row per item; a row is bought once; nothing leaves the cart that was
  not ordered.
- promo code: one discount per telephone number and code; the usage table is an
  exact account of the discounts.
- ombor: one deduction per request id; at most five wrong codes in a window, and
  again as many after each clearing of the count; a deduction is always of the
  seller's own store; a revoked seller stays out.
- payment: the payment row and the order agree; a paid order has given its goods,
  and only an admin or a failure notice takes the payment away.
- auth: a code is good for one account and a bounded number of attempts; a reset
  code works once unless two requests with it overlap; a blocked user gets no new
  session.
- review: the rating shown is the mean of the reviews there are.
- messaging: a bot that cannot connect keeps trying until it is stopped; one SMS
  login serves all who wait for it; a buyer is told what his order says.
- store: the code of a store is one some admin was told, or is being told; nothing
  of a removed store stays on sale and no seller stays linked to it.
- banner, promo code, category: a link leads to what exists and is of the kind
  the row says; a page of the shop shows each product once; no code takes off
  more than it may, up to the rounding to whole so'm.

## 2. How the models read the code

- **Atomicity.** SQLite has one writer at a time and Prisma's interactive
  `$transaction` holds the write lock, so the body of a transaction is one step.
  A single Prisma statement (`update`, `deleteMany`, `updateMany`, a nested
  write) is one step. Two statements outside a transaction are two steps.
  JavaScript between two `await`s is one step with the statement it follows or
  precedes: the synchronous check and insert of `inFlight` in `deduct` is one.
- **Reads.** A handler that reads, awaits and then writes is two actions,
  `ReadFor...` and `Commit...`; what it read is kept in the record of the
  request and may be stale when it commits. Several reads of one handler are one
  read action where the properties cannot tell them apart: an ordinary
  interleaving in between amounts to an interleaving before or after. This is
  so in `add` and `createFromCart`: the first read only decides whether the call
  is refused, or gives the rows that are ordered, and the later ones are
  re-checked by the database at the commit.
- **Refused calls.** A call that returns or throws right after its read changes
  nothing, so it is not begun. A call that throws later ends with `Fail`,
  `Return` or its like.
- **Restart.** The process can die at any moment with all requests in flight;
  the database keeps what was committed, the maps in memory are empty.
- **Who overlaps.** Much of the code is right only for callers who wait for an
  answer before they ask again. Where that is so, a constant says who does
  (`Exclusive`, `Patient`, `Calm`, `OneCall`, `OneAdmin`) or a history variable
  records who did not (`overlapped`, `shared`, `crossed`, `strayed`). Under
  `Calm`, `Patient` and the history variables everybody else races without
  restraint in the same run, and where the code bounds the damage the property
  says the bound (`LoginsBounded`, `TriesBounded`, `UsedOnce`, `PaidStaysPaid`).
  Under `Exclusive`, `OneCall` and `OneAdmin` nobody races in that run: what
  happens without `Exclusive` is the run `order_race`; two decisions about one
  receipt, and two admins who block each other in the same moment, are in no run.
- **Bounds.** Counters of calls, edits, resets and restarts are in the guards
  and named `Max...`. They bound the instance, not the code.
- **Data.** Quantities are small numbers, people, goods, codes and texts are
  model values or numbers in the order they appear; titles, addresses and
  pictures are left out. Codes that are drawn at random are numbered in the
  order they are drawn: nobody guesses one.
- **History variables** (`taken`, `forgotten`, `barred`, `passed`, `wrong`,
  `renewed`, `shown`, `lost`, `strayed`, `proved`, `tries`, `uses`, `shared`,
  `overlapped`, `confirmed`, `crossed`, `handled`, `reports`) are read by
  properties and by no action's guard.

## 3. The modules

| module | what it is |
|---|---|
| `Sums` | the sum of one figure over a set of rows: `_sum` of an aggregate query, `reduce` over a list |
| `Inventory` | the stock figures and everything that writes them: `adjustInventory`, the product form, the deduction's transaction |
| `OrderStock` | `EXTENDS Inventory`; the order's two status columns, the handlers in flight, clearing of order data, restart and the recount at boot |
| `StockLedger` | the abstract specification: an order's goods go out once and come back once |
| `Payment` | `EXTENDS OrderStock`; the `payments` table, the callbacks of Click and Payme, the providers |
| `Cart`, `PromoCode` | the two tables and the statements that run on them |
| `Checkout` | `EXTENDS Cart, PromoCode`; a buyer's requests in flight on the cart, the checkout, the admin's promo codes, reset and restart |
| `Store` | stores, their access codes, products and sellers' links, as the admin panel manages them |
| `Ombor` | `EXTENDS Store`; the sellers' Mini App: logins, sessions, the guard, the idempotent deduction |
| `Account` | registration codes, accounts, passwords, blocking |
| `Sms`, `Bot`, `Receipts`, `Messaging` | sending a code; launching a bot and reporting an error; payment by receipt; the three together |
| `Shelf`, `Links`, `Pricing`, `Catalogue` | products on show with reviews, wishes and pages; banners, promo codes and categories as links to them; what things cost; the three together |
| `MC...` | the instances TLC checks |
| `DataFacts` | what the proofs need of numbers, loops and sums |
| `...Proofs` | the theorems, see section 6 |

### Inventory

`stock`, `soldCount` are the columns of `products`; `listed` the variants that
have a row in `product_variants`, `vstock` the `stock` column of those rows.

`adjustInventory` (`order/order.service.ts:39`) walks over the items of an
order inside a transaction, checking and moving one after the other. It
succeeds exactly when the total demanded of each variant row and of each product
is there, and then moves exactly these totals: `Available`, `TakeStock`,
`ReturnStock`. A line without a variant, and a line whose variant row has been
deleted, moves the product only, as in the code.

The other writers: `EditVariants`, `DropVariants` and `EditStock` are the three
shapes of `ProductService.update` that reach the stock columns. Two details are
the code's own: a `variants` grid overwrites the aggregate by the sum of the
grid, and an update without `stock` writes 0, because the GraphQL input type has
that default (`product/dto/product.input.ts:106`). `DeductVariant` and
`DeductPlain` are the transaction of the Mini App's deduction, seen from the
stock; the request around it is `Ombor`.

### OrderStock, StockLedger

`row` holds the two columns the handlers decide on. `call[h]` is what request
slot `h` executes: the operation, its arguments and `existing`, the snapshot the
handler read. `ReadForStatus`, `ReadForPayment`, `ReadForReject`,
`ReadForCreate` are the parts up to the write, `CommitStatus`, `CommitPayment`,
`CommitReject`, `CommitCreate` the write. `MoveAndSet` is the ending that
`updateStatus` and `setPaymentStatus` share: `wasOut` comes from the snapshot,
the column that is written goes to the row as it is by then.

`Restart` starts the recount of `ProductService.onModuleInit`; the HTTP server
listens only when that is over (`Listening`), while the Telegram bot, launched
without being awaited, may already be answering: approving and rejecting a
payment is possible during the recount, everything else is not.

`Exclusive` says whether the admins keep to one call per order at a time. The
code has nothing that would enforce it; with `TRUE` the module answers what the
code guarantees to admins who do not race, with `FALSE` what happens to those
who do.

The ledger knows only `stock` and the set `out` of orders whose goods are out.
`OrderStock` implements it with `out <- OutOrders` (live, paid, not cancelled)
and `revision <- edits`. `TakeOut` is enabled only if the goods are there and
the order is not out; `PutBack` only if it is: a second restock of the same
order, or a sale the shelf does not cover, has no counterpart in the ledger.

### Payment

`payment[o]` is `Payment.status` of the order's row, or `NONE`. `initiate`
(`payment/payment.service.ts`) is `ReadForInitiate`, which refuses a paid order,
and `UpsertPayment`, which resets the row later. `markPaid` and `markFailed`
write the payment row and then the order: `WritePayment`, `WriteOrder`, with
anything in between, a crash included.

The providers are external and modelled by what the routes rely on: a notice
that was `Report`ed stays `owed` until a callback that was acknowledged has run
to its end; acknowledgements get lost; notices of one order, successes and
failures of several attempts to pay, come in any order, twice and together.
Nothing in `payment.controller.ts` orders them, and `markFailed` looks at nothing
before it writes. `TestCheckout` is the local checkout page that exists in test
mode and is reported by nobody. `confirmed` are the orders a callback has marked
paid; `crossed` those of them for which a failure was still to be delivered or
being worked on at that moment, or was reported later.

### Cart, PromoCode, Checkout

`cart` is the set of rows; ids are never reused. `Insertable` is what SQLite
really enforces of `@@unique([userId, productId, size, color])`: two NULLs are
different, so only items with a size and a colour (`Sized`) are protected.

`promos`, `usages`, `usedCount` are the two tables and the counter. `evaluate`
is `Usable`: the code exists, is active, the number has digits in its normal
form and has not used the code. Whether the code's dates, minimum and scope
admit the purchase is left open here (`Catalogue.Evaluate` has it): a checkout
may always come away without a discount. `recordUsage` succeeds if the code
still exists (foreign key) and the unique index has no row for the number.

`request[h]` is the request in slot `h`. A checkout keeps the items it read, the
`where` clause (nothing, the whole cart, or the ticked ids) and the promo code
`evaluate` found valid; `CommitOrder` is the transaction: the order, the usage,
and the deletion of whatever the `where` clause selects *by then*. If the usage
cannot be recorded or the random order number is taken, all of it is rolled
back.

`overlapped` is a history variable: the users who at some time had two requests
in flight.

### Store, Ombor

`open` are the stores with a row, `accessCode` their codes, `owner` and `active`
two columns of `products`, `link` the `telegram_store_links`. A request of the
panel is one action where the code is one statement (`CreateStore`, `Revoke`,
`PutOnSale`) and a chain through `admin[a]` where it is several: `Regenerate`,
`ClearCode`, `EnsureCode`, `AnswerCode`; `Remove`, `Hide`, `Delete`. An answer
takes its time: between `EnsureCode`, which stores a code, and `AnswerCode`, which
tells it to an admin (`shown`), another admin's request may store a different
one. `lost` are the stores whose answer a crash took, `strayed` the products that
were put on sale in a store between the two statements that remove it.

In `Ombor` a request passes Telegram's signature (`Verified`) or the token and
the link (`Authorized`, the guard) and then goes its steps in `slot[h]`:
`Login`, `LookUpCode`, `CommitLogin`; `CommitLogout`; `StartDeduct`, `Deduct`,
`FinishDeduct`. `failures`, `idempotency` and `inFlight` are the three maps in
memory; `ForgetFailure` and `ForgetResult` are their time limits, `Restart`
empties them. `barred` are the pairs of a seller and a store whose link he lost
while no login of his was on its way, and `passed` the requests of his that had
gone through the guard by then. `wrong` counts the codes that were really wrong,
in the window, and `renewed` how often a right code or a restart cleared
`failures`, the count the code decides on.

### Account

`otp[p]` is the `PhoneOtp` row of a number, `user[u]` the columns of an account
that handlers decide on: number, password, `isActive`, and the three kinds of
codes (`verify`, `sms`, `link`). Every operation of `AuthService` is a read and
a write: `ReadForSend`/`CommitSend`, `ReadForVerify`/`CommitVerify` (the attempt
is counted in the commit), `ReadForRegister`/`CommitRegister`/`Cleanup`,
`ReadForCode`/`CommitCode`, `ReadForUse`/`CommitUse`,
`ReadForLogin`/`CommitLogin`; `ReadForPhone` is a profile's new number and
`ReadForAdmin` the moderation of accounts. Between the two is, in the code, at
least a query and often a password hash.

### Sms, Bot, Receipts, Messaging

`Chosen` is the order in which a provider is picked. A sender through Eskiz
waits for the login in flight or starts one; `token` may be refused while it is
used (`Expired`), which is retried once; whatever fails ends in the log.
`Bot` is `launchBotWithRetry` with its doubling delay and `stop`; the polling of a
bot that is online may break off, which ends in the same `catch` as a launch that
failed (`PollingFails`: telegraf's `launch()` settles when the polling ends). It
also has the cooldown of error reports. In `Receipts` a buyer picks a language under the
greeting, which binds his chat to the order, and sends a photo; the admin
decides under the photo (`Press`) or on the panel (`OnPanel`); `Decide` is the
call into `OrderService`, `Tell` the message to the buyer, with an answer to
Telegram and an edit of the caption in between that may fail.

### Shelf, Links, Pricing, Catalogue

`reviews[p]` counts the reviews of a product by stars, `rating[p]` is the copy
in `products`; creating and deleting a review goes in four steps (start, write,
`ReadAverage`, `WriteRating`). `Shuffled` is the list of the shop in random order,
which is computed anew for every page from the seed of the hour; `visit` is a
visitor who turns the pages. `holders` are the rows of `banners` and
`promo_codes` as a kind and a set of targets; `Normalized` and `Acceptable` are
`normalizeLink` and `normalizeScope`; an update is `StartUpdate`, which reads the
row, and `WriteUpdate`. `UnitPrice`, `Amount` and `Discount` are the arithmetic
of `variant-price.util.ts` and `evaluate`, in the order of the code: the cap before
`Math.round`, the total after it. Prices, values and caps are `Float` columns and
need not be whole: the models count them in parts of a so'm (`Unit` of them; 2 in
the runs). What binary floats do to decimal fractions is left out.

## 4. The runs

| run | instance | question | answer |
|---|---|---|---|
| `order_stock` | 2 orders for the last small shirt, one also for a mug; 2 handlers, 6 calls, 1 edit, 1 reset, 1 restart, `Exclusive` | do goods leave once and return once, whatever the order of calls, edits, resets and restarts? | holds (1.08 million states) |
| `order_race` | the same without `Exclusive`, edits, resets and restarts | does that also hold when web panel and bot handle one order at once? | violated |
| `boot_recount` | `Exclusive`, one restart | is `soldCount` right once the boot recount is over? | violated |
| `payment` | 1 order, 2 calls on it (its creation and an admin's), 1 buyer, 2 callbacks, notices of both kinds in any order, 1 reset, 1 crash | does a payment that was reported arrive, and what takes it away again? | holds: only an admin or a failure notice does (407 thousand states) |
| `webhook` | the same without test mode, reset and crash | does an order marked paid give up its goods? | violated |
| `checkout` | 2 buyers, 2 items (one without size), 1 promo code, 1 number in two spellings and one without digits, 2 slots, 4 requests | are carts bought once, discounts given once, and accounted for? | holds (721 thousand states) |
| `checkout_lost` | the same with 3 requests | does a checkout clear only what was ordered, for every buyer? | violated |
| `ombor` | 2 stores, 2 codes, 2 sellers, 1 tap, 2 slots, 4 requests, 2 admin requests at a time out of 3, 6 of both together, limit 2, 1 result or failure forgotten, 1 restart | is a tap deducted once, how many wrong codes get in, does who was cut off stay out, is every code told to somebody? | holds (921 thousand states) |
| `account` | 2 admins, 1 old account, 2 new ids, 3 numbers, 2 slots, 2 codes, 1 attempt, 4 requests | are numbers unique and proved, codes used once by those who do not overlap, tries limited, admins left? | holds (385 thousand states) |
| `messaging` | 2 senders, 3 configurations, 2 faults, 2 orders, 1 chat, 2 handlers, 2 requests, delays 1 and 2 | does every send end, does the bot come online and back online, is the buyer told the truth? | holds (766 thousand states) |
| `catalogue` | 3 products, 2 categories, 1 store, 1 banner, 2 codes, half so'm, 2 review slots, 2 updates, 3 requests | do links, ratings, pages and discounts stay right? | holds (1.91 million states) |
| `defaults` | the same | does an update keep what was not sent? | violated |

**order_stock** checks `TypeOK`, `StockNeverNegative`, `CallsSound` (the
snapshot of a handler is still the row when it commits), `SoldMatchesOut`,
`StockFollowsOut` (each step moves the stock by exactly the goods of the order
that changed sides), `PaidNeverRejected` and `KeepsLedger` (the refinement).
Why the bounds suffice: two orders compete for the same last piece, one has a
line with and one without a variant; six calls are enough to create two orders,
pay one, cancel it, pay the other and undo it, with another call in flight; an
edit can delete the variant row between sale and return, which is where
variant and aggregate figures part. Two handlers are all that a race needs.

**payment** checks `PaymentTypeOK`, `PaidStaysPaid` and the liveness property
`PaidArrives`, under `FairPaymentSpec`: a provider repeats its notice until it
is acknowledged, however the slots are used meanwhile (strong fairness of the
delivery, which is what "repeats" means to a server that may be busy or booting
each time), and a callback and the recount at boot run to their end (weak
fairness: nothing in them waits for anybody). Nothing is assumed of buyers,
admins and crashes, and a crash may come between the two writes. Of the
two calls one creates the order and one is an admin's; two callbacks let a
failure overtake a success between its two writes, and the other way round.

**checkout** checks `TypeOK`, `OneLinePerItem`, `OrderedOnce`,
`OneDiscountPerPhone`, `UsageMatchesOrders` and `OnlyOrderedCleared`. Four
requests suffice for two additions and two competing checkouts, and two slots
for every race of two requests; one number in two spellings makes the
normalisation matter, the spelling without digits is the case `evaluate`
refuses. `Quantities` is one value: quantities grow by merging.

**ombor** checks `TypeOK`, `LocksExact`, `DeductedOnce`, `Balanced`,
`LoginsBounded`, `RevokedStaysOut`, `CodeShownIsStored`, `OrphansHidden` and
`NoDanglingLink`. One seller waits for answers, the other does not; four
requests are a wrong code, a right one and two wrong ones again, which is one
more than the limit in a window, or a login and a tap sent twice; the product
has two pieces, so a second deduction of the same tap would show. Two admins at
a time can look, regenerate, revoke, remove and put on sale (3 calls): one
between the statements of the other, and both between those of a login or a
deduction. Three requests beside three of the panel, or four beside two, are
looked at, not four beside three. Slots, admin requests and codes are
interchangeable, and TLC is told so.

**account** checks `TypeOK`, `TriesBounded`, `VerifiedCurrent`, `UniquePhones`,
`AccountsProven`, `UsedOnce` and `AdminRemains`. Two codes are an old and a new
one of the same number or of two; one attempt makes the limit bite with the
first wrong entry; four requests are send, verify, register and one that races
with any of them.

**messaging** checks `TypeOK`, `TellsTruth`, `SendsEnd` and `BotObeys` under
`FairSpec`: a request to a provider is answered or fails in the end (`fetch` and
the mail transport settle), a timer that is set fires, and of infinitely many
attempts to reach Telegram some succeed (strong fairness of `Launched` - without
it no launcher can promise anything). Requests of people have no fairness. The
type invariant includes what the comments claim of shared state: one Eskiz login
at a time and one report of a fault per cooldown.

**catalogue** checks `TypeOK`, which says of every link that its target exists
and is of the kind the row names; `RatingInSync` for a product with one review
at a time, while another product has two racing; `PagesPartition`, which
compares the pages with the set of visible products; and `DiscountBounded`, over
all baskets of three items, with a rounded percentage, a cap that is not whole, a
minimum and a fixed amount above the price of some items. Three products and a page of two
make a last page that is not full; the draws of the shuffle are all there are.

`CHECK_DEADLOCK FALSE` is set because the bounded instances do stop when the
requests are used up. Except in **payment** and **messaging** no liveness is
claimed: an admin may never decide and a buyer may never come back.

## 5. Disagreements between the code and what it says

- `order_race`: the comment above `stockIsOut` promises that a transition "only
  moves stock by the ACTUAL delta" and that cancel and unpay "both end up
  restocking exactly once". The delta is computed from a snapshot read outside
  the transaction. A cancellation and an "unpaid" that both read the paid order
  both give the goods back; two "paid" calls both take them.
- `boot_recount`: the recount "guarantees the number shown is always correct".
  It counts the items of orders whose payment is PAID, cancelled ones included,
  whereas `adjustInventory` counts the units that are out: an order that is
  cancelled and then marked paid counts after a restart and not before. A bot
  approval between the aggregate query and the update is overwritten as well.
- `checkout_lost`: the transaction "only clears the items that were actually
  ordered". With the whole cart, or a ticked row that was changed, the deletion
  takes rows and quantities that were added after the read and are not in the
  order.
- `webhook`: "marking PAID is also the moment stock actually leaves inventory".
  The callbacks of Click and Payme write both status columns and never the
  stock; a later cancellation then adds goods that never left.
- `defaults`: an update "only changes the fields that were sent". The update
  inputs are partial copies of the create inputs and inherit their default
  values, so a missing `linkType` or `scope` arrives as `NONE` or `ALL` and the
  links of the row are dropped.

Met while modelling, without a run of its own; each is in the model, and the
property that is checked says what is left of the promise:

- *Five wrong codes.* The comment above `MAX_FAILED_LOGINS`
  (`ombor/ombor.service.ts:52-55`) says that a Telegram user "cannot enter more
  than 5 wrong codes in 15 minutes" and that this cannot be got around. A right
  code deletes the count (line 216), so four wrong codes, a right one and four
  wrong ones are eight in the window; a restart empties the map; and the count is
  read before the query and written after it, so requests in flight together all
  pass. `LoginsBounded` counts the wrong codes themselves and has all three:
  the limit, plus the other slots for who does not wait, once more for each
  clearing.
- *A single-use link.* `auth/auth.service.ts:272-273` promises it. The code is
  read before the new password is hashed and cleared after it: two requests with
  one link that overlap both succeed, and the second password stays. `UsedOnce`
  allows it to the codes in `shared` alone.
- *"At most".* The schema (`schema.prisma:218-219`) calls `maxDiscount` the most a
  code takes off ("10%, but at most 50 000"). `evaluate` rounds after it has
  applied the cap (`promo-code/promo-code.service.ts:319-322`): of a cap of 4.5
  so'm, 5 are taken off. `DiscountBounded` says by how much that can be.
- *A code for a store that has none.* `ensureAccessCode` is described as creating
  one where there is none (`store/store.service.ts:31-33`). It decides that on a
  row read earlier: two pages of statistics opened on a new store both draw, the
  second code replaces the first, and the admin of the first page is holding one
  that does not work. `CodeShownIsStored` says that at least somebody has, or is
  about to get, the right one.
- *Nothing of a removed store is on sale* (`store/store.service.ts:89-96`): a
  product that is put on sale in the store between the two statements stays on
  sale without a store. These are the `strayed` of `OrphansHidden`.
- *Identical cart lines.* `cart.service.ts` and `dto/order.input.ts` lean on these
  being impossible; two NULLs do not collide in the index (`Insertable`).
- *An invalid code never rejects an order*, says a comment in `createFromCart`; an
  order whose promo code disappears between `evaluate` and `recordUsage` is
  rejected (`Fail` in `CommitOrder`).

No comment is contradicted by the following, which the models show all the same:
`markFailed` turns a paid order into a failed one whenever its notice comes late
(`PaidStaysPaid`); a `rejectPayment` that read the order before it was paid does
the same; a checkout submitted twice at once orders twice; and after a clearing
of the order data `soldCount` no longer matches orders that were paid between the
two statements of `clearOrdersData`.

## 6. What is proved

TLAPS checks the proofs for all values of the constants under the assumptions
the modules name (`...Assumption`), which say what kind of thing each constant
is; TLC evaluates them in the runs. That an order has finitely many lines, a
product finitely many variants, a basket finitely many items and the shop
finitely many products is among them; nothing is assumed about what a sum or an
average comes to. `Exclusive` is a hypothesis of the theorems that need it, not
an assumption.

**DataFacts** has the induction the other proofs need. The library's induction
theorems take an operator as a parameter, which the provers cannot instantiate;
these take a set (`Good`) instead and rest on the existence of a least
counterexample: `NumberInduction` on numbers, `SubsetInduction` on the subsets
of a finite set. From the first follows that a loop computes what its recursive
function says (`LoopExists`), from the second what a sum is: a number, the same
in whatever order the rows are taken, 0 over nothing (`SumNat`, `SumZero`), and
moved by a row that comes, goes or changes by just that row's figure (`SumAdd`,
`SumRemove`, `SumChange`).

**OrderStockProofs**

| theorem | statement |
|---|---|
| `TypeCorrect` | `Spec => []TypeOK` |
| `NeverNegative` | `Spec => []StockNeverNegative`, with racing admins too |
| `CallsStaySound` | `Spec => []CallsSound` |
| `StockFollows` | `Exclusive => (Spec => StockFollowsOut)` |
| `PaidStays` | `Exclusive => (Spec => PaidNeverRejected)` |
| `SoldMatches` | `Exclusive => (Spec => []SoldMatchesOut)` |
| `LedgerKept` | `Exclusive => (Spec => KeepsLedger)`: the refinement |

`StockNeverNegative` is inductive with `TypeOK`, because every
decrement sits behind its check in the same step; it needs neither `Exclusive`
nor anything about the calls. The other three rest on the question whether the
snapshot a handler decides on is still the row when it commits. That is
`CallsSound`: with `Exclusive` at most one call on an order is in flight
(`OneCallPerOrder`), hence nobody else writes its row (`SnapshotFresh`); a
creation works on a new id (`CreateOfNew`); and a rejection began on a pending
payment (`RejectOfPending`). Given it, a step of `MoveAndSet` moves the goods
if and only if the order changes between in and out (`CommitMoves` and its
neighbours), which gives the action properties and the step of the refinement.

`SoldMatchesOut` says that the counter in the product agrees with the rows of
the orders, and only for as long as nobody cleared the order data or restarted
the server. The invariant is `Counted`: before the first clearing and the first
restart, no clearing is between its statements, no product is still to be
recounted and no tally of a recount is held. A commit either leaves the orders
that are out as they are, or adds one or takes one away, and moves the counter
by the units of that order (`CommitCounts`, `UnitsMove`); no other step touches
either (`OtherCounts`).

**PaymentProofs**: `PaymentTyped` (`PaymentTypeOK`), `PaidStaysSo`
(`PaidStaysPaid`), without any assumption about the order of notices. A paid
order could be lost to three writers: an order service call, a failure notice
and the order's creation. The invariant `Sound` accounts for them: creations are
of new ids (`CreateOfNew`, the only part of `CallsSound` that needs no
`Exclusive`); an order that was confirmed while no failure was under way, and
for which none was reported since, still has none under way (`NoLateFailure`),
so whoever writes FAILED writes it to an order that is `crossed`; and what was
confirmed has existed (`ConfirmedKnown`). Calls of admins are excluded by
`handled`, not by a hypothesis.

**CheckoutProofs**: `OneDiscount` (`OneDiscountPerPhone`), `UsagesExact`
(`UsageMatchesOrders`). `OneDiscountPerPhone` alone is not inductive: that a
second redemption fails is known only if the first left its row. But an admin
can delete a code, with all its usages, and orders with its discount stay. The
invariant `Account` says that ids of orders and codes are never given out again
(`OrderIds`, `Tables`), that every discount of a code that still exists has
exactly its usage row and vice versa (`Accounted`), and that the counter is the
cardinality of the usages (`Counted`); a deleted code can never be redeemed
again because its id is spent. No hypothesis about overlapping requests is
needed: the unique index inside the transaction does it.

For the cart the same module has `TypeCorrect` (`TypeOK` of `Checkout`),
`BoughtOnce` (`OrderedOnce`), `LinesMerged` (`OneLinePerItem`) and
`ClearsOrdered` (`OnlyOrderedCleared`). A cart row is known in the cart, in a
checkout that has read it and in the orders that contain it; the three must
agree on its owner (`Owned`), and a row that was ordered has left the cart
(`OrderedGone`). For a buyer with one request at a time (`OneAtATime`) the where
clause still selects what was read (`Selects`), what is about to be ordered was
not ordered (`NotYetOrdered`) and a line that was not found is not there
(`StillNew`). That a checkout takes from the cart exactly what it orders needs
the converse of `Selects` as well: every row the where clause selects by the
time of the commit was read, with the quantity it has (`AsRead`). This is an
invariant only because every row in the cart of the next state was there before
or is written by a request of its own buyer (`RowsTraced`), which in turn needs
that a request about to change a quantity holds a row of its own buyer
(`KnowsOwnRow`).

**OmborProofs**: `TypeCorrect` (`TypeOK`), `LocksHold` (`LocksExact`),
`DeductsOnce` (`DeductedOnce`), `StockBalances` (`Balanced`), `LinksLive`
(`NoDanglingLink`), `CutOffStays` (`RevokedStaysOut`), `LoginsLimited`
(`LoginsBounded`), `ShownCodeWorks` (`CodeShownIsStored`), `OrphansStayHidden`
(`OrphansHidden`). Each has its own strengthening: a key is locked exactly while
a request works on it and such a key is not yet remembered (`Idempotent`); a
barred seller has no login on its way and no request under way but those that
had passed (`KeptOut`); the failures counted and the logins on their way
together stay within the limit plus the other slots (`Limited`: each login was
let in below the limit, when at most the other slots were on their way), and the
wrong codes within that once per clearing, with what has been counted since the
last one (`Counted`); a code that is stored was answered, is on its way to an
answer or was lost in a crash, and what is about to be answered is a code
(`Panel`, which also has that a store whose removal has reached its second
statement has no product on sale but the strayed). `Balanced` is a sum over keys
the Mini App makes up, of which there may be infinitely many; the invariant
(`Accounted`) has in addition that only finitely many were ever deducted.

**AccountProofs**: `TypeCorrect` (`TypeOK`), `NumbersUnique` (`UniquePhones`),
`RegistrationProven` (`AccountsProven`), `VerifiedWithCurrent`
(`VerifiedCurrent`), `TriesLimited` (`TriesBounded`), `CodesUsedOnce`
(`UsedOnce`), `AdminsRemain` (`AdminRemains`). The code of a request that has
read it may have been replaced since, so the invariants are about requests too:
whoever is about to verify or to register has entered a code (`Earned`); wrong
entries counted and on their way stay within the limit (`Counted`); codes in two
accounts differ, a code in an account has never been used, one about to be used
is in no other account, and the uses of a code and the requests that still go by
it are together at most one, unless it is shared (`Fresh`); whoever is being
moderated leaves another active admin (`Survivor`).

**MessagingProofs**: `MessagesTyped` (`TypeOK` of `Messaging`, with the single
login and the single report), `TruthTold` (`TellsTruth`). The first needs that a
fault that was reported is still remembered (`Remembered`) and that a handler
has an order (`Working`), the second that nobody else decides on an order
between the decision and the telling (`OneHand`). `StopsForGood` is the half of
`BotObeys` that is not liveness: once stopped, the launcher has no timer and
makes no further attempt.

**CatalogueProofs**: `LinksStay` (`LinksTypeOK`), `TypeCorrect` (`TypeOK`),
`RatingStays` (`RatingInSync`), `PagesShowAll` (`PagesPartition`),
`DiscountsBounded` (`DiscountBounded`).
An update writes what it prepared from an earlier state, so the invariant
`Linked` is about the rows (`Rows`), the prepared updates (`Prepared`) and the
shelf they point to (`Shelved`); the row is sound after the write because a
reference to what was removed meanwhile is refused. The rating of a product
whose reviews do not overlap (`Rated`, `Followed`) is wrong only between the
write of a review and the write of the rating, and what a request carries then
is the right one.

The pages of the shop are each cut from a list that is shuffled anew. Whatever
the hour's seed draws, an exchange of two places keeps a list that has every
product once (`SwapOrders`), hence so does the loop (`ShuffledOrders`, by
`LoopExists` and `NumberInduction`), and a list without repetition as long as
the set is large leaves nothing out (`OrderingIsOnto`). The invariant
`Undisturbed` is that a visitor has seen the beginning of this list up to his
page: the next page goes on where the others end (`PageAppends`), there are just
enough pages (`PagesEnough`), and the list stays the same until something
disturbs the visitor (`SameList`). `TypeCorrect` adds to the types what a review
under way may hold (`ReviewsTyped`) and that pages are sequences (`VisitTyped`).
`DiscountsBounded` is arithmetic: prices by volume and percentages are rounded
quotients, which are natural numbers (`RoundedNat`, `UnitPriceNat`), an amount
or a percentage up to a hundred stays below a limit before it is rounded,
rounding passes a limit by half a so'm at the most and a whole one not at all
(`RoundedKeeps`, `WholeLimit`), and the limits hold for every basket, also of
products that are not in the shop.

**Left to TLC.** Every invariant and every safety property of the passing runs
is a theorem. Liveness under fairness (`PaidArrives`, `SendsEnd`, and that a bot
comes online, in `BotObeys`) is beyond the prover and only model-checked.

## 7. Hazards and what covers them

`PROJECT.json` lists every hazard with its line and the properties that would
catch it going wrong. In short:

- *stale snapshots* of the order handlers, the checkout, the cart, the banner
  form, the guard of the Mini App: `CallsSound`, `OnlyOrderedCleared`,
  `NothingElseCleared`, `OneLinePerItem`, `UnsentKept`, `RevokedStaysOut`;
- *limits checked before they are counted* (wrong access codes, wrong
  registration codes, codes used twice): `LoginsBounded`, `TriesBounded`,
  `UsedOnce`, each with the number that gets through;
- *two statements that belong together* (removing a store, regenerating a code,
  marking paid, copying a rating): `OrphansHidden`, `CodeShownIsStored`,
  `PaidArrives`, `RatingInSync`;
- *repeats* (a tap, a notice, a checkout, a token refused to several senders):
  `DeductedOnce`, `PaidStaysPaid`, `OrderedOnce`, `SendsEnd`;
- *restarts*: `SoldCorrectAfterBoot`, `DeductedOnce`, `PaidArrives`;
- *the last of something*: `StockNeverNegative`, `Balanced`, `AdminRemains`;
- *arithmetic*: `DiscountBounded`, `PagesPartition`.

Where a hazard is met only in part, its note says which part. Five have no
property. Three of them happen, in the models as in the code, and nothing in the
repository promises otherwise: a clearing of the order data that is overtaken by
an approval, a number verified by the code before the current one, and a buyer
told what another handler has just undone. The product form overwrites the stock
with the number the admin saw when it was opened; that earlier view is in the
browser, outside the code, and the model lets an edit write any number. And what
`normalizePhone` makes of a string is a constant of the model.

## 8. Plan

What would come next, in this order:

1. The hypothesis `Exclusive` of `OrderStockProofs` order by order: that the
   goods of an order nobody races for are moved rightly while others race.
2. The deduction of the Mini App composed with `OrderStock` on one stock, in
   place of the two views of it in `Inventory` and `Ombor`.
3. An abstract specification of the checkout, redemption and purchase in one
   step, and `Checkout` shown to implement it.

## 9. What is not modelled

- **presence**: one map entry per heartbeat and a count of the recent ones;
  nothing decides on it.
- **stats, upload, guards, filters, interceptors, GraphQL models**: queries, file
  storage and wiring without state of their own. That the server listens after
  the boot hooks is the guard `Listening`; the guard of the Mini App and the
  check of a token are in `Ombor` and `Account`.
- **product**, in part: the view counter, search filters and the list of colours.
- **store**, in part: `update` (name and commission in one statement) and the
  figures of the statistics.
- **payment**, in part: amounts, signatures and the column `paymentMethod`. A
  notice is one the provider really sent.
- **auth and user**, in part: profile fields other than the number, the e-mail
  address as an identifier, `lastSeenAt`.
- **banner, catalogue content**, in part: pictures, titles and positions; brands,
  genders and the settings are single statements on one row each, with nothing
  to interleave and nothing that depends on them.
- **Addresses and texts** everywhere.
- **Deleting a product** is in `Shelf`; in `Checkout` and `OrderStock` it would
  only make later calls be refused, which they may be anyway, and a product with
  orders cannot be deleted.
- **clearAllData** in `OrderStock`: it deletes the products themselves, after
  which no stock is left to speak of. In `Checkout` it is `ClearData`.
- **The outside world**: Telegram, Eskiz, Click and Payme are only what the code
  sees of them.
