# A verification project for coupang_eats_backend_v2

TLA+ models of the NestJS backend of a food-delivery shop, TLC runs on small
instances of them, and TLAPS proofs for instances of every size. The code is
`src/` of the repository; services, guards and entities are quoted by their path
below it. Every definition that stands for code has an entry in the `map` of
`PROJECT.json` with the lines it stands for.

## 1. The system

One or more Node.js processes (ECS tasks) serve HTTP and socket.io requests over
one MySQL database (TypeORM, `typeorm-transactional`, InnoDB at its default
REPEATABLE READ) and one Redis. Each process runs JavaScript on one thread, so code
between two `await`s is atomic inside a process and everything after an `await` may
meet a state that other requests have changed.

| Component | State | Operations | Interacts with |
| --- | --- | --- | --- |
| Orders (`modules/order/order.service.ts`) | rows of `order`, `order_item` | createOrder, getOrders, getOrderById, editOrderStatus | reads restaurants and dishes; emits `newPendingOrder`, `orderUpdate`, `newCookedOrder` |
| Nightly clean-up (`order-cron.service.ts`) | none of its own | handleCron at 04:00 | deletes `order` rows; collides with edits and payments |
| Payments (`payment.service.ts`) | rows of `payment` | processPayment | refers to `order` (foreign key, unique) |
| Reviews (`review.service.ts`) | rows of `reviews`, soft-deleted | createReview, updateReview, deleteReview | reads the status of `order`; unique per order |
| Events gateway (`events/events.gateway.ts`) | socket rooms | joinUserRoom, joinOrderRoom, updateDriverLocation | fed by Orders |
| Sign-up and sign-in (`modules/auth`) | rows of `user`, `email-verify/…` keys in Redis | signUp, verifyEmail, signIn, signOut, refreshTokens | Redis, SES, tokens |
| Users (`user.service.ts`) | rows of `user`, `user/…` keys in Redis | getUser (cached), updateUser | the cache wrapper |
| Cache (`core/cache`) | Redis keys | get, set (SET, then EXPIRE), del; `@Cache` wraps a method | Users, tokens, sign-up |
| Tokens and guards (`core/jwt`, `core/guard`) | `refresh-token/…`, `token-blacklist/…` keys | generateTokenPair, verifyRefreshToken, refreshTokens, revokeAllUserTokens; the guards | every route |
| Restaurants, dishes, categories | their rows, soft-deleted | create, update, delete, list | Orders reads them |
| Pagination, generic repository | none | paginate, find…OrThrow | every service |
| Request pipeline (middlewares, guards, pipes, interceptor, error filter) | the request under way | lets a request pass, or answers it | every route; Redis, MySQL |
| Uploads (`upload.controller.ts`, `aws-s3.service.ts`) | objects in the S3 bucket | uploadImage, uploadMultipleImages | S3 |
| Mail, hashing, logging, configuration | none that lasts | I/O wrappers | — |

What is hard here, and for which component:

- *Interleaving of requests at every `await`.* Orders: two drivers, a driver and the
  owner, an edit and the clean-up meet on one row. Payments and reviews: check, then
  insert. Users: load, change, save.
- *What TypeORM's `save()` writes.* It reads the row again and writes the columns in
  which the given entity differs. Inside `@Transactional` the second read is of the
  same snapshot, so only the changed columns are written, and concurrent
  transactions merge column by column. Outside a transaction it is of the latest row,
  so every stale column of the entity overwrites a newer one (`deletedAt` included).
  A relation that was loaded and is null is always sent, as NULL: an edit that began
  before a pick-up and is saved after it takes the driver off the order.
- *Bodies without a whitelist.* The `ValidationPipe` of `setNestApp.ts` keeps the fields
  a DTO does not declare, and the bodies of sign-ups, restaurants, dishes and categories
  go into their entities whole. One that carries an id makes `save()` update the row with
  that id; one may carry `verified`, `deletedAt`, an owner or a restaurant.
- *Events against commits.* `newPendingOrder` is sent by a hook after the commit,
  `orderUpdate` before it.
- *Crashes.* Between commit and hook; between SET and EXPIRE; between the user's row
  and the verification mail.
- *Answers against events.* A client joins a room and asks the REST API for what the
  room will not repeat; the answer was read before, or is sent after, an event.
- *Several lookups for one decision.* A token is looked up in Redis, under a key that is
  made of the header as it is spelled, checked for its
  expiry and its user read from MySQL one after the other, on a way that the decorators
  of thirty routes lay down.
- *Several files, one answer.* The puts of a batch go on after one has failed.
- *A list that moves under its reader.* A page is a number of rows to skip, and its rows
  and their number come from two queries.
- *Locks.* Edits wait for the row locks of others and of the DELETE's scan.
- *One statement, many rows.* The clean-up deletes all or nothing.

What makes a component correct, in a line each (the properties of section 4 say it
precisely):

- Orders: a picked-up order is with exactly one driver, or with none after an edit that
  began before the pick-up; no status is skipped in silence; nothing is announced that was not placed; an accepted edit ends.
- Clean-up: only stale, unpaid, Pending orders go, and they do go.
- Payments, reviews: one per order, whatever requests race; neither loses its order.
- Sign-up, users, cache: a verified account stays so, unless a sign-up names its id; a
  stale entry goes away.
- Tokens: a token that was signed out, sent as `Bearer <token>`, or a refresh token that
  was exchanged or handed out before a sign-out, is refused for good.
- Request pipeline: nobody gets in late or acts for another user; every request ends in
  one answer, and a 401 to a good token has a cause.
- Uploads: a URL a client was told is that of a stored object; others are left-overs of
  lost or half-failed requests.
- Events gateway: an owner misses no order; a page that nothing has put in doubt is up to
  date.
- Menu: an order is charged the prices of one moment; updates do not undo each other;
  owners and dishes stay where they are unless a body names them; a slug is one category.
- Pagination: a row is missed only behind one that left, shown twice only behind one that
  came, and a promised page is there.

## 2. Modules

| Module | Models | Uses |
| --- | --- | --- |
| `OrderRecord` | what everybody may rely on about the committed row of an order (the abstract specification) | — |
| `OrderLifecycle` | OrderService and OrderCronService: transactions, locks, hooks, events | instantiates `OrderRecord` |
| `ShopRecord` | what an order, its payment and its review promise together (abstract) | extends `OrderRecord` |
| `PaymentReview` | PaymentService and ReviewService over the orders, composed with the edits and the clean-up | extends `OrderLifecycle`, instantiates `ShopRecord` |
| `AccountRecord` | what the shop may rely on about an account (abstract) | — |
| `Accounts` | sign-up, verification, sign-in, profile, and the cache entries of `@Cache` methods | instantiates `AccountRecord` |
| `SessionRecord` | what a client may rely on about its tokens (abstract) | — |
| `Sessions` | TokenService and the guards: token pairs, rotation, sign-out, under a clock | instantiates `SessionRecord` |
| `Gateway` | EventsGateway: the rooms, what is emitted to them and the answers that race with it | extends `OrderLifecycle` |
| `Routes` | the routes of the program with the guards and roles their decorators declare | — |
| `Requests` | a request on its way through middlewares, guards, pipes, a handler that may end in any way, interceptor and error filter (the abstract specification of a handler) | extends `Routes` |
| `Uploads` | UploadController and AwsS3Service as handlers inside that pipeline | extends `Requests`, instantiates its specification |
| `Paging` | paginate, PaginationRequest, PaginationResponse, and a client who turns pages while the list changes | — |
| `MenuRecord` | what owners and customers may rely on about the menu and the charges (abstract) | — |
| `Catalogue` | categories, restaurants, dishes, and what createOrder reads of them | instantiates `MenuRecord` |
| `…_proofs` | the theorems about the module of that name (`PaymentReview_proofs` and `Gateway_proofs` extend `OrderLifecycle_proofs`; `Uploads_proofs` also holds those about `Requests`) | `TLAPS` |
| `MC…` | instances for TLC: model values, who owns what, symmetry | — |

Definitions with a suffix and a comment that begins with *Mutant* are plausible bugs of
the definition they are named after; nothing uses them but the mutants of
`PROJECT.json`, each of which a property must find.

### The abstract specifications

Five modules end in `Record`. Each says what is left of a component when nobody sees its
queries, locks, snapshots and Redis commands: a few steps on the committed state, each
of them what one whole request promises. Each also says where the promise ends.

- `OrderRecord` is the life of an order's row: Pending is never written again, Delivered
  comes after a pick-up, only an untouched row is removed, and a driver is taken off only
  by an edit that began when the order had none (`undriven`).
- `ShopRecord` adds its payment and its review: paid once and then there for good, reviewed
  once and only after it was Delivered, the review taken down or put up again but never
  gone.
- In `AccountRecord` an account is made once and never removed. Unless a sign-up has named
  its id since, it keeps its address, what was made unverified is verified only after a
  mail has reached that address, and its name and password change only after a sign-in.
- In `SessionRecord` a refresh token is signed, comes, is accepted and is dead, and never
  comes back from the dead unless it was signed twice in one second; an access token that
  is refused as `Bearer <token>` stays so refused.
- In `MenuRecord` an order is charged by one menu of now or of before, a restaurant keeps
  its owner and a dish its restaurant, and no edit takes either off the menu, unless a
  request under way carries columns that no DTO declares (`rebuilt`, `recast`); a dish
  taken off is back only through a revision that began before.
- `Requests` plays this part for `Uploads`.

The refinement mappings hide what a transaction has not committed: `OrderLifecycle` and
`PaymentReview` count an order as placed when its INSERT is committed, and compute
`taken` and `undriven` from what was seen and from the edits in flight; `Accounts` maps
its table as it is; `Sessions` computes the phase of a token from the key, its expiry,
the clock and the requests that carry it (`Phase`); `Catalogue` maps the committed rows,
and takes `rebuilt`, `revising` and `recast` from the requests that have loaded a row and
not yet written it. A step of the detailed module is a step of the abstract one or leaves
it alone.

### OrderLifecycle

`row`, `status` and `driver` are the committed row of each order (`"inserted"` is a
row whose INSERT is not committed and that nobody else sees). createOrder is split
at its commit: `createOrder`, `commitOrder` (which queues the hook that
`runOnTransactionCommit` registered), `abortOrder`, then `sendNotice`, or
`loseNotice` if the process ends first. That order of commit and hook is why
`newPendingOrder` can be lost but never be wrong.

editOrderStatus is split at its awaits: `openEdit` is the read and all the checks
(they are synchronous after it), `saveEdit` the UPDATE and the events that follow
it without another await, `commitEdit` the commit by the decorator, `abortEdit` a
rollback at any point. The record of an edit keeps what its transaction has seen, and
`WritesStatus`/`WritesDriver` are the columns that its UPDATE sets: those in which the
entity (`target`, `EntityDriver`) differs from it, and the driver whenever it is null,
since the read has loaded that relation. So every edit of an order without a driver has a
column to write, and takes off the driver whom another transaction has set meanwhile;
`stripped` is a history of the orders this has happened to, until the next pick-up. A
`saveEdit` that has a column to write waits for the row's lock; one whose row was deleted
since matches nothing, and says so to nobody: the event goes out all the same.

handleCron is one DELETE: `startCron` fixes the cutoff, `scanRow` locks row after row
(there is no index on `status` or `created_at`, and an InnoDB scan locks what it
passes), `deleteDue` ends the statement, `abortCron` undoes it. The set `referenced` of
`deleteDue` stands for the orders that have a payment, which makes the statement
fail; in `PaymentReview` it is `Paid`.

`told[o]` is what `orderUpdate` has carried to the order's room and `seen[o]` a
history of the statuses the committed row has had. No action's guard reads either of
them, or `stripped`.
`Listed` and `MayOpen` are getOrders and getOrderById as predicates on the state.

### PaymentReview

`payments[o]` and `reviews[o]` count the rows that refer to an order, `removed` says
whose review is soft-deleted. A request is a slot of `call` that moves from query to
query: load, check, save. The INSERTs are refused by the unique index or the foreign
key (`AcceptsPayment`, `AcceptsReview`), and wait for a lock on the order's row, which
the foreign key check reads. `dropCall` is a request that ends between two queries.
`saveRevision` is what `save()` does outside a transaction: it writes `deletedAt = null`
over a deletion that came in between. Its two queries are one step here, which loses
nothing: `deletedAt` is the only column, and a deletion between the two queries has
the result of one after both.

### Accounts

`user[i]` is the row with id `i`: its address, name, password, `verified`, and whether it
is soft-deleted. `links` are the `email-verify/…` keys, `cache[i]` the `user/…` key with or
without an expiry, `members` the accounts that hold an access token. Every request is a
slot of `call` with what it carries from query to query.

A sign-up hands its body to `save()` whole, so a body may name an id, `verified` and
`deletedAt` (`Unset` stands for a column it leaves out). createUserOrThrow is
`openSignUp`, the check and what `save()` reads under the id the body names, and
`createUser`, which is `insertUser` or, if that read found a row, `overwriteUser`; the
primary key or the unique index on the address may refuse either (`Refused`). `named` is
a history of the rows that were written over in this way, and `lost` of the addresses
they have had.

save() of a loaded entity is `compareRow`, which reads the row again, and `writeRow`,
the UPDATE of the columns that differed: the stale ones too. This holds of a verifyEmail
as it does of an updateUser: one that loaded the account before another verified it may
write back an older name and password once the owner has signed in and changed them
(`Change` of `AccountRecord` allows it from the first sign-in on).
A cached read is miss, read, SET (`fillEntry`, which takes away an expiry) and EXPIRE
(`expireSoon`); an update is load, save and DEL (`dropEntry`). `dropCall` cuts a
request off anywhere, and `cut` remembers whose EXPIRE was lost.

### Sessions

One user, since no key is shared by two. A token is the second of its issue: the JWTs
carry no random part, so two of one second are the same string. `stored` is
`refresh-token/…`, `black` the blacklist, both with the expiry of the key (`Never`
between SET and EXPIRE, `Gone` when it is not there). Sign-in and refresh sign, SET,
then EXPIRE and answer; sign-out is DEL, SET, EXPIRE and answer; `tick` is the clock,
which may go on between any two of them. `spent`, `out` and `ended` are histories: the
refresh tokens that were exchanged, the access tokens signed out, the refresh tokens
handed out before a sign-out deleted the key. `ValidAccess` and `ValidRefresh` are what the
guards and verifyRefreshToken let pass. What the guards let pass depends on how the
header spells the scheme (`Schemes`): JwtBlacklistGuard takes a literal `Bearer ` off the
header to make its key, AccessTokenGuard finds the token behind any case or spacing, and
signOut writes the key of the bare token. So only `Bearer <token>` is looked up where it
was put, and a property of signed-out tokens speaks of that spelling.

### Catalogue

`category[k]`, `restaurant[r]` and `dish[d]` are rows by id, soft-deleted or not: a slug;
an owner, a category and a delivery fee; a restaurant, a price and the extra of one
option. A body is a record with `Unset` for what it leaves out. The columns a DTO does not
declare are there too: the id, `row` (which is `deletedAt`), `owner` of a restaurant, `of`
(the restaurant) of a dish. `save()` is what all the writes have in common: it reads the
row with the id of the entity (`Base`), and inserts under that id or a new one
(`Targets`, `Fits`) or updates the columns in which the entity differs from that row
(`Column`).

createRestaurant and updateRestaurant are `openRestaurant` and `editRestaurant` (the
snapshot, the checks and the read of `save()`) and `saveRestaurant` (the write and the
commit). createDish and updateDish are not transactional: `openDish` or `editDish`,
`compareDish`, `writeDish` as in `Accounts`, so a stale price or a deletion is written
over. createCategory is `checkSlug`, `compareCategory`, `saveCategory`, before the unique
index on the slug. The tables start as one of `Databases`, since what a body may do to
another owner's rows needs rows of two owners.
createOrder is `openOrder` (its first read fixes the snapshot), `priceOrder` (the
dishes and `processOrderItem`) and `saveOrder`; what an order is charged is kept as
the fee and the price of each line, which tells more than their sum. `OrderLifecycle`
takes the same order on from its INSERT. `menus` is a history of the menus there have
been.

### Gateway

`ownerRoom` and `orderRoom` are the sockets in the rooms `Owner:<id>` and `order:<id>`;
nobody checks who joins, and only the end of a connection leaves. `newPendingOrder` is
`sendNotice` of the orders with what it reaches, `orderUpdate` is `saveEdit` with what it
reaches, `rollBack` is `abortEdit`. `getOrders` shows an owner the committed orders (a
list only grows, so reading and answering are one step); `getOrderById` reads the status
and `sendAnswer` shows it later, over whatever an event has shown meanwhile. `firm` is a
history: the sockets that asked for the page from inside the room, and that nothing has
put in doubt since. What puts a page in doubt is what `FirmPageIsUpToDate` cannot promise:
an answer overtaken by an event, a page read between an event and its commit, an event
that was rolled back or that told the status its edit had read. `updateDriverLocation`
relays a position to a room and changes nothing.

### Routes, Requests, Uploads

`Routes` writes down the decorators of the controllers, route by route: `@Public`,
`@UseGuards`, `@Roles`, after the two guards `CoreModule` registers for all. A request
(`req[r]`, with the token and the spelling of the scheme before it) passes them one after
the other, each lookup a step of its own that may fail:
an error of Redis becomes 500, one of MySQL becomes 401 (`handleRequest` in
`AccessTokenGuard` makes that of every error). `isTokenBlacklisted` is the lookup under
the header without a literal `Bearer `, as in `Sessions`. The handler takes any time and returns or
throws what its route allows; `Throw` is ErrorFilter. `expire`, the `signOut` of another
request and `crash` come at any time.

`Uploads` adds what the two upload handlers do: every put of a request is under way
before the first is awaited (`startPuts`), the answer is the URLs of all (`returnUrls`)
or the first failure (`throwFailure`), and puts that are under way end later all the
same (`endPut`), also after a crash. It implements `Requests`: its specification is that
of `Requests` once the bucket is forgotten (`RunsAsRequests`).

### Paging

`categoryOf` is the table as far as a list shows it. A page is two queries: `findRows`
(LIMIT and OFFSET) and `countRows`, which TypeORM leaves out if the page is short. The
client goes on (`readOn`) as long as `hasNext` says so. Rows come in the order of their
ids, which are uuid v4: a new row appears anywhere. Rows enter and leave the filtered list
by `createRestaurant` and by `updateRestaurant`, which may change the category (or,
with a body that carries `deletedAt`, take a restaurant off the list). `base`, `shown`, `again`, `came` and `left` are histories of one
reading.

## 3. Assumptions on the environment

- InnoDB: reads of a transaction come from one snapshot, taken at the first; an UPDATE
  keeps its row lock until its transaction ends; a statement is atomic. Lock waits may
  time out.
- TypeORM 0.3: `save()` as described above, its second read including soft-deleted
  rows, which `find` does not see, and taking a loaded relation that is null for
  different from whatever it reads; `delete(criteria)` is one statement.
- typeorm-transactional: the outer of the two decorators on createOrder opens the
  transaction, the inner one joins it; commit hooks run after the commit, in the
  process that committed.
- Redis: a command is atomic; SET removes an expiry; EXPIRE of a missing key does
  nothing. One clock for Redis and all processes; both tokens of a pair are signed in
  one second.
- InnoDB gives rows without an ORDER BY in the order of the index it reads, the clustered
  one or that of `category_id`; both follow the id. TypeORM and MySQL do not promise it.
- socket.io: a socket that is connected gets what is emitted to its rooms, in order;
  rooms live in the memory of one process (there is no adapter), so `Gateway` is about
  the process that serves both the socket and the requests. With several ECS tasks an
  event reaches the sockets of one task only.
- S3: a put is atomic, and ends after its process has ended if S3 has received it; keys
  (uuid v4) are never the same.
- Users are not deleted but by a sign-up that names their id, which `Requests` leaves out:
  there the user of a signed token is found.
- The bodies of sign-ups, categories, restaurants and dishes carry any columns of the one
  row they are saved as. Other bodies carry the fields their DTOs declare, and none nests
  lists of related rows (section 7). Roles do not change; an order's customer and
  restaurant are fixed when it is created (`RolesAssumption`, `PartiesAssumption`).

## 4. Runs

| Run | Instance | Shows |
| --- | --- | --- |
| `order_race` | 1 order, 2 drivers, 2 owners, 2 edits in flight, the clean-up | an order on the road is listed to exactly one driver, or to nobody once an edit that began before the pick-up was saved over it; no committed status was silent; Delivered was PickedUp; no ghost `newPendingOrder`; the committed rows implement `OrderRecord` |
| `pay_and_review` | 1 order, 1 driver, 2 edits, 2 requests, of these and the clean-up three at a time | one payment and one review per order; a paid order is never deleted; a reviewed order was Delivered; the three tables implement `ShopRecord` |
| `shop_progress` | 1 order, 2 edits, 1 payment or review, the clean-up | somebody can always go on: the waits for row locks close no circle; every accepted edit ends; a placed order is announced or its process has ended; a stale Pending order goes unless it is paid |
| `accounts` | 2 users, 2 addresses, 2 names, 3 bodies of sign-ups (one names an id, two `verified`), 2 requests, getUser of one of the users | mails only for committed accounts; verified for good; both unless a sign-up names the id; the accounts implement `AccountRecord`; a stale cache entry goes away unless its EXPIRE was lost |
| `sessions` | 2 requests, lives of 2 s, 3 instants | an access token that was signed out, sent as `Bearer <token>`, and a refresh token exchanged or handed out before a sign-out and not signed twice, are refused for good; the tokens implement `SessionRecord` |
| `catalogue` | 2 restaurants, 2 dishes, 2 categories, 2 owners of whom one sends requests, 2 amounts, 12 bodies (6 with columns no DTO declares), 2 requests, an empty shop or one with rows of both owners, 3 menus | an order is charged by one menu; a column of a restaurant changes only to what was sent; one category per slug; menu and orders implement `MenuRecord` |
| `requests` | 2 slots, 1 token of a client in two spellings of the header, 4 routes with every guard, 2 files | nobody is let in late or for another user; a 401 has a cause; told URLs are stored and strays have a cause; every request ends; uploads run as requests |
| `paging` | 4 restaurants, 2 categories, pages of 1 and 2, beginning at 1 or 2 | rows are missed only behind a row that left, shown twice only behind one that came; a promised page is not empty unless rows left; totals of a quiet list are true |
| `gateway` | 1 owner's socket, 1 order, 2 edits, the clean-up | an owner who joins and then lists misses no order; a firm page shows the committed status |
| `delivered_by_its_driver`, `unpaid_is_swept`, `deleted_review` | as above (`unpaid_is_swept`: 2 orders, no edits) | the findings of section 6 |

Bounds. The rows of different orders meet only in the one DELETE of the clean-up, so
one order is enough for the races of edits, payments and reviews; that a paid order
keeps an unpaid one takes two (`unpaid_is_swept`). Two requests in flight give every
pair of reads, saves and commits; the proofs carry the safety results to any number.
`pay_and_review` has two edits, since it takes two to take a driver off, but lets only
three of its two edits, its two requests and the clean-up be under way at once
(`ThreeAtATime`), and tells states apart by the tables alone (`Tables`), which is all its
properties speak of. Accounts meet in the unique index, and where a sign-up names the id
of one: so there are two users and two addresses, and two names tell a stale column from
a new one. getUser is asked for one of the users (`Asked`), since no entry depends on
another. Lives of two seconds, with the clock stopping at 2 (`MaxTime`), let
tokens of the first second expire while later ones live; `Matters` takes keys and tokens
that have expired as gone. A body can reach the row of another owner only if there are two
restaurants, two dishes and two owners; `MaxMenus` begins no edit of the menu after the
third, to which those under way may add, and the tables start filled as well as empty, so
that the three are spent on updates too; `FirstOrder` ends a run at its second order.
Two amounts tell old from new. Requests share only the token and
what keeps no order (keys, the bucket), so two slots show every race; the four routes
have the five kinds of guards, and `Routes` is proved for all. Four rows make two pages of
two, four of one, and a row before, in and behind each. Sockets do not see each other,
and orders neither, so there is one of each; two edits make an event overtake an answer.

Deadlock is not checked where the system really stops: order ids are used up, and an
account whose link has expired or whose mail was refused can neither sign up again nor
be verified. `sessions`, `catalogue`, `requests`, `paging` and `gateway` check it. Drivers, edits, requests are
symmetric; the runs with liveness use no symmetry.

Fairness. The event loop goes on with a request whose query has answered, so the
commit of a saved edit, the commit of an order and its hook, and every step of
`Accounts` that continues a request are weakly fair. A step that waits for a row lock
(`saveEdit`, `scanRow`, the INSERTs) is strongly fair: InnoDB grants a lock to its
waiters in order. The clean-up is weakly fair since it is scheduled daily; Redis
expires keys. A guard, a pipe or a handler goes on once its lookup has answered, a put of
S3 ends, and a response that was written finishes: these are weakly fair in `Uploads`. Aborts, crashes, new requests and new orders are never fair.
`SweptUnlessOnePaid` promises nothing if the DELETE is cut off for ever.

## 5. Proofs

TLAPS checks, for any sets of orders, users, addresses, tokens, dishes, sockets, rows and
request slots:

- `OrderLifecycle_proofs`: `TypeCorrect`, `RoadIsListedToOneDriver`, `StatusIsTold`,
  `DeliveredIsPickedUp`, `AnnouncedIsPlaced`, and `Refinement` (`OrderRecord` is
  implemented).
- `PaymentReview_proofs`: `ShopTypeCorrect`, `PaidOnce`, `ReviewedOnce`,
  `PaidOrderIsKept`, `ReviewedIsDelivered`; `ShopRefines` (`ShopRecord` is implemented);
  `ShopNeverDeadlocks`; `ShopImplementsOrderLifecycle`, by which every theorem of the
  first list holds of the whole shop, and `ShopRecordKeepsOrderRecord`, by which the
  abstract shop keeps the promises of the abstract order.
- `Accounts_proofs`: `AccountsTypeCorrect`, `MailedAccountsExist`, `VerifiedForGood`,
  `EntriesAreMinded`, and `AccountsRefine` (`AccountRecord`).
- `Sessions_proofs`: `SessionsTypeCorrect`, `SignOutIsFinal`, `ExchangedOnce`,
  `SignOutEndsSessions`, and `SessionsRefine` (`SessionRecord`).
- `Catalogue_proofs`: `CatalogueTypeCorrect`, `OneMenuCharges`, `EditsMerge`,
  `SlugNamesOne`, and `CatalogueRefines` (`MenuRecord`).
- `Uploads_proofs`: `UploadsRunAsRequests` (the refinement of `Requests`),
  `NobodyIsAdmittedLate`, `HandlersActForTheirUser` (for every route of `Routes`),
  `UnauthorizedIsCaused`, `UploadsTypeCorrect`, `ToldUrlsAreStored`, `StraysAreCaused`,
  and `RequestsNeverGoInCircles`.
- `Paging_proofs`: `PagingTypeCorrect`, `NothingIsSkipped`, `NothingIsShownTwice`,
  `PromisesAreKept`, `QuietTotalsAreTrue`, and `SameHasNext`: the two formulas for a next
  page (`getHasNext` of the request, `hasNext` of the answer) agree.
- `Gateway_proofs`: `GatewayTypeCorrect`, `OwnersMissNothing`, `FirmPagesAreUpToDate`,
  `NoScreenShowsGhosts`, and `SocketsOnlyWatch`, by which the theorems of the first list
  hold with sockets added.

So every invariant and every refinement that a run checks is a theorem too. The type
invariants, but for `UploadsTypeOK`, are stated by their theorems alone: where every
instance is covered, a run of a small one adds nothing.

### The invariants

No property is inductive alone, because requests carry what they have read across
steps of others. Each inductive invariant therefore adds to the types what a request in
flight may rely on:

- `IInv` (orders) adds `RowOK` of every order and `EditOK` of every edit. A row that was
  picked up has a driver or is `stripped`, and one that is `stripped` has none. An edit
  with target PickedUp writes the driver or saw its own user there; one with target
  Delivered saw its user as the driver, whose pick-up is in `seen`; what an edit saw of a
  driver is still there unless the order was stripped since (`RowsOnlyGrow`); the target
  of a saved one was told. `ShopIInv` adds `DeliveredStays` (what was Delivered is never
  Pending again and hence out of the clean-up's reach) and, of a review in flight, that
  its order had been Delivered, or, if it is a revision or a removal, that the row is
  there.
- `AInv` (accounts) says of every entity on its way to a row that no sign-up has named
  (`SaveOK`) that it is of a verified user and has the row's address, because only members
  get to updateUser and verifyEmail sets the column; of a sign-up in flight (`SignUpOK`)
  that what it writes is fit for a row, and that the row it has found is still there; and
  that mails, links and their requests are for addresses that are known (`Known`): of a
  row, or of one in `lost`.
- `SInv` (sessions): a blacklist key of an answered sign-out outlives its token
  (`Outlives`), and a token that was stored before and may be stored again was signed
  twice (`WasStored`); a token a client holds was stored.
- `GInv` (gateway) adds to `IInv` that one edit at a time holds the row of an order
  (`LockInv`), that the hook of a committed order was queued, and, of a firm page, that
  it shows, or is about to show, the status the row has or the one edit under way will
  give it.
- `RInv` (requests): what the guards that let a request pass have found out still holds,
  guard by guard, along the guards its route lists. `UInv` (uploads): the keys of requests
  are disjoint, made up, and put together with what their histories say.
- `PInv` (paging) compares the rank of a row, the number of rows before it, with the place
  up to which the client has read: a row that comes in only raises ranks, one that leaves
  only lowers them, so without the one nothing is shown twice, and without the other
  nothing is missed.
- `CatInv` (menu): the snapshot of every order being placed, and what the placed ones
  were charged by, is in `menus`, which only grows; a row that `save()` has found is still
  there; a column of the entity of an update was sent or is that of the row it was made
  from; of an update of a dish without undeclared columns, the entity is live and of a
  restaurant the dish was in (`Places`); and categories that restaurants and entities name
  are there (`Filing`).

### The refinements

A refinement needs more of a request than a safety property does, since the abstract step
must be found at the moment of the write, long after the read that justifies it:

- Orders and shop: the abstract `Edit` is `commitEdit`, whose effect on status and driver
  (`CommitEffect`) follows from what `EditOK` says of the snapshot; that the order is in
  `undriven` when a driver is taken off is the snapshot of that very edit. `Review` and `PutUp`
  are the INSERT and the save of an update; that there is a review for an update or a
  removal to save is the part of `CallOK` that the safety properties did without.
- Accounts: the INSERT of a sign-up is `SignUp`, its UPDATE is `WriteOver`. The save of a
  loaded entity is `WriteOver` of a row that a sign-up has named; otherwise it is `Verify`
  or `Change`. Which one follows from the last clause of `SaveOK`: until the account has
  been signed in to, a verification on its way to the table brings the name and the
  password the row has, so that its save writes one column.
- Sessions: the phases partition the tokens at every moment of the clock. The lemmas say
  which of them a Redis command moves: a SET makes one token accepted and takes that away
  from the one before; the clock, EXPIRE, DEL and requests that die only take away.
- Menu: an UPDATE of a restaurant is `Register`, with the owner and the life it has
  unless the restaurant is in `Rebuilt`; one of a dish is `Revise` of a dish in `Revising`,
  which may bring it back but takes it neither off the menu nor to a restaurant it never
  was in, unless the dish is in `Recast`. The clauses of `CatInv` about the entity say just
  that.

`ShopNeverDeadlocks` says so without ENABLED, which the prover lacks, by the guards of the
steps that wait (`EditWaits`, `CallWaits`, the scan): as long as anything is in flight,
something of it waits for no lock. The argument is that whoever holds a lock waits for
none, since an edit locks with its last query before the commit, and so does an INSERT;
only the clean-up, which takes lock after lock, waits while it holds some, and it waits
for those.

### What liveness rests on

Liveness (`EditsEnd`, `PlacedIsAnnounced`, `SweptUnlessOnePaid`, `StaleEntryGoes`,
`EveryRequestEnds`) is only model-checked: ENABLED and fairness are out of the prover's
reach. Three theorems prove the safety part of the arguments:

- `ShopNeverDeadlocks`, for `EditsEnd`;
- `EntriesAreMinded`, for `StaleEntryGoes`: an entry that has no expiry is in the hands of a
  request between its SET and its EXPIRE, however many others fill and delete the key
  meanwhile, or that request has died;
- `RequestsNeverGoInCircles`, for `EveryRequestEnds`: `StepsLeft` falls with every step of
  a request, from ten at the most, and nothing that others do raises it. That one of the
  steps can always be taken is what TLC adds.

`EntryIsMinded`, `EveryStepCounts` and `NoGhostOnScreen` are stated in `Accounts`,
`Uploads` and `Gateway` and proved; TLC finds no counterexample to them on the instances
of the runs `accounts`, `requests` and `gateway`.

### Assumptions

The ASSUMEs on the constants: `RolesAssumption`,
`PartiesAssumption`, `BodiesAssumption` and `ProfilesAssumption` (the columns a body may
carry), `AskedAssumption`, `OwnersAssumption`, `DatabasesAssumption` (the tables obey their
indexes when the program starts), `LivesAssumption` (lives are positive), `AmountsAssumption`,
`UnsetAssumption` (a field left out is no value), `CartsAssumption`, `SocketsAssumption`,
`RequestAssumption` (every token has a holder with a role), `UploadAssumption` and
`PagingAssumption` (limits and pages are positive, which the ValidationPipe checks).
There is no recursion in the modules proved about.

## 6. Findings

1. `DeliveredByItsDriver` — the driver who marks an order Delivered may not be the driver
   the row then names, if another pick-up commits after the check.
2. `UnpaidIsSwept` — doc/5 says unpaid Pending orders of more than 24 hours are deleted;
   one paid Pending order among them makes the DELETE fail every night.
3. `DeletedReviewStaysDeleted` — an update that began before a deletion brings the review
   back.

Known limits, which the statement of a checked property names as its exception:

- doc/13 says events go out after the work in the database has succeeded; `orderUpdate`
  goes out before the commit, so an edit that rolls back, or meets a row deleted since,
  has told a status the order never had (`FirmPageIsUpToDate` excepts it). A page that was
  read between the event and the commit stays on the old status, and so does one that a
  late edit told the status it had read.
- `editOrderStatus` loads the driver of an order, and its save writes `driver_id = NULL`
  whenever there was none (order.service.ts:180, 213): an edit that began before a pick-up
  and is saved after it leaves the order PickedUp without a driver, on no driver's list,
  until somebody picks it up again (`RoadListedToOneDriver` and `Edit` of `OrderRecord`
  except it).
- JwtBlacklistGuard takes a literal `Bearer ` off the header (jwtBlacklist.guard.ts:40) and
  passport-jwt finds the token behind any case or spacing of the scheme: the two agree on
  `Bearer <token>`, of which `SignedOutForGood` and `NoLateAdmission` speak.
- Bodies go into entities without a whitelist (signUp.body.ts:38-43,
  create-category.dto.ts:24-25, restaurant.service.ts:88-91, dish.service.ts:55-58): columns a DTO
  does not declare are written, and an id decides which row. `VerifiedStays`,
  `MailedIsCommitted` and `AccountRecord` except rows a sign-up has named, and
  `OnlySentColumnsChange` and `MenuRecord` what such bodies name.
- A verifyEmail that loaded the user before another one, and saves after the first sign-in
  and an update of the profile, writes the older name and password back
  (auth.service.ts:107-108; `Change` of `AccountRecord`).
- doc/11 says the next getUser after an update reads the database; one that missed before
  it fills the cache with the old row after the DEL, for up to 60 seconds
  (`StaleEntryGoes`: the entry goes away in the end).
- A refresh that has compared its token stores a new pair after a sign-out has deleted the
  old one: what `EndedStaysEnded` promises is about the tokens handed out before.
- An update of a dish that loaded it before may bring a deleted dish back or undo another
  update (`Revise` and `revising` of `MenuRecord` allow just that).
- A 401 may mean that MySQL failed (`UnauthorizedHasACause`); a batch with one failed put,
  or a client or process that went away, leaves objects in the bucket that nobody knows
  (`StrayHasACause`); a list that changes between two pages shows a row twice or not at
  all (`NoRowSkipped`, `NoRowTwice`).

Seen while modelling, and not stated as properties:

- `editOrderStatus` looks at no present status, so an order may go from Delivered to
  Cooking, against the diagram of doc/4; doc/4 says the price of an item is frozen with
  the order, and `order_item` has no price column; an order may hold no items at all, or
  dishes of another restaurant, and nothing compares its total with `minimumPrice`.
- An account whose mail failed or whose link expired can neither sign up again nor be
  verified.
- A sign-out that is cut off between its DEL and its SET leaves the access token alive; a
  sign-in in the second of a signed-out token gets that very token, blacklisted; signOut
  clears the cookie before it revokes; two refreshes at once may leave the cookie with
  another token than Redis. doc/2:29 says that a used refresh token invalidates the whole
  chain; the code answers 401 and no more. `parseExpirationToSeconds` knows fewer formats
  than `jsonwebtoken`.
- `ErrorInterceptor` is registered nowhere; AccessTokenGuard runs twice on most routes;
  the role check inside createRestaurant (401) is out of reach behind its guards (403);
  a request whose client hangs up is never logged as finished.
- `totalPages` and `hasNext` are getters with `@Expose`, and no ClassSerializerInterceptor
  is registered, so the JSON lacks them though doc/7:41 shows them: a client has to
  compute them as `Paging` does. paginate is given no order.
- `newCookedOrder` goes to every socket, though doc/6 says it is for the drivers.

## 7. Not modelled, and the plan

In this order:

1. An abstract specification of what a socket may be shown, which `Gateway` implements,
   with `NoGhostOnScreen` and the two properties of its run as consequences.
2. createOrder of `Catalogue` and `OrderLifecycle` as one: a refinement by which
   `saveOrder` is `createOrder`.
3. Drivers in the instance of `Gateway`, with `newCookedOrder` and the list of the orders
   that wait for one.
4. An abstract reader of a list that `Paging` implements.
5. What else a body without a whitelist may carry: lists of related rows nested in it
   (`save()` follows the relations that cascade), null for a foreign key, a role where an
   id makes a sign-up an update, and the undeclared fields of createPayment and updateReview, whose bodies are
   spread over an entity too.

Left out for good: the requests to SES (`Accounts` has that a mail arrives or fails),
bcrypt, the wording of logs and answers, configuration, and the API documentation, which
keep no state of the shop or are pure I/O; the find methods of the generic repository,
which the services that call them stand for; `updateDriverLocation`, a relay without
state; `verifyAccessToken`, which nobody calls.
