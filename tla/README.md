# INFI-TV: specifications

INFI-TV sells access to an IPTV catalogue. A NestJS backend (`backend/`) over
PostgreSQL keeps plans, customers, activation codes, devices and sessions; an admin
panel (`apps/admin`) manages them; a mobile app (`apps/mobile`) activates a code and
watches. This directory holds TLA+ modules of the licence system and of the services and
clients around it, wherever the order of events decides the outcome, the TLC runs that check them and the TLAPS proofs about them.
`PROJECT.json` lists components, runs, findings, hazards and theorems, and maps every
definition to the lines it models.

## 1. Inventory

| Component | State | Operations | What makes it hard |
|---|---|---|---|
| Activation (`activation/`) | customers, devices, sessions, codes; advisory lock of the code; row locks | activate, validate session, account status, logout | awaits between the read of the code and the transaction; READ COMMITTED; a 10 s timeout |
| Codes (`codes/`) | code rows, never deleted | create, suspend, reactivate, revoke, change limit, resolve | every method reads, awaits, then updates by id |
| Customers (`customers/`) | customer rows | create, update, suspend, reactivate, renew, delete; hourly expiry job | renewals computed from an earlier read; cascades |
| Devices (`devices/`) | device rows | revoke, block, unblock, delete | seats counted over ACTIVE devices only |
| Sessions (`sessions/`) | session rows | revoke | cascades from devices and customers |
| Plans (`plans/`) | plan rows | create, update, remove | RESTRICT foreign keys against ids held in flight |
| Abuse guard (`common/security/`) | in-memory counters per IP and per installation | isBlocked, recordFailure | window restart, handlers already past the check |
| Admin auth (`auth/`, `admin-users/`) | admins, refresh sessions, access JWTs | login, refresh, logout, change password, change role | rotation races, last SUPER_ADMIN |
| Audit (`audit/`) | append-only rows | log | called inside transactions on a second connection |
| Catalogue (`iptv/`) | channels with URL and standing, countries; whether ffprobe is there | M3U sync, stream check by cron and by button | syncs and checks overlap; verdicts on URLs that have changed |
| Programme guide (`iptv/epg-sync`, `epg/`) | programmes | fetch, delete, create in batches; now, by channel | no transaction, failures half way |
| VOD (`vod/`) | cache per action | fetch from the provider, serve | stamped on arrival, answers overtake each other |
| Channels, me | favourites, history | list, toggle, record | count and page read apart |
| Panel session | access token per tab, refresh cookie shared by tabs | login, refresh, logout, redirects | single-flight per tab only |
| Panel pages | query cache, filters, dialog, mutations under way | list, confirm, edit, generate | lists and roles are stale, dialogs close early |
| App: lists and stars | pages, favourites of the screen | load, load more, refresh, toggle | answers that arrive after the filter has changed |
| App: films | search, stored progress | search, open, play, close | debounce, list read and written back |
| App: phone | token, account status | activate, watch, poll | checks late, lost or out of order |
| Utilities (`packages/utils`) | none | pagination | boundary arithmetic |

How they interact: handlers of the backend share nothing in memory except the abuse
counters; they meet in the database. An activation reads its code, then its plan, then
opens a transaction in which it takes `pg_advisory_xact_lock` of the code and the row locks of
what it writes. Admin methods
take no lock and no transaction: read, check, await, `update ... where id`. `revoke` of a
code calls `suspend` of the customer. Foreign keys carry deletions on (CASCADE to devices
and sessions, SET NULL on codes) or refuse them (RESTRICT on plans). The hourly job is one
`updateMany`. Every bearer request revalidates the session against the rows.

What makes each licence component correct:

- a session has its device and its customer, and they belong together;
- a customer never has more ACTIVE devices than the limit of the code linked to them;
- the status of a code agrees with whether it has been used;
- revocation is terminal and shuts out the phones of the code;
- a suspension is undone by an administrator only;
- paid time is not taken back, EXPIRED means overdue, overdue customers get expired;
- every operation ends in spite of the locks.

What makes the parts around it correct:

- a key that has used up its guesses is blocked until its window is over;
- what the VOD cache serves is no older than its TTL and one timeout;
- activations end although their audits compete with them for connections;
- a channel plays the best URL that is its own, and its standing catches up with that URL;
- the guide is doubled only by two syncs at once, and no source erases a channel it is silent about;
- whoever walks the pages of a list sees every row once;
- a tab alone never loses a live cookie, and none goes round between pages once the backend answers;
- what the panel offers is granted, and an answer finds the dialog it belongs to;
- lists of the app show what was asked for; playback is cut when the account is suspended.

The hazards, each at its line with the properties that cover it, are in `PROJECT.json`.

## 2. Modules

| Module | Models | State |
|---|---|---|
| `LicenseStore` | `prisma/schema.prisma` (licence tables), `isEffectivelyActive`, `isCodeEffectivelyUsable`, the referential actions | `plans`, `codes`, `customers`, `devices`, `sessions`, `now`, `codeLock`, `customerLock` |
| `Activation` | `activation.service.ts`, `resolveForActivation` | `req[r]`: what activation handler `r` holds between two awaits; `held[r]`: its device and code rows are locked |
| `AdminOps` | the code, customer, device, session and plan services, the hourly job | `adm[w]`: the update admin request `w` is about to send |
| `Licensing` | the three together, the clock, restarts; all properties | the union |
| `MCLicensing` | values of the constants for TLC | - |
| `LicensingProofs` | type correctness, proved | - |
| `LicensingSafety` | `ExpiredIsOverdue`, `SessionAnchored`, `PlanIsKept`, `CustomerFitsLimit`, proved | - |
| `SeatLicence` | the abstract promise: phones take, leave and get back the seats of a licence | `limit`, `owner`, `seats`, `aside` |
| `SeatRefinement` | `Licensing` seen as a `SeatLicence`: `ImplementsSeats` | - |
| `LicensingOverlap` | `ImplementsSeats` and the six other action properties about handlers that overlap, proved | - |
| `AdminAuth` | `auth/`, `admin-users/` | `admins`, `refresh`, `access`, `job[h]`: what admin request `h` holds between two awaits |
| `MCAdminAuth` | values of its constants for TLC | - |
| `AdminAuthProofs` | type correctness, `TheLastFallsToARace`, `ChangesComeFromAbove`, `OneLiveSessionPerLogin` and `NewPasswordsCut`, proved | - |
| `AbuseGuard` | `activation-abuse.service.ts` and the handler that asks it | `records`, `instant`, `attempts` |
| `VodCache` | `api()` of `vod.service.ts` | `cache`, `vodTime`, `calls`, `oldest` |
| `ConnectionPool` | the transaction of an activation and `audit.log` | `phase`, `audits` |
| `M3U` | `m3u-parser.ts`, as functions of lines | none |
| `Catalogue` | `iptv-sync.service.ts`, `stream-health.service.ts` | `channels`, `countries`, `syncs`, `checks`, `tool` |
| `Guide` | `epg-sync.service.ts`, `epg.service.ts` | `programs`, `slot`, `guideJobs`, `mixed` |
| `Paging` | `buildPagination` and the lists that use it | `total`, `size`, `reader` |
| `Services` | the seven above side by side, with their fairness | `part` |
| `MCServices` | values of its constants for TLC | - |
| `CatalogueProofs` | what `M3U` computes for every playlist, and the safety of `Catalogue`, proved | - |
| `ServicesProofs` | every safety property of the services, alone and in `Services`, proved | - |
| `Folding` | induction over data and what a fold over a sequence does, proved | - |
| `PanelSession` | `auth-store`, `api`, `use-session`, middleware, `api/auth/*` of the panel | `cookie`, `live`, `screen`, `access`, `flight`, `stray`, `healthy` |
| `PanelOffers` | what the six pages offer and what the controllers grant | none |
| `PanelPages` | lists, dialogs, forms and mutations of a page | `page`, `role`, `table`, `list`, `dialog`, `sent`, `filter` |
| `MobileLists` | `use-channels.ts` | `wanted`, `items`, `at`, `call`, `cached`, ... |
| `Favourites` | `use-me.ts`, favourites of `me.service.ts` | `stored`, `hearts`, `toggles`, `reads` |
| `Movies` | `movies.tsx`, `watch/[id].tsx`, `progress.ts` | `query`, `search`, `asks`, `results`, `progress`, `watching`, `saves` |
| `Phone` | start, activation and `channel/[id].tsx` | `account`, `alive`, `token`, `view`, `status`, `statusChecks` |
| `Clients` | the six above side by side, with their fairness | `part` |
| `MCClients` | `Clients` for TLC | - |
| `ClientProofs` | every safety property of the panel and the app, alone and in `Clients`, proved | - |

`Licensing` EXTENDS `AdminOps` and `Activation`, which EXTEND `LicenseStore`;
`SeatRefinement` INSTANCEs `SeatLicence` over `Licensing`. `Catalogue` EXTENDS `M3U`,
`PanelPages` EXTENDS `PanelOffers`. `Services` and `Clients` put side by side parts that
share no state. `AdminAuth` stands alone: no admin table is touched by a licence operation, and that an admin request
is authorised is taken for granted in `AdminOps`.

**Tables** are functions from identifiers to rows. Identifiers are cuids and never
come back: a row is `free` before it is inserted and `gone` after it is deleted. Only the
columns some guard reads are kept.

**An activation** is a small state machine, one action per point where the handler
awaits and something else may run:

    idle --Resolve--> resolved --ReadPlan--> planned --TxCustomer--> locked
         --TxDevice--> decided --HoldRows--> decided, rows held --Commit--> idle

`Resolve` copies the code row (`activation.service.ts:76`), before any lock; `TxCustomer`
is the granted advisory lock with the reading of the clock and the customer; `TxDevice`
writes the customer row when the subscription starts (line 123, which locks that row), looks the
device up and counts seats; `HoldRows` writes the device row (line 166, or the insertion of 152, which waits
for another insertion of the same unique key), the code row (180, 191) and the session with the share
locks of its foreign keys (203); `Commit` waits for the customer row (line 213) and makes the
writes visible together, or none if a foreign key, the unique key or an update by id refuses. `Abort` is
the 10 s timeout, possible at every point of the transaction. Reads see what others have committed;
the handler's own writes become visible at `Commit`, as READ COMMITTED has it. The device
lookup and the count, two statements with nothing of the handler in between, are one
step: what could commit between them under another code of the same customer leads to a
refusal, which `Commit` and `Abort` have too. The locks of `HoldRows` are one step as well: whoever holds the
advisory lock of a code waits for the row of that code at most for an update that ends by itself, so that the device is the
only row two activations contend for there.

The order of locks is not the same on all paths. The first activation of a code holds the customer
(line 123) and waits for the device; one of a code that has been used, by a phone that is known, holds the device and
waits for the customer (line 213). With two codes of one customer they wait for each
other. `DeadlockVictim` is what PostgreSQL does then: it aborts one of the two. There are no longer cycles:
whoever waits for a device holds its customer, and of one customer there is one holder.

**Admin methods** are two actions (`SuspendCode` / `WriteCodeStatus`, `RenewCustomer` /
`WriteRenewal`, `UnblockDevice` / `WriteUnblock`, and `RevokeCode` / `WriteCodeStatus` /
`CutAccess` / `WriteSuspension`) where the write depends on the earlier read. A method
that writes a constant is one action at the moment of its write: its check only
excludes rows that already hold that constant, so reading earlier gives no further
outcome. Plans checked first by `create` and `update` are taken as of the write.
Updates wait for the rows a transaction holds (`Writable` for the customer, `DeviceHeld`, `CodeHeld`), and a
deletion for all rows it touches (`CustomerHeld`); it takes them at once, so that it waits
without holding any. A pending update also keeps what its method had read (`was`, `used`, `paid`):
nothing in the code compares it with the row again, and only the properties do.

**Time** is a counter of days. A transaction may straddle one tick, not two (10 s).

**Restart** (`Crash`) loses every handler and rolls open transactions back.

The abuse counters only decide whether an activation starts; a refused activation
touches no table, which in `Licensing` is one that does not start. `AbuseGuard` has the
counters themselves.

**The seat licence** has no tables, clocks or sessions. A licence has a limit and an owner;
its first use makes a holder. A phone takes a seat while there is one; a blocked or revoked
phone is put aside and, let in again by an administrator, has its seat back without being
counted. A licence whose holder was deleted is orphaned, and every phone that uses it is a
new holder. `SeatRefinement` maps customers to holders and their ACTIVE devices to seats.

**Admin requests** of `AdminAuth` are state machines with a step per await:

    login           Login -> Issue
    refresh         Refresh -> Rotate -> Issue
    update          AskUpdate -> LookUp [-> Count] -> Write
    changePassword  AskPassword -> Verify -> Store -> Cut
    create          AskCreate -> Insert

`AskX` is the guard chain of the route: `JwtAuthGuard` with `validateAccess`, `RolesGuard`
and the check of the controller. An access token is the pair of an admin and a role; it
stays in `access` when the admin is demoted, deactivated or changes password, as a JWT
does. Four fields of a session row are not in the table and no action reads them to decide
anything: `under`, the password its login gave; `chain`, the session of that login; `forked`, that a
refresh drew it from a session another had revoked by then; `spared`, that a change of
password has missed it. In the same way a handler keeps what it read (`asked`, `seen`, `counted`, `raced`).
The properties are about them. `logout` writes a constant to a row by id and is one step.

**Services.** Each models what one await lets in. `AbuseGuard`: `Attempt` passes `isBlocked`,
`Fails` charges both keys after the await. `VodCache`: `Miss` sends a request, `Arrives` stamps
and stores it; data is represented by the instant at which the provider made it. `ConnectionPool`:
every activation holds a connection and asks for a second one for each of its audits (line 218 of the service, and
113 when it creates a customer); `WaitEnds` is an audit giving up, for whatever reason, since `audit.log` swallows
every error (`audit.service.ts:38`), or the transaction timing out. `Catalogue`: a sync upserts batch by batch; a check takes a snapshot (`StartCheck`), its
workers take channels from it (`TakeNext`), probe the URL of the snapshot, ask ffprobe, and
write by id. What is behind a URL is a constant (`StreamOf`), so a verdict is right or wrong
for a URL. `hasAudio` marks ffprobe as looked for before it knows the answer, and takes a `-version` that failed
or was slow for its absence; the model keeps both. `Guide`: `DeleteGuide` and `CreateRows` are separate steps,
`GuideFails` may come between any two, and two syncs overlap; `mixed` marks a channel that one emptied while another was
still filling it. `Paging` is `buildPagination` with a reader who asks for page after page.

**Panel.** A flight of `PanelSession` is a request to the panel's own route handlers, served
(`Serve`) by the backend and landed (`Lands`) in the browser in two steps: a cookie changes at
the second, a token dies at the first. Reloading a tab loses its flights but not the request
under way (`stray`). While the backend is not `healthy` a request fails and leaves the cookie. `PanelPages` has one page at a time in one shape: a list that may be stale,
buttons by role and status, a dialog, and mutations in `sent` that are executed and settled in
two steps. `PanelOffers` holds what differs between pages, one operator per page.

**App.** `MobileLists`: a call carries the filter and page number of the render that made it;
`muddled` marks a list that met an answer of another filter or kind, whose first load failed, or that shows a
cached page. (`loadMore` is modelled as asking for the page after the present one; in the code it is the
present one of the render that made the callback.) `Favourites`: stars change at
once, requests follow; `uncertain` marks a channel with two requests at once. `Movies`: the
debounced search and the list of positions that is read, changed and written back; `clobbered`
marks two saves that overlapped. `Phone`: account and session are what the backend would say;
polls overlap, get lost and arrive late. These marks exempt precisely what the code does get
wrong (hazards name the lines), so that the properties say what it gets right.

## 3. Runs

| Run | Question | Bounds |
|---|---|---|
| `overlap` | What do the licence services promise, and who alone breaks it? | 1 code, 1 customer, 2 phones, 2 devices, 2 sessions, limits 1 and 2, days 0 and 1; an activation and 2 admin methods, 2 of them in flight, restarts; every operation but plan administration, session revocation and logout |
| `concurrent` | What holds whatever interleaves? | 2 activations and 1 admin method in flight, 2 customers, limit 1, restarts, plan / customer / device deletions, revoked devices, renewals, cron, days 0..2 |
| `liveness` | Does everybody get through the locks? | 2 codes of one customer, one device, 2 activations, 1 admin method, 2 of them in flight, logout, session revocation |
| `oversell` | finding: the limit without a linked customer | 2 activations of one unlinked code, limit 1 |
| `revokeRace` | finding: revocation against a first activation | 1 activation, 1 revocation |
| `revokedSlot` | finding: the seat of a revoked device | no interleaving |
| `authRoles` | Who may change an administrator, and what can take the last SUPER_ADMIN away? | 2 admins, 2 sessions, roles SUPER_ADMIN and ADMIN, 2 requests in flight, restarts |
| `authSessions` | What do logins, refreshes and changes of password leave alive? | 1 admin, 3 sessions, 2 passwords, 2 requests in flight, restarts |
| `lastSuperAdmin` | finding: two demotions at once | 2 admins, 2 requests in flight |
| `oldPassword` | finding: a login against a change of password | 1 admin, 2 requests in flight |
| `services` | What do the services around the licences promise? | guard: 3 keys, 2 attempts, 2 failures, clock 5; VOD: 2 calls, TTL 2, timeout 2; pool: 3 activations with 1 or 2 audits each, 2 connections; catalogue: 2 playlists of 2 channels, a sync, cron and button, 1 worker, a restart; guide: 2 overlapping syncs, 2 channels, 3 slots; paging: 0 to 5 rows, sizes and pages from -1 to 9 |
| `clients` | What do panel and app promise their users? | 2 tabs, 7 tokens, 1 trouble, any outages; 2 rows per page, 2 moves of others; 3 filters (1 a search), 3 pages, 3 taps; 2 channels with stars, 3 taps; 2 films, 3 search terms, 3 visits; 2 polls, 3 turns |

`overlap`. No method of the licence services reads a row FOR UPDATE or repeats its check in the
update, so that a handler may write from a row that somebody has written since. `Overtaken` says of a step that it is such
a handler's: `RequestOvertaken` compares what an activation read of its code, its customer and the seats with the
rows, `WorkerOvertaken` what a method read. The properties say that each of the following goes wrong through such a
step and in no other way, however requests interleave and whenever the server restarts:

- `ImplementsSeats`: a step is one of `SeatLicence`, or leaves seats, limits and owners alone. With one
  operation at a time nobody is overtaken, and this is the specification of `SeatLicence`;
- `CodeLifecycle`: the status of a code and its use part;
- `SessionCapped`: a session is opened beyond the paid time;
- `RevocationCutsAccess`: `revoke` is answered and the customer can still watch;
- `RevocationIsTerminal`: a REVOKED code gets another status;
- `SuspensionHolds`: an activation makes a suspended customer ACTIVE (a renewal does, by design);
- `PaidTimeGrows`: the expiry moves back (but for the first use of a linked code, which starts the
  subscription afresh).

All seven exceptions are real: with `Overtaken` replaced by `FALSE` each property is violated in
this very run. So this run says what the services do keep, and `oversell` and `revokeRace` that documents promise more.

`concurrent` checks what survives everything, without exception: `SessionAnchored`, `ExpiredIsOverdue`,
`PlanIsKept` and `CustomerFitsLimit`. The plan starts absent, so that plans are created,
edited and removed under the feet of activations and renewals. `CustomerFitsLimit` is what the advisory lock is
for: two activations of one code race for the single seat of its customer. It holds for a
customer with a single code whose limit is not lowered and whose devices are not
unblocked: `unblock` and `update` of a code do not count seats, and two codes of one
customer do not share a lock.

`authRoles` and `authSessions` have two requests in flight, and restarts between any two steps.
`TheLastFallsToARace`: the last active SUPER_ADMIN is lost only to an update whose target was changed after
it looked, or that counted somebody who is no longer in charge when it writes. `ChangesComeFromAbove`: whoever makes or
changes an administrator was an active SUPER_ADMIN when the guard let the request in, although tokens outlive
demotion. `OneLiveSessionPerLogin`: refreshes leave one live session per login, but for what a second
refresh of one token draws. `NewPasswordsCut`: a live session goes back to the present password, unless the
change has still to revoke it, the request that opened it was past its check when the password changed, or a restart came
between the two statements of `changePassword` (`admin-users.service.ts:165` and `:169`). `lastSuperAdmin` and `oldPassword` show
that the races which are excepted do occur. One administrator is enough for `authSessions`: they
log in from several places, and what is revoked depends on the target of the change alone.

`liveness` checks `EveryOperationEnds` and `OverdueExpires` under `FairSpec`.

`services` and `clients` draw a `part` at the start and exercise it alone: the parts share no
state, so that their state spaces add up.

`services`: `ExhaustedIsBlocked` and `GuessesAreBounded` (the guard with attempts already past
it; a key exceeds its failures only by those); `ServedIsRecent`;
`ActivationsAnswer` (a full pool is a standstill until a timeout, never for ever);
`SyncKeepsBest` (what is written against a reference definition, over all merges of
the playlists), `UrlIsItsOwn`, `StandingCatchesUp`; `GuideNotDoubled` and `ReplacedNotErased`;
`WalkSeesAll`. Two syncs of the guide at once (cron and the button of the panel) do double it, since nothing keeps one from
emptying a channel between two batches of the other: `GuideNotDoubled` says that it happens only there, in a `mixed`
channel, whatever fails half way, and that the next sync alone repairs it.

`clients`: `LiveCookieKept` (but for a cookie lost to a race of two tabs) and `RefreshSettles` (once outages are over); `OfferedIsAllowed`,
`AnswersFindTheirDialog` and `EditTouchesItsRow` (pages); `ListsTellTheTruth`, the conjunction of
`PagesInOrder`, `HeartsAreStored`, `ResultsBelong` and `ResumesWhereLeft`; `PlaybackIsCut`.
`OfferedIsAllowed` excepts by name (`KnownRefusal`) two offers that are always refused: suspending an
EXPIRED code, and a customer "Sin plan", sent with an empty `planId`.

Bounds. Two of everything that competes is the least at which the races exist: two
phones for a seat, two transactions for a lock, two customers for a code to move between, two handlers to overtake each other.
One day of plan, a session limit of two days and a clock to day 2 make
the session cap, the strict and the non-strict expiry comparisons and a late job occur.
Identifiers run out (`IdsLeft`): an insertion then fails like any refused write.
Two administrators are enough for one to demote the other, with a token that outlives that, and three sessions for a login and
two refreshes of one token.
`MaxExpiry` stops renewals. In `services` the block is longer than the window and the clock
outlasts both; three activations fill a pool of two; the playlists hold two qualities of a channel, an
entry without a URL, and URLs that work, are mute, slow or down; a batch of one row puts an
await between every two writes; five rows and pages of two have a short last page, and the
sizes asked for lie below, between and above the limits. In `clients` two tabs share one
cookie, seven tokens are more than tabs and requests can hold, and the taps, moves and turns
allow a change of mind while an answer is awaited. Because of those bounds everything may
be used up and the system stop, and in `authRoles` everybody may end up deactivated, so the runs
do not check deadlock; `authSessions` does. That nobody waits for ever in the licence system is what
`liveness` is for. Symmetry is used for phones, handlers and admin requests in the
safety runs, never for liveness.

Fairness. `FairSpec` assumes strong fairness of a handler's own next step (an event loop
resumes every answered await, and PostgreSQL serves lock waiters in order, so a step that
keeps becoming possible is taken), of a pending admin write, and of the hourly job, whose
`updateMany` queues for rows in the same way. Nothing is assumed of the clock, of the
timeout or of anybody starting an operation: `EveryOperationEnds` does not lean on
`Abort`. It does lean on `DeadlockVictim`: two activations of two codes of one customer can wait for each other, and
PostgreSQL looks for deadlocks whenever somebody has waited for `deadlock_timeout` (1 s by default, well below the 10 s).

`Services` assumes weak fairness of what an activation waits for (waits for a
connection have timeouts), of the scheduled check (it starts every five hours, takes the next
channel, ends) and of the probes of every check (both `fetch` and ffprobe have timeouts), and
that twelve hours pass. The scheduled check is off by default (`HEALTH_CHECK_ENABLED=false`,
`stream-health.scheduler.ts:8`, `:25`): `StandingCatchesUp` is about an installation that has turned it on, and a scheduled
check that is still running when the next is due is not modelled. Nothing is assumed of syncs, restarts or the panel's button:
`StandingCatchesUp` is `<>[]`, and the bounds on syncs end them. `Clients` assumes that a tab without a
token asks for one (an effect of `use-session`), that its requests are answered or fail (an outage is a failure), that an
open channel polls (`setInterval`) and that its polls end. Nothing is assumed of users, administrators
or time. Outages come and go as they like, and `RefreshSettles` says what holds once there are no more of them (`<>[]healthy`): as long as
the backend is out of reach the panel does go round, since the route handler fails and leaves the cookie
(`refresh/route.ts:34`, `:58`), `use-session.ts:39` leaves for `/login`, and `middleware.ts:13` sends whoever has a cookie back to
`/dashboard`.

### Findings

- **`oversell`.** The comment above `performActivation` promises that two devices
  activating at once cannot exceed the limit. The code row is read before the lock; two
  first activations of an unlinked code each create a customer and a device.
- **`revokeRace`.** A first activation that commits between `revoke`'s read and its write
  leaves a REVOKED code whose new customer is ACTIVE and whose phone is let in.
- **`revokedSlot`.** Routes and docs say that a revoked device keeps its seat and cannot be
  reactivated. Activation counts ACTIVE devices only, so another phone takes the seat.
- **`lastSuperAdmin`.** Two SUPER_ADMINs who demote each other at once both pass the count
  and leave nobody in charge.
- **`oldPassword`.** A login (or a refresh) past its check when the password changes opens
  its session after the others have been revoked; it can be refreshed without end.

Not a finding, since nothing documents the contrary: `renew` extends the customer and not the
code, whose expiry was copied at the first activation, so that a paid customer may be
refused by their own code (`customers.service.ts:277`, `activation.service.ts:184`).

Also met while modelling, and contradicted by no document:

- two codes of one customer can deadlock their activations (`activation.service.ts:123`, `:166`, `:213`), which PostgreSQL resolves
  by aborting one; the phone is shown an error and may try again;
- two guide syncs at once double the guide (`epg-sync.service.ts:71`), and the guide of a channel
  whose tvg-id carries a country is never found: the parser stores `AR:name` as its
  `externalId` while the guide looks for the tvg-id (`m3u-parser.ts:150`, `epg-sync.service.ts:61`);
- a session that has ended does not stop playback: the poll ignores the 401 (`channel/[id].tsx:220`);
- the sidebar offers `/logs`, for which there is no page; the buttons of `usuarios` do not ask for a
  role, only the sidebar hides the page;
- forms can be closed, and others opened, while their request is under way;
- a failed background refetch replaces a list that is there by an error (not on the page of plans);
- `removeProgress` is never called: a film watched to its end stays in "continue watching".

## 4. Proofs

TLAPS checks every theorem down to its last leaf. They hold for every value of the
constants that satisfies the assumptions of the modules: identifiers of different kinds
and numbers differ from `NULL`, the device identifiers are finite (`StoreAssumption`),
limits are positive and days are natural numbers (`AdminAssumption`), at least one handler
may be in flight (`LicensingAssumption`), and the seed administrator is one of the
administrators (`AuthAssumption`). `StoreAssumption` is about the bounds of the model, the
rest is what the DTOs and the schema enforce. `GuardAssumption`, `VodAssumption` and
`PoolAssumption` say that limits and times are natural numbers; `GuardBites` is more than
`configuration.ts` enforces: a limit above one and a block longer than the window, as in the defaults.
`GuardAssumption` also bounds the model: the attempts in flight are finite. `GuideAssumption`
says that horizon and batch size are natural numbers, and bounds slots and copies.
`OwnersAssumption` and `GoneIsNoRow` keep the values that stand for "nobody" and "deleted" apart from
customers and rows; the assumptions of the clients say that their bounds are natural numbers and that
there is a channel to star, a film to watch and a language to pick. `PlaylistAssumption` says what a line of a
playlist is (an EXTINF line has no URL of its own), and `CatalogueAssumption` that there are finitely many sources.
`TokensSuffice` says that the backend does not run out of tokens:
there is one more than cookie, stray request and tabs can hold.

One theorem assumes a setting, in its statement: `CustomersFitTheirLimit` assumes `LimitsStand` and `OneCodeEach`. No
method lowers a limit or unblocks a device, neither of which counts seats, and there
is one code or codes are not made for given customers, so that nobody's devices are counted under two locks. Nothing is assumed
anywhere of interleaving or restarts.

| Theorem | States | Inductive invariant |
|---|---|---|
| `TypeCorrect` | `Spec => []TypeOK` | `TypeInv` |
| `ExpiredAreOverdue` | `Spec => []ExpiredIsOverdue` | `ExpiredIsOverdue` with `TypeInv` |
| `SessionsAreAnchored` | `Spec => []SessionAnchored` | `AnchorInv` with `TypeInv` |
| `PlansAreKept` | `Spec => []PlanIsKept` | `PlanInv` with `TypeInv` |
| `AuthTypeCorrect` | `Spec => []AuthTypeOK` | `AuthInv` |
| `OnlyFromAbove` | `Spec => ChangesComeFromAbove` | `JobsWarranted` with `AuthInv` |
| `LastSuperAdminStays` | `Spec => TheLastFallsToARace` | `JobsWarranted` with `AuthInv` |
| `OneSessionStaysLive` | `Spec => []OneLiveSessionPerLogin` | `ChainInv` with `AuthInv` |
| `OldPasswordsOpenNothing` | `Spec => []NewPasswordsCut` | `NewPasswordsCut` with `AuthInv` |
| `ExhaustedStaysBlocked` | `GuardSpec => []ExhaustedIsBlocked` | `GuardInv` |
| `GuessesStayBounded` | `GuardSpec => []GuessesAreBounded` | `GuessInv` |
| `ServedStaysRecent` | `VodSpec => []ServedIsRecent` | `VodInv` |
| `WalksSeeAll`, `ReadersAreTyped` | `PagingSpec => []WalkSeesAll`, `PagingSpec => []PagingTypeOK` | `WalkInv` |
| `DedupeKeepsBest` | `BestOf(parsed, DedupeChannels(parsed))` for every list of entries | over the turns of the loop |
| `ParseTakesEntries` | `ParseM3U(lines)` has the entries that `lines` declare, all of them and no others, for every playlist | over the turns of the loop |
| `CatalogueKeepsBest`, `CatalogueUrlsAreTheirOwn`, `CatalogueTypes` | `CatalogueSpec => []SyncKeepsBest`, `[]UrlIsItsOwn`, `[]CatalogueTypeOK` | `CatalogueInv` |
| `GuideIsNotDoubled` | `GuideSpec => []GuideNotDoubled` | `FillInv` |
| `OnlyReplaced` | `GuideSpec => ReplacedNotErased` | `GuideInv` |
| `ServicesAreTyped`, `ServicesKeepTheirWord` | `Spec` of `Services` `=> []ServicesTypeOK`, and `=>` all the properties above from `ExhaustedIsBlocked` on | those of the parts, `PartsBehave` |
| `CustomersFitTheirLimit` | `Spec => []CustomerFitsLimit`, assuming `LimitsStand` and `OneCodeEach` | `SeatInv` with `TypeInv`, `AnchorInv` |
| `SeatsAreImplemented` | `Spec => ImplementsSeats` | `ReadInv`, `PhoneInv`, `RowsFit` with `TypeInv`, `AnchorInv` |
| `CodesLiveInOrder`, `SessionsAreCapped`, `RevocationsCutAccess`, `RevocationsAreTerminal`, `SuspensionsHold`, `PaidTimeIsKept` | `Spec =>` `CodeLifecycle`, `SessionCapped`, `RevocationCutsAccess`, `RevocationIsTerminal`, `SuspensionHolds`, `PaidTimeGrows` | `ReadInv` with `TypeInv` |
| `LiveCookiesStay` | `PanelSessionSpec => LiveCookieKept` | `SessionInv` |
| `AnswersComeHome` | `PanelPagesSpec => []AnswersFindTheirDialog` | `PagesInv` |
| `OffersAreGranted` | `PanelPagesSpec => []OfferedIsAllowed` | `PagesInv` |
| `EditsTouchTheirRow` | `PanelPagesSpec => EditTouchesItsRow` | `PagesInv` |
| `ListsAreInOrder` | `MobileListsSpec => []PagesInOrder` | `ListsInv` |
| `StarsAreRows` | `FavouritesSpec => []HeartsAreStored` | `HeartsInv` |
| `ResultsAnswerTheSearch` | `MoviesSpec => []ResultsBelong` | `SearchInv` |
| `FilmsResume` | `MoviesSpec => []ResumesWhereLeft` | `WatchInv` |
| `MoviesAreTyped`, `PhoneIsTyped` | `MoviesSpec => []MoviesTypeOK`, `PhoneSpec => []PhoneTypeOK` | `WatchInv` with `SearchInv`, `SearchTyped`; the type itself |
| `ClientsAreTyped`, `ListsAreTrue`, `PanelKeepsItsWord` | `Spec` of `Clients` `=> []ClientsTypeOK`, `=> []ListsTellTheTruth`, and `=>` the four properties of the panel | those of the parts, `PartsBehave` |

**`TypeInv`.** A handler's fields may be `NULL`, so the type alone does not say that the row
a pending write is for exists. `RequestsKnow`, `WorkersKnow` and `CopiesHold` say what a
handler knows at each of its steps, and that the code it is about is still in the table:
codes are never deleted, which is what makes their blind updates safe.

**`AnchorInv`.** A session is inserted by the commit of an activation, for a device that the
activation looked up or is about to insert. `ChoiceHolds` carries that over the awaits:
while a device is there it belongs to the customer the activation found. Customers and
devices may be deleted in between; `Commit` then refuses by the foreign key, and the
deletion carries the sessions off. Identifiers never come back, hence "inserted
some time".

**`PlanInv`.** A renewal and a first activation write a plan id read long before.
`CopiesAgree` holds the activation's copy equal to the code's own plan, which the RESTRICT
foreign key keeps in the table; a renewal's plan is checked by the foreign key at the write.

**`JobsWarranted`.** What a handler holds warrants the step it has come to: its actor was in charge when the
guard let it in, past the first read an update is not about oneself, and one that demotes a SUPER_ADMIN has counted somebody else.
So when the last one is lost, either the row written is not the one that was seen or those who were
counted are in charge no longer: a step that takes the last one away from rows that still are what the handler read
would contradict its own count.

**`ChainInv`.** A new session inherits the login of the one it replaces. `OneTip`: of one login there is one session
to draw the next from, or one handler about to open it, never both, the forks aside. A refresh that finds its
token revoked when it comes to revoke it is a fork from there on, so the one that came first stays the only one.
`ChainsAreFounded`: the session a login is named after is never handed out again.
A restart between revocation and insertion ends the chain, it does not fork it.

**`NewPasswordsCut`** is inductive with the types: `Store` makes the sessions of its target exceptions all at once, by being about
to revoke them; `Cut` revokes all that are there, and `Restart` marks them as spared when it forgets the handler; `Issue` compares what
was given with the password of that moment.

**`GuardInv`.** A record that has used up its failures is blocked at least `BLOCK` from the
failure that opened its window; `BLOCK > WINDOW` then leaves no moment between the end of the
block and the end of the window. Without `GuardBites` there is one.

**`GuessInv`.** Only an attempt that is not in flight asks, and a key that reached the limit is
blocked (`GuardInv`): an attempt that gets past the guard finds fewer failures than the limit and, with itself,
at most all attempts in flight.

**`VodInv`.** A request under way was sent at most `TIMEOUT` ago, its answer was made after it
was sent, and an entry was made at most `TIMEOUT` before its stamp. The last is what the stamp on
arrival costs.

**`WalkInv`.** A reader on page `n` has the rows up to `n * Per`, and there are more pages just when some
row is left. The arithmetic is in `PagesHoldAll`: the rounded-up quotient covers all rows, and
every page below it begins before the last row.

**`FillInv`.** The rows a sync still has to create in a channel that is not mixed are not stored, and no other
sync writes into that channel (`FilledByOne`): whoever empties a channel while another fills it mixes
it, and emptying one that nobody else fills makes it clean again. **`GuideInv`** has what `OnlyReplaced` needs: what a sync is about to delete
for is relevant at the present slot (`FetchedIsRelevant`).

**`SeatInv`.** The promise of the advisory lock. A handler past `TxCustomer` holds the lock of its
code, and one that decided to insert a device has a free seat (`HandlerFits`): only it could
have filled it, because every device of the customer was inserted under the same code
(`UsesOne`) and nothing but an insertion makes a device ACTIVE (`NoUnblock`). Counting seats
needs cardinalities of the set of active devices, hence finitely many device identifiers.

**`ReadInv`.** What a handler holds made sense for the rows it read: an activation that decided on a new device
has found fewer devices than the limit, the customer it found was ACTIVE, the status a method is about to write agrees with the use
it saw, the end a renewal writes is later than the one it read. That is an invariant of the handler's own copies, which nobody
else touches. A handler that is not overtaken finds the rows as they are in its copies
(`CommitFinds`, `WorkerFinds`), so that what made sense for the copies makes sense for the rows, and the step
keeps its promise; all others are excepted. This carries the seven properties through every interleaving, without
any bound on handlers and with restarts anywhere.

**`PhoneInv`, `RowsFit`.** `SeatLicence` counts phones, the code counts devices. They are as many because a
customer has at most one device per phone (`@@unique` of the schema, `OneDevicePerPhone`). `RowsFit`: codes have seats, and links lead to
customers that are there. The refinement is proved
action by action: initial states map to initial states, and every step maps to `Issue`, `Relimit`,
`NewHolder`, `Take`, `PutAside`, `LetIn`, `Forget`, `Depart` or a stutter, unless it is overtaken.

**`SessionInv`.** A flight that is not marked `raced` is the only one but those of its own tab
(`MetNobody`), so nothing changes the cookie between the request and its answer: such a refresh
carries the cookie as it is, and if it was refused the cookie is dead (`TellsOfTheCookie`). A tab
has one refresh at a time (`OneRequestEach`): with the single flight of `refreshAccessToken` dropped
the second would carry a rotated token.

**`PagesInv`.** What is in the dialog, in the list and in flight belongs to the page: rows carry texts and
statuses of their page, a form's text was typed or shown (`Fits`), and there is one mutation of a
kind (`OneOfAKind`), which is what lets an answer find its dialog. `StatusesStay`: what the
backend grants leaves a row with a status its page knows.

**`ListsInv`.** A call that met no call of another kind or filter is alone (`UnmetIsAlone`) and asks
for the page the list needs next (`AsksForTheNext`). **`HeartsInv`.** A star that is not uncertain differs from
its row only by the one request under way for it. **`SearchInv`.** An answer that is still listened
to was asked for by the present search.

**`CatalogueInv`.** Whatever a sync has collected, parsed or written is an entry that some playlist declares
(`Entry`), and an entry has the URL that stands below it (`Given`); so does every row of the table. Verdicts are written by
id, and write no URL; a batch takes the next entries of the parsed list as it is; a restart forgets syncs and
leaves rows as they are. That a sync then writes the *best* entry is `DedupeKeepsBest`, and that what it collects are
entries is `ParseTakesEntries`, for playlists of any length.

**`WatchInv`.** As long as no two saves overlapped there is at most one save under way (`Told`): before it writes, the
stored list is the beginning of what the viewer would have told before leaving that film, and what is told now is that
list with the film moved to the front. `MovedWithinTheNewest` is the lemma behind `SaveWrites`: filtering the *cut*
list, putting the film in front and cutting again gives the beginning of the whole list treated in the same
way; the row that the cut had dropped can only be missed when it would be dropped again.

**Induction over data.** `WithoutTurns`, `DedupeTurns` and `ParseTurns` say what the folds of `Movies` and `M3U` do
turn by turn, for lists of any length. The induction theorems of the library take an operator, which the
provers cannot instantiate; `Folding` gets induction from sets of numbers instead: the order of the numbers is
well-founded (`NatLessThanWellFounded`), so a set of them has a least member (`WFMin`), so a set that has 0 and with
each number the next has all (`Induction`). `FoldExists` applies that to the recursive function that `FoldLeft`
is defined by.

**`PartsBehave`.** A step of `Services` or `Clients` is a step of one part in which the others stutter, so that a
behaviour of the whole is one of each part, and what is proved of the part's own specification holds in the
one that the run checks.

Proving found two flaws of the model, now corrected. `Depart` of `SeatLicence` orphaned either all
licences of a deleted customer or none; with two codes of one customer, one used and one not, the code does
neither, and TLC finds the step once it is given two codes. And `FormOf` in `PanelOffers` was a CASE with
overlapping guards, of which TLA+ may take any arm.

`StepKinds` in `LicensingSafety` sorts the steps of `Licensing` by what they do to the
tables (quiet, plan, code, customer, device, session write, commit, deletion). The three
safety proofs have one case per kind instead of one per action.

Every safety property that a passing run checks, invariant or action property, is stated by a theorem. Only
model-checked:

- liveness (`EveryOperationEnds`, `OverdueExpires`, `ActivationsAnswer`, `StandingCatchesUp`,
  `RefreshSettles`, `PlaybackIsCut`): it rests on fairness, which TLAPS does not handle.

## 5. Not modelled

- **Statistics, health, configuration, listings and searches**: reads. Configuration is
  represented by the assumptions on constants.
- **Content of audit rows**: no guard reads it. `audit.log` is modelled as a user of connections.
- **Watch history** (`me.service.ts`): one upsert per channel and a list, with nothing that
  races but two upserts of the same row.
- **Categories of channels**: written in the loops of the sync like countries, read by filters only.
- **Panel**: the page of statistics, the cache entry of one code's detail (stale for 30 s after a
  change, `hooks/resources.ts:73`), the refresh a mutation begins, addresses typed by hand.
- **App**: the parental PIN, the guide screen, genre rows, the zapping list and the layout of the
  home page: each loads once or has no answer to race with.
- **Utilities** other than `buildPagination`: formatting, comparing versions, normalising text.
- Hashing, signing and random generation: identifiers and tokens are atoms. Throttling by the
  framework. Rendering.

Worth doing next: `PlaybackIsCut` and `RefreshSettles` by hand from their fairness, and a property of `Catalogue`
that says when a verdict may be older than the URL it is written beside.
