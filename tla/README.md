# LOCUS in TLA+

A verification project for the LOCUS app: the React Native client in `mobile/src`
and the Node backend in `LocusBackend`. It has TLA+ modules translated from the
source, TLC configurations that check them on small instances, and TLAPS proofs of
the properties that matter most for instances of every size.

Paths below are relative to the repository's root. `PROJECT.json` maps every
definition to the lines it models and lists runs, findings, hazards and theorems.

## 1. The system

| component | state | operations | what makes it correct |
|---|---|---|---|
| API client, `mobile/src/api/client.ts` | `isRefreshing`, `failedQueue`, per request the `Authorization` header and `_retry` | request interceptor, refresh on 401, `processQueue`, `signout` event | one refresh at a time; each refresh token used once; every call returns |
| Auth store, `mobile/src/store/authStore.ts` | `isAuthenticated`, `isLoading`, `isInitialized`, `user` | `login`, `register`, `logout`, `loadUser`, listener of `signout` | signed in if and only if there is a session; a failed refresh signs out; the loader ends |
| Token storage, `mobile/src/utils/keychain.ts` | the native item, `fallbackTokens` | `getTokens`, `saveTokens`, `clearTokens` | reads see the last write; a clear clears; operations end |
| Root navigation | (derived from the store) | mounts loader, app or auth screens, calls `loadUser` | the screens match the session |
| Auth routes, `LocusBackend/server.js`, `middleware/auth.js` | `users`, `refresh_tokens` | register, login, me, refresh, logout, change-password | a live session can be refreshed; a used or expired token cannot |
| Community routes, `server.js` | `communities`, `community_members` | create, apply, lists | `member_count` agrees with the members; the owner is a member |
| List cache, `server.js` | `cache` | `getCached`, `setCache`, `GET /communities` | a page that is not full is the last; a new community gets listed |
| Profile, `EditProfileScreen.tsx` and `PUT /users/profile` | the form, the user's row | load, edit, save | a save changes what was edited and nothing else |
| Votes, notifications, properties, support routes | their tables | one SQL statement each | one vote per user |
| WebSocket hook | socket, timer, attempts | connect, reconnect with backoff, disconnect | one socket at a time, none after disconnect |
| Auth screens, biometric sign-in | navigation stack, form step, error, prompt | submit, fail, go back, prompt, unmount | one operation at a time; errors are seen; a prompt belongs to its screen |
| Map search, search box of the communities, theme | local state, a timer | a request or a read, then a `setState` | late answers do not replace newer state |
| Pagination hook | page, items | used by no screen | |
| Go backend, `backend/internal` | behind repository interfaces without an implementation | community and auth services | check-then-create is unique |

Interactions: every screen calls the API client; the client reads and writes the
keychain and emits `signout`; the store listens, and calls the client and the
keychain itself; the navigator mounts screens by the store's flags; the server is
reached by messages that can be lost, and stores its state by single SQL statements
that are never grouped in a transaction.

What is hard: JavaScript runs one continuation at a time, but every `await` is an
interleaving point, and calls, refreshes, sign-outs and keychain operations overlap
there. Time-outs do not cancel what they time out. Handlers of several statements
can be cut off between two of them. Answers are lost and come late. The hazards in
`PROJECT.json` name the lines.

## 2. Modules

**`ApiClient`** – the client, the store's session operations and the rows of
`refresh_tokens`, as one app sees them. One action per stretch of code between two
awaits. A call moves through
`idle → attach → sent → (done | queued | lead → refresh → rotated → save | fail)`;
`load`, `keep`, `verify` and `drop` are the keychain awaits of `loadUser`, `login`
and `register`. A token pair is the number of the response that issued it; `store`
is the pair `getTokens` returns, `rows` the pairs with a row on the server,
`expired` and `lapsed` the pairs whose access or refresh token ran out. `kind` is
all the model keeps of a request: a protected route, a change-password with a wrong
current password (answered 401 with a valid token), a login with the right or a
wrong password, a registration, `GET /auth/me`. Network errors, time-outs and lost
answers are `AnswerError` and `RefreshFails`; `RefreshHalfDone` is a refresh whose
`DELETE` worked and whose `INSERT` failed. `Restart` kills the app; a refresh it had
sent may still be taken by the server later (`LateRefresh`), which costs the old row and
gives a new one nobody hears of. The keychain
takes effect when its operation resumes: native calls run in order, so this is the
order of their effects on a keychain that works.

**`Keychain`** – `getTokens`, `saveTokens`, `clearTokens` and the race of each with
its timer. Native calls wait in `queue` and run or fail in that order, also after
their operation has timed out; the operation hears of it only if it still waits. The
native library is not part of the repository: that it runs the calls of one service
one after the other, and that a failed call changes nothing, is an assumption.

**`CommunityMembership`** – `POST /communities` and `POST /communities/:id/apply`,
one action per SQL statement. Statements fail, and the process restarts between two
of them.

**`AuthSessions`** – register, the legacy registration, login, refresh, logout and
change-password against `users` and `refresh_tokens`, one action per SQL statement,
for any number of apps. `ApiClient` sees the same rows through one app; here requests
of several apps overlap, answers are lost and handlers are cut off. A request issues
at most one token, so the token has the request's name; `session` is history.

**`TokenStore`, `KeychainStore`** – `TokenStore` is the abstract specification of
`keychain.ts`: one cell, operations served in the order of their calls. This is how
`ApiClient` uses the keychain. It promises nothing from the moment the native keychain
fails or is too slow until the next start of the app. `KeychainStore` states that
`Keychain` implements it; the refinement mapping forgets `fallbackTokens` and what each
waiting call will do, and `works` is the absence of trouble.

**`RefreshTokens`** – the abstract specification of the table `refresh_tokens`: tokens are
inserted once, a refresh gives out its token when the row of the old one is gone, and a
row that is gone does not come back. `AuthSessions` implements it statement by statement
(`ever` are the requests whose `INSERT` ran, `replaced` the tokens of refreshes that got
that far), and the server inside `ApiClient` takes only its steps (`ever` are the pairs
issued so far). The two modules thereby agree on one table; it is not shown that
`ApiClient` has every behaviour the server has.

**`ListCache`** – `GET /communities`: cache look-up, `COUNT`, `SELECT` with filter, `LIMIT`
and `OFFSET`, filling the cache. A key of the cache is an area (coordinates and radius, or
none), a page and a limit, and each page has an entry of its own. No community is deleted
or moved, so those of an area are numbered in the order of `created_at`, and a page is the
set of numbers that `Page` computes. Time is the age of the entries.

**`ProfileEdit`** – the screen's load, edits and save with the two routes. A form is one
opening of the screen, on any device; `puts` are requests the server may still apply,
those the client has given up included; `done` are the answers on their way. `fresh`
is history. The conversions are those of the code: a form shows null as an empty text and
the name split at its blanks and joined again (`Squeeze`), a body has the name trimmed and
an empty phone or bio as null, or as an empty text when a photo makes it multipart, and the
server trims. `Trim` and `Squeeze` are constants with the laws of `TextAssumption`; the
run computes with four texts. The code treats phone and bio alike, and the run has one of
them. First and last name are one field. The name of an uploaded file is a choice.

**`AuthScreens`** – `RootNavigator` with the auth navigator, the onboarding, login,
register and forgotten-password routes and the biometric sign-in. `isLoading` mounts the
loader, which unmounts the navigator with its stack and the screens' state: rendering is part
of every action that sets the store. A request only succeeds or fails here; `ApiClient`
has its inside. Which tokens are stored is left out: `loadUser` may end either way. One
assumption is about the operating system: its biometric prompt is modal, so no screen can
be used from the call of `authenticate()` to its result (`Usable`). `OneAtATime` and
`PromptBelongs` rest on it, since the sign-in begun by the button (`bio = "button"`) has no
`cancelled` check, and an unmount does not end it.

**`WebSocketHook`** – `useWebSocket`: `connect()` with its await, the handlers of every
socket alive, reconnect timers, app state changes, another community, unmount.
`latest` is the timer the ref names, `older` counts timers nothing can clear.

Composition: `KeychainStore` joins `Keychain` with `TokenStore`. `ApiClient` composes
client, store, token store and the server's rows; `RefreshTokens` is the interface it
shares with `AuthSessions`. The other modules meet it only in
what a request answers, and take that as a choice.

Each `MC` module gives the constants of its component values, and each `Proofs` module
holds the theorems about it. Operators named `X_Something` and commented "Variation"
are forms of `X` with a plausible bug. `PROJECT.json` lists which property each of them
breaks; no specification uses them.

## 3. Runs

| run | bounds | shows |
|---|---|---|
| `client_safety` | 3 calls, 3 pairs, 1 tapped sign-out, 1 restart | `SingleFlight`, `StoredSessionLive`, `RefreshSentWithLiveToken`, `OnePairPerCall`, and `SeesTokenTable`, the refinement of `RefreshTokens` |
| `client_liveness` | 3 calls, 2 pairs, 1 sign-out | `CallsSettle`, `LoaderEnds`, `FailedRefreshSignsOut` |
| `keychain` | 3 operations | `SaveSticks`, `WaitersAreQueued`, `ReadsLatestWrite`, `OperationsEnd`, and `KeychainIsStore`, the refinement of `TokenStore` |
| `membership` | 2 users, 2 communities, 4 requests | `LedgerBalances`, `CreatedHasOwner`, `AppliedIsMember`, `MembershipIsStable` |
| `auth` | 1 email, 2 passwords, 4 requests | `OneRowPerSession`, `PasswordAccountedFor`, `PasswordWasKnown`, and `KeepsTokenTable`, the refinement of `RefreshTokens` |
| `list_cache` | 2 requests, 2 keys (second page of everything, first page of an area), 2 communities, TTL 1 | `ShortPageIsLast`, `EventuallyListed` |
| `profile_edit` | 2 forms, 2 saves, 1 edited field per form, 4 texts (empty, blank, one and two blanks inside), 1 photo | `LoneSaveKeeps` |
| `auth_screens` | 2 `logout()` under way | `OneAtATime`, `PromptBelongs` |
| `websocket` | 3 sockets, load 3, `MAX_RECONNECTS` 5 as in the code | `ConnectedHasSocket`, `NoSilentStop`, `Recovers` |

All but `client_liveness` check the module's `TypeOK` too.

Why these bounds are enough to be interesting: three calls give a leader, a queued
call and a call that signs in, out or starts a second refresh; three pairs give a
session, its rotation, and another login or rotation on top. Three keychain operations
give a slow write, a later write or clear, and a read. Four requests give a creation
raced by two applications of the owner and one of another user. In `AuthSessions` one
email makes all requests meet, and four of them give an account, its session and two
overlapping changes or refreshes. Two list requests give a slow one whose entry
replaces a newer one; two communities fill a second page of one and half of a page of two.
Two saves by two forms give a request that is given up and the save that follows it, or
one of a form that is behind. Three sockets give a current one and
two forgotten ones. `MaxLoad`, `MaxSaves`, `MaxEdits`, `MaxRows`, `MaxLogouts`,
`MaxTokens` and `MaxRestarts` are bounds of the model; the code has none of them.

Where calls, operations and requests are used once, the models stop when they are used
up, and an unmounted hook or screen does nothing more: those configurations switch the
deadlock check off. That nobody waits for ever is stated as liveness instead.
`AuthScreens` and `ListCache` never stop and are checked for deadlock.

Fairness. `ApiClient!Fairness` is weak fairness of each call's answer (the axios
instance times out after 10 s, a registration after 20 s), of each continuation after
a keychain operation (`OperationsEnd` shows that they end if the native keychain
answers) and of `logout()`. The POST to `/auth/refresh` uses the global axios and
has no time-out: `WF(RefreshGoesOn)` is an assumption on the network stack, not a
promise of the code. The user, the clock, restarts and sign-ins get no fairness.
`Keychain!FairSpec`: timers fire, promises resume, and the native keychain runs its
calls sooner or later, in time or not.
`WebSocketHook!FairSpec`: promises resume, timers fire and the platform reports what
becomes of a socket that is not open; an open socket need not close. `ListCache!FairSpec`:
time passes and an answer that was made is sent; queries may take for ever. The other
modules assume no fairness.

### Runs that end in a violation

Each states what the QA checklist says, and TLC finds a behaviour of the code that
contradicts it.

* `calls_return` – a 401 that arrives while the interceptor's catch block awaits
  `clearTokens` is queued behind a refresh that is already over; the call never
  returns.
* `signed_out_no_tokens` – a refresh in flight during Sign Out saves its pair after
  the clear; the next launch is signed in.
* `wrong_password_shows_error` – a rejected login sets its error on a screen the loader
  has unmounted; the user is back at the splash screen.

### What the passing properties step around

The properties hold around behaviours of the code that a reader may not expect. The
models have all of them:

* `CallsSettle`, `LoaderEnds`: the stranded call of `calls_return`. When it is that of a
  login, a registration or `loadUser`, the loader stays up for good.
* `SaveSticks`: a `getTokens` that timed out resets the keychain, behind a save that
  worked in between; that reset has no timer of its own (`OperationsEnd` needs the
  native keychain to answer). A save that times out fills `fallbackTokens` after a clear,
  and an older item hides it: hence `TokenStore` promises nothing after trouble.
* `OneRowPerSession`: two overlapping refreshes of one token both get a new one.
* `PasswordWasKnown` says "has had", not "has": two overlapping changes with the same
  current password are both accepted.
* `PasswordAccountedFor` allows a registration whose answer was lost; a second try is told
  that the account exists. An account of the legacy route has no password and gets none.
* `EventuallyListed`, not at once: the cached page of before is answered for `CACHE_TTL`.
* `ShortPageIsLast` is about one answer. Two pages can be of different age and not fit
  together: who reads page after page up to a total may miss a row or see it twice.
* `LoneSaveKeeps` is about forms that are not behind the row: one that failed to load, or
  was loaded before another one was saved, overwrites what the user did not touch, and a
  request the client gave up may be applied after the one sent in its place. Fields the
  user left alone are kept as a form shows them, not to the letter: a save squeezes the
  blanks of a name, and makes a null of an empty text or the other way round.
* `NoSilentStop`, `Recovers`: five attempts in a row; and a `connect()` that awaits the
  keychain at the unmount opens a socket nothing closes.
* `ApiClient` has no property against two ways to lose a session: an error of
  `GET /auth/me` at start drops a good pair, and the `logout()` of a mistyped password may
  end the login that follows.

## 4. Proofs

All theorems are about specifications without fairness, hence safety, and hold for
every value of the constants under the named assumptions: bounds are naturals
(`ConstantsAssumption`, `CacheAssumption`, `ProfileAssumption`, `LogoutsAssumption`), users and requests are
finite (`FiniteAssumption`, for cardinalities), special values are distinct from the
others (`ValuesAssumption`, `AccountsAssumption`, `HookAssumption`), there is at
least one reconnect (`HookAssumption`), pages and limits are positive
(`CacheAssumption`), and trimming and squeezing blanks are idempotent, a squeezed text
being trimmed (`TextAssumption`).

* `ApiClientProofs!TypeCorrect`, `OneRefreshAtATime`. `SingleFlight` is inductive as
  it stands: the flag and the leader change in the same step.
* `ApiClientProofs!StoredSessionStaysLive`. Not inductive: a pair that is on its way
  into the keychain must be live too, and new pairs must be new. `SessionInv` adds
  `NumbersIssued` (no pair stored, used, held or orphaned beyond the last number issued) and
  `UnsavedPairsLive` (a pair held by a call that will store it has its row, is not
  stored yet, is used by no refresh, also none of a killed app, and held by no other such
  call).
* `ApiClientProofs!RefreshTokenUsedOnce`. From the two above: when a leader reads the
  tokens no other refresh is in progress, so the stored pair has its row.
* `ApiClientProofs!OnePairForOneCall`. `PairsInv` follows `_retry` through a call: who
  leads a refresh has the flag set and holds no pair yet, and a call without the flag has
  used no refresh token and, until it is answered, holds no pair.
* `ApiClientProofs!AppSeesTokenTable`. The refinement of `RefreshTokens`, from `PairsInv`
  and `NumbersIssued`: a rotation is one step of the table, a refresh that fails half-way,
  or is taken after the app was killed, a deletion.
* `KeychainProofs!TypeCorrect`, `SavedPairSticks`. `StickInv` says what waits behind
  the write of the last save: only reads, as long as no read has given up; the first
  write to run after that is the save itself. It needs `QueueOwned`: an operation not
  called yet has no call in the queue, and only saves write.
* `KeychainProofs!NobodyWaitsForNothing`. `WaitersAreQueued` is inductive with the types:
  the native call that is taken off the queue is heard by its operation, and the get of a
  `getTokens` that has timed out does not count as its reset.
* `CommunityMembershipProofs!TypeCorrect`, `LedgerAlwaysBalances`. `LedgerInv` adds
  `NothingEarly`: a community that does not exist has no members and no half-done
  request. Then each action adds one to, or removes one from, two of the four terms.
* `CommunityMembershipProofs!CreatedAlwaysHasOwner`, `AppliedIsAlwaysMember`. `RolesInv`
  relates the phase of every request to the rows: members only of communities that
  exist, the creator of a creation in progress is its `owner_id`, an answered request
  has its row with its role, and an owner row is that of `owner_id`.
  `MembershipAlwaysStable` is an action property: the inserts keep a row that is there.
* `KeychainProofs!KeychainImplementsStore`: `Spec` implements `TokenStore`. A step
  without trouble is matched with a step of the cell or a stutter, one that ends trouble
  can only be a restart. `SmoothInv` says that without trouble `fallbackTokens` is empty,
  no operation has failed or is resetting, and every call in the queue is the first call
  of an operation that waits for it, one each.
* `KeychainProofs!ReadsSeeWrites`. An action property about the return of a read, for
  which the expectation has to be carried through the queue. `ReadInv` says of every read
  in the queue that the write which governs it, the last one ahead of it or else the item,
  makes of the tokens what the read expects; the same of the next read to be called.
* `AuthSessionsProofs!TypeCorrect`, `SessionsDoNotMultiply`. `SessionInv`: a request that
  is going to insert a row has a claim on its session already, and shares it only with
  the row that it is about to delete.
* `AuthSessionsProofs!AccountsAreOpenedOnce`, `AcceptedPasswordsWereKnown`. `PasswordInv`:
  which phases a handler can be in, that an account in use was opened by a request,
  exactly once, and that every hash stored or read is the password of the registration
  or of a change that was accepted.
* `AuthSessionsProofs!RoutesKeepTokenTable`. The refinement of `RefreshTokens`. `TableInv`
  says what a handler may rely on after its `await`s: rows are of tokens that were inserted,
  the token of a refresh is one of them, and after the `DELETE` its row is gone for good,
  although sign-outs and other refreshes of the same token run in between.
* `AuthScreensProofs!TypeCorrect`, `OperationsKeptApart`, `PromptHasItsScreen`. `ScreenInv`
  lists the stacks the screens can build and says that the auth navigator is mounted exactly
  when the store's flags render it, which is why a form can be submitted only while no
  operation runs, and that a biometric sign-in has its `LoginScreen` on the stack.
* `WebSocketHookProofs!TypeCorrect` (with `reconnectAttempts <= MAX_RECONNECTS`),
  `ConnectedGoesWithSocket`, `HookKeepsTrying`. The two invariants are inductive with
  the types: each action that ends a socket, a timer or a `connect()` starts another,
  gives up, or is excused.
* `ListCacheProofs!TypeCorrect`, `ShortPagesAreLast`. `PagesInv` extends the property to
  what is on its way: the total counted before the `SELECT` is at most the rows of the
  area, and what fills the cache, or is in it, is a page that is full or reaches its total.
  It rests on `PageSize`: a page of `n` rows is full, empty behind the last row, or ends
  with it.
* `ProfileEditProofs!TypeCorrect`, `LoneSave`. The action property needs `InLine`: a form
  that is not behind shows the row as a fresh form would in every field the user left
  alone, and its requests carry what makes the row be shown like that again; and
  `WholeBodies`: a request has all fields, the avatar included.

Only model-checked: the liveness properties `CallsSettle`, `LoaderEnds`,
`FailedRefreshSignsOut`, `OperationsEnd`, `EventuallyListed` and `Recovers` (the prover has
no rules for fairness and `ENABLED` here). Every invariant, action property and refinement of the
passing runs has a theorem.

To repeat a run: `tlc -config ApiClient_safety.cfg MCApiClient`; a proof:
`tlapm ApiClientProofs.tla`.

## 5. Not modelled

* Votes, notifications, properties, rentals, transactions, support issues: each route is
  one SQL statement, and no other part depends on what it leaves behind.
* `usePagination`: no screen uses it, so nothing says what its page has to agree with.
* The Go backend: services over repository interfaces without implementation, schema or
  `main`. Whether its check-then-create is unique depends on constraints that are not in
  the repository.
* The search bar of the map, the search box of the communities screen and the theme
  preference: a value behind one timer or one promise. Their code applies whatever comes
  last and promises no order; the hazards name the lines.
* The other screens lay out what one request answers. Field validation, the
  development-only guest login and the form of the forgotten-password screen change
  nothing the modelled parts read. `forgot-password` and `reset-password` on the server
  answer without touching the database.
* Formatting and base URL helpers are pure functions on strings; `keychain.ts`'s biometric
  helpers are called by nothing.
* Layout, styles, logging, generated native projects, vendored pods, deployment scripts.

What could still be added: a mapping from the requests of `AuthSessions` to the pair
numbers of one app, to show that `ApiClient` has every behaviour of the routes; a proof
that it uses the keychain as `TokenStore` does, which needs the keychain's operations as
steps of their own in `ApiClient`.
