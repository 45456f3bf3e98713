# TLA+ models of the skale-admin dashboard

The repository's code under `src/` is the front end of the SKALE node
administration dashboard. It is a React 16 single-page app with a hash router
(`src/frontend/src/js`). The backend REST API it talks to is not in the
repository, so the models treat it as part of the environment.

## 1. The system

### Parts and how they interact

| Part | Code | State | Operations |
|---|---|---|---|
| Router | `App.js` (`<Switch>`), `index.js` (HashRouter) | the hash route | `history.push`, `<Link>`, the address bar |
| Polled list views | `Containers.js`, `SChains.js` | `loaded`, `containers`, `containersInfoTimer` | mount (fetch, then `setInterval` 6 s), tick, unmount (`clearInterval`), the fetch's `.then` and `.catch` |
| sChain cards | `SChain.js`, one per entry of SChains, `key={i}` | `collapseConfig`, `schainConfig` | `toggleConfig` (fetch `/schain-config`, flip the pane) |
| Dashboard | `Node.js` at `/` and `/node` | `loaded`, `nodeInstalled`, `nodeInfo`, timer | polls `/node-info` every 6 s; pushes `/create-user` on a 401 and `/welcome` unless status is 2 |
| Installing page | `InstallingNode.js` | timer | polls `/node-info` every 6 s; pushes `/node` at status 2 |
| Wallet | `LocalWallet.js` | `loading`, `skl`, `eth`, timer | polls `/load-wallet` every 3 s; pushes `/login` on errors; `installNode` pushes `/create-node` once the deposit is there |
| Create-node form | `CreateNode.js` | four field values, their `valid*`, `validating*` and error strings | async `checkName`/`checkIp` on blur, `checkPort`, `checkPublicIP`, `createNode` (push `/installing-node`, then POST) |
| Sign-in pages | `Login.js`, `CreateUser.js` | form fields, flash | POST `/login` or `/join`; push `/` on success |
| Account menu | `components/SkaleAccount.js` in the always-mounted Sidebar | `accountInfo`, timer | polls `/user-info` every 3 s; pushes `/create-user` when there are no users; logout |
| Auth-guarded pages | `Logs.js`, `SChainsPage.js`, `Security.js`, `About.js` | lists, timers | poll; push `/login` on `data.errors`; POST `/create-schain` |
| SLA bounty | `SlaBounty.js`, `SlaBountyList.js` | list, `_isMounted`, `sortDate` | 25 s poll; the Date header sorts the table |
| Certificate upload | `UploadCertificate.js` | file | push `/security`, then POST `/upload-certificate` |

Everything runs on the browser's single event loop, so there are no data races.
The concurrency is between callbacks:
- timer ticks;
- fetch answers, which arrive in any order;
- user clicks.

Three facts of the code decide most of the behaviour:
- **Nothing cancels a fetch on unmount.** A page's `componentWillUnmount` only clears its interval. When an unmounted page's fetch resolves:
  - React drops its `setState`;
  - its `this.props.history.push` still moves the router.
- **Pushes run synchronously.** `history.push` renders the new route inside the callback that calls it. The old page is unmounted and the new page is mounted (with its first fetch) before the callback's next statement runs.
- **The Switch keeps one Node for two routes.** `/` and `/node` both render `Node`, so moving between them keeps the same instance. The `/node` Route does not pass the router props, so `this.props.history` is undefined there.

### The hard behaviours

- Answers of overlapping polls applied in completion order.
- Late answers of unmounted pages that still redirect.
- Error envelopes with or without `data`.
- Two redirects in one callback.
- Transport failures that are only logged.
- Sessions that expire while a page polls.
- A create-node POST sent after the page has already moved on.
- Async field validation racing the submit click.
- An always-mounted poller (the account menu) whose redirects race the pages'.
- A POST sent after the push that leaves its page.
- Cards keyed by list index, which keep their state when the list changes.

### Properties per component

- **Polled views:**
  - the Snapshot promise of spec.md §3/§4.2:
    - `loaded` never reverts;
    - the data shown is a value of the current lifetime;
    - no update reaches an unmounted view;
  - eventual loading;
  - the newest answer wins (§8).
- **Dashboard:**
  - the Snapshot promise across route changes;
  - a 401 → exactly one sign-in redirect (§8).
- **All pages:** a redirect comes only from the mounted page (§2, §7).
- **Installing page:** it eventually hands over to `/node`.
- **Form:**
  - a submitted port and public IP have passed their checks;
  - a submitted node name and IP have passed theirs;
  - no field has two checks in flight.
- **Guarded pages and account menu:**
  - the data of a 401 envelope is never shown (§4.2);
  - a 401 to a mounted guarded page redirects to `/login` (§8);
  - the account menu eventually shows the user of an open session;
  - an uploaded certificate eventually shows on `/security`;
  - the sign-up form is shown only while no user exists;
  - the SLA table is in the order its header shows.

Some properties are stated in earlier versions of the modules and are no longer checked, because each finding has one violation run and the project keeps at most twelve runs:
- `Poller`'s "a loaded view always has a list to render";
- `Poller`'s "an open config pane shows the config of the sChain its card shows" (`key={i}` keeps a card's `schainConfig` when the list changes; TLC shows it in 10 steps);
- `NodePages`' "status 0 → `/welcome`";
- `CreateNodeForm`'s "the port range matches its message";
- the account menu's "logout ends the session";
- the account menu's "Logout is withdrawn once the session ends". It fails when a 401 to `/user-info` carries data, because `getUserInfo` stores any `data.data`. Whether that 401 carries data is up to the backend.

What they showed is recorded as hazards in `PROJECT.json`.

## 2. Modules

| Module | Models | Kind |
|---|---|---|
| `Snapshot.tla` | the promise of a polled view (spec.md §3, §4.2) | abstract specification |
| `Poller.tla` | `Containers.js` or `SChains.js` (constant `View`), with SChains' first `SChain` card | component, refines `Snapshot` |
| `NodePages.tla` | `App.js`'s Switch with `Node`, `InstallingNode`, `LocalWallet`, `CreateNode.createNode`, `Login`, `CreateUser`, `CreateLocalWallet`, `About` | composition, with `Node` refining `Snapshot` |
| `CreateNodeForm.tla` | `CreateNode.js` with `SkInput`: field checks, async validation, the submit guard | component |
| `GuardedPages.tla` | `Logs`, `SChainsPage`, `Security`, `About`, `SlaBounty`, the account menu (`SkaleAccount`), `Login.login`, `CreateUser.createUser`, `UploadCertificate` | composition |
| `MCPoller.tla`, `MCNodePages.tla`, `MCCreateNodeForm.tla`, `MCGuardedPages.tla` | constants for TLC | model-checking modules |

### Poller

A fetch is a slot holding a request:
- it is `pending` until the backend answers;
- it is then `answered`, carrying the version the backend held, until its `.then` runs.

The owner of a request is `"this"` (the last mounted instance) or `"earlier"` (an unmounted one). Only the last instance can be mounted, and the earlier ones differ in nothing the code reads.

| Action | Code |
|---|---|
| `componentDidMount` | the constructor's state, `checkContainersInfo`, and `setInterval` |
| `IntervalTick` | the timer |
| `componentWillUnmount` | `clearInterval` |
| `FetchThen(s)` | the `.then`, applied only to the mounted owner: `ContainersThen` stores `data.data` (`NoData` for an envelope without data), `SChainsThen` stores the list of an answer with data and throws on one without |
| `FetchCatch(s)` | `.catch` |
| `toggleConfig` | `SChain.toggleConfig`: `getSChainConfig` of the sChain listed first now, and flip `collapseConfig` |
| `ConfigThen(c)`, `ConfigCatch(c)` | `getSChainConfig`'s `.then` (`schainConfig: data.data`, undefined for an error envelope) and `.catch` |

The card at index 0 is up while the mounted SChains instance holds a list (`CardUp`). React keeps it across list updates, because the key is the index. A new SChains instance makes a new card, and the old card's config fetches lose their owner (`Disown`). `FirstChain[v]` names the sChain listed first at version `v`.

`BackendAnswer`, `BackendConfigAnswer` and `BackendChange` are the backend.

The refinement mapping sends the mounted instance's list version to `Snapshot`'s `data`. It sends the versions since mount to `seen`.

### NodePages

State:
- `route`;
- the requests in flight, each tagged with:
  - its page;
  - its owner;
  - whether its page had the router props when unmounted;
- Node's `[loaded, shown]`;
- LocalWallet's `[loaded, funded]`;
- the backend: node status 0/1/2, session, deposit;
- two bound counters.

`Navigate(rq, to, nd, wl)` is the router. The pages' `componentWillUnmount` and `componentDidMount` run inside it:
- it re-tags the old page's requests as `"earlier"`;
- it resets the new page's state;
- it issues a polling page's first fetch.

There is one action per callback:
- `NodeInfoThen`, `InstallingInfoThen`, `LoadWalletThen`, `LoginThen`, `CreateUserThen`, `CreateNodeThen`, each translating its `.then` statement by statement;
- the exceptions the code raises (reading `data.data` of a body without data, pushing with no `history`) end the callback as its `.catch` does.

User actions:
- `UserNavigate` covers the Sidebar, the in-page links and the address bar;
- `installNode`, `createNode`, `login` and `createUser` are the pages' buttons.

The backend's answers depend on its state:
- a 401 comes when the session has expired, with or without `data`, as the `ErrorCarriesData` constant allows;
- a 401 that carries data is assumed to carry the node's current status (`Envelope`). The backend is not in the repository. `NodeRefinement` and `InstallingHandsOver` rest on this assumption, and `NodePages_live.cfg` gives every 401 data;
- `/create-node` moves the status from 0 to 1 if the session is valid;
- `InstallDone` moves it from 1 to 2.

### CreateNodeForm

State: each field's text (`value`), its `valid*` flag (`"unset"` stands for `undefined`), whether its error string is set, `validating*` (which disables its input), the texts of its checks in flight (`pending`), the focused input, and the forms `createNode` has sent.

Data is abstracted to what the checks tell apart:
- a name is one of `""`, a free name and a taken name;
- an IP text is its dot-separated numbers: empty, free, taken, out of range (300) and too short;
- a port text is what `Number()` makes of it: empty, not a number, or 0, 1, 65534, 65535, 65536.

| Action | Code |
|---|---|
| `Focus(f)` | focusing an input that is not `disabled`; the focused one blurs (`onBlur` → its check) |
| `Leave` | clicking elsewhere, or the mousedown of the button, which blurs the focused input |
| `Type(f, v)` | `onChange` → `setNodeName`, `setNodeIp`, `setNodePublicIP`, `setNodePort` |
| `createNode` | the click on the button (enabled while no error string is set): returns unless all four `valid*` are true, else sends the form and leaves the page |
| `checkNameResumes`, `checkIpResumes` | the code after `await fetch(...)` in `checkName`/`checkIp`, in any order |
| `CheckFail(f)` | the awaited fetch rejects: the async check ends with `validating*` still set |

`checkName`, `checkIp`, `checkPort` and `checkPublicIP` are operators the blur calls; their synchronous part happens in the blur.

### GuardedPages

State:
- `route`;
- the requests in flight (`req`), each with its kind, owner (`"this"` or `"earlier"`), phase (`pending`, `answered`, or `failed` for logout's swallowed failure) and answer;
- the mounted page's state `page`: `data` (`none`, `ok`, or `err` for data taken from an error envelope), SChainsPage's `creating` and `snackbar`, and Security's `listed`;
- the account menu's `account` (`accountInfo` set or not) and `menu` (`genericMenuIsOpen`);
- the backend: `authed`, `users`, `uploaded`;
- two bound counters.

The constant `Pages` picks which guarded pages a run includes. The routes of the other pages exist, but their pages are idle here; `NodePages` models them.

| Action | Code |
|---|---|
| `PageTick` | the mounted page's `setInterval` (its first fetch is in `Navigate`) |
| `PageThen(s)` | the page's fetch callback. Logs, SChainsPage and Security push `/login` on `data.errors`, and the push's unmount drops the `setState` that follows. About tests `data.data.errors` and reads `local_wallet`. SlaBounty calls the undefined `constructErrorPath`. (`Applies` says which callbacks reach their `setState`.) |
| `createSchain`, `CreateSchainThen(s)`, `SnackbarHide` | SChainsPage's button, its POST's `.then`, the snackbar's timeout |
| `AccountTick`, `getUserInfoThen(s)` | SkaleAccount's 3 s poll; push `/create-user` on `no_users`, else store `data.data` |
| `MenuToggle`, `MenuClose`, `loginLink` | the account item's click toggling `genericMenuIsOpen`, the MenuSurface's `onClose`, and the open menu's Login link (shown without `accountInfo`) |
| `logout`, `logoutThen(s)` | the open menu's Logout button: GET `/logout`; the second `.then` closes the menu and pushes `/login`, also after a failure |
| `login`, `loginThen(s)` | Login's POST `/login`; push `/` unless errors |
| `createUser`, `joinThen(s)` | CreateUser's POST `/join`; push `/` unless errors |
| `uploadCertificate`, `uploadThen(s)` | push `/security`, then POST `/upload-certificate`; the `.then` only reads the text |
| `SortChange` | SlaBountyList's Date header `onSortChange` → `setState({sortDate})`. `Rows` is `render()`'s filter, `_.sortBy` (`sortBy`, a stable insertion sort) and `.reverse()`. |
| `UserNavigate(to)`, `FetchFail(s)` | links and address bar; a transport failure, which every chain only logs |
| `BackendAnswer(s)`, `SessionExpire` | the backend |

## 3. Runs

| Run | Cfg | Expect | What it shows |
|---|---|---|---|
| `poller_refines` | `Poller_refines.cfg` | pass | `SChains`, with its first card, implements `Snapshot` (`SnapshotRefinement`) and eventually loads (`EventuallyLoaded`). This holds through remounts, failed fetches and error envelopes, because `SChainsThen` drops an envelope without data (74 512 states). |
| `poller_order` | `Poller_order.cfg` | violation | `NoRegression` (`Containers`): a fetch issued before a backend change completes after a later fetch and puts the older list back. |
| `nodepages_refines` | `NodePages.cfg` | pass | `NodeRefinement`: the dashboard implements `Snapshot` through every route change, callback push, lost fetch and expired session; only the mounted instance's answers are applied (≈725 000 states). |
| `nodepages_live` | `NodePages_live.cfg` | pass | `InstallingHandsOver`: a user waiting on `/installing-node` while the node is being created is taken off the page. |
| `nodepages_stale` | `NodePages_stale.cfg` | violation | `RedirectOnlyByMountedView`: the user goes from `/` to `/local-wallet` while Node's first fetch is out. Its 401 answer then pushes `/create-user` and `/welcome` from the unmounted Node. |
| `nodepages_401` | `NodePages_401.cfg` | violation | `UnauthRedirectsToSignIn`, with 401s that carry data: at `/`, Node pushes `/create-user` and then `/welcome` (status ≠ 2), so the user lands on `/welcome`. The same property fails at `/node` (no `history`), and for a 401 without data (Node throws first); these cases are listed as hazards. |
| `createnodeform_pass` | `CreateNodeForm.cfg` | pass | `SyncFieldsChecked`: the port and public IP sent were accepted by their checks, since the button's blur sets their flags at once. `TypeOK` includes that no field has two checks in flight, which holds only because SkInput disables a validating input (239 156 states). |
| `createnodeform_race` | `CreateNodeForm_race.cfg` | violation | `AsyncFieldsChecked`: the user types a taken name over an accepted one and presses the button; the blur starts `checkName`, and `createNode` sends the taken name on the old `validNodeName`. |
| `guardedpages_pass` | `GuardedPages.cfg` | pass | `ErrorNeverShown`: Logs, SChainsPage, Security and SlaBounty never show the data of a 401 envelope, under any order of polls, navigation, logins, sign-ups, uploads, logouts and expiries. `SlaTableOrdered`: the SLA table lists each event of an answer once, in the order its Date header shows. The check runs for every answer of up to three events, against a reference ordering (110 739 states). |
| `guardedpages_live` | `GuardedPages_live.cfg` | pass | `AccountMenuShowsUser`: once a session is open, the account menu eventually shows the user, with 401s with or without data. `CertificateEventuallyListed`: an uploaded certificate eventually shows on `/security`, although Security's first fetch may overtake the upload (13 886 states). |
| `guardedpages_unauth` | `GuardedPages_unauth.cfg` | violation | `UnauthRedirectsToLogin`, with About the only page: About never redirects on a 401, because it tests `data.data.errors`. (SlaBounty's undefined `constructErrorPath` is caught by `ErrorNeverShown`'s mutant and listed as a hazard.) |
| `guardedpages_signup` | `GuardedPages_signup.cfg` | violation | `SignUpOnlyWithoutUsers`: a `/user-info` answer saying `no_users` is sent before `/join` creates the account and applied after it. It sends the new user back to `/create-user`. |

Each passing property has a mutant in `PROJECT.json`. It is a plausible bug in the mapped code, which TLC must catch:
- storing the whole body;
- applying an unmounted instance's answer;
- forgetting `setInterval`;
- re-enabling the commented-out push of `'/local-wallet/' + address`;
- InstallingNode using Node's `isNodeInstalled`;
- `checkPublicIP` keeping only its empty test;
- an input left enabled while its check is in flight;
- SlaBounty's `constructErrorPath` defined;
- the descending sort without `.reverse()`;
- the restored push of the error path;
- the account interval's arrow returning `this.getUserInfo` without calling it;
- Security without its `setInterval`.

## 4. Bounds

**Poller**
- 3 slots in the ordering run let the first fetch, two ticks and a request of an earlier instance overlap.
- The refinement run has 2 slots, enough for a request of an earlier instance to resolve while the new one polls. It adds error envelopes and the card. With 3 slots it takes 7.5 minutes (1.25 million states).
- Versions 0..2 are enough for one answer to overtake another across a change.
- The sChain listed first changes at version 1, so the card can outlive a change of the sChain it shows.
- One `/schain-config` slot lets a config fetch outlive a remount. A click while it is out loses its fetch, as a failing fetch would.

**NodePages**
- There are 2 slots. A fetch issued while both are in use is treated as failing at once, which is a behaviour the code really has.
- `MaxNav = 3` user actions reach every page of the flow, including:
  - `/` → `/create-node` → submit;
  - `/` → `/login` → submit;
  - `/` → `/local-wallet` → `installNode`;
  - leaving a page while its fetch is in flight.
- The liveness run uses `MaxNav = 2` to stay within a few minutes.
- `MaxExpiries = 1`: one session expiry is enough to reach every 401 path.
- The initial node status is any of 0..2, and the initial session either valid or not.

**CreateNodeForm**
- `MaxEdits = 5` typing steps are enough to fill all four fields and retype one, so a form can be accepted and then edited before the click.
- Three names and five IP texts cover each branch of `checkName` and `checkIp`; the port texts are the values on both sides of both bounds.

**GuardedPages**
- There are 2 slots, enough for a poll or `/user-info` to overlap a POST.
- `MaxNav = 3` reaches a page, a sign-in, and a leave while a fetch is out; for example `/add-certificate` → upload.
- `MaxExpiries = 1`.
- The pass run leaves out About, whose 401 handling the violation run checks.
- `SlaTableOrdered` quantifies over every answer of up to `MaxEvents = 3` events with two distinct dates. That covers equal dates (which test stability), out-of-order dates and the empty list. The header's three sort states are reached with one or two clicks.
- The liveness run uses Security and About (one redirecting page and one not), with `MaxNav = 2` and 401s with or without data.

## 5. Fairness

- **Timers and callbacks: weakly fair.** A browser keeps firing a set interval, and a settled promise's callbacks run.
- **Backend answers: strongly fair for each slot.** Any single fetch may fail, but a slot that keeps getting requests eventually gets one answered. This is the assumption that the backend stays reachable. In Poller the answer must also carry data (`AnsweredWithData`), since SChains drops error envelopes: with a backend that answers only errors, SChains stays loading for ever (a hazard in `PROJECT.json`).
- **Clicks on a card are not fair**, so nothing promises that an opened config pane fills.
- **An installation in progress finishes** (`InstallDone`, weakly fair).
- **Not fair:** user actions, session expiry and funding. Each is bounded.

In GuardedPages, the intervals (pages and account menu) are **strongly** fair. They fire whatever is in flight, and only the model's slot bound can disable them. The backend is strongly fair per slot, and also for a slot holding `/user-info` or the mounted page's poll. Without the latter, a slot could answer only the other kind for ever.

CreateNodeForm has no fairness: every step is the user's, and its properties are all safety.

Deadlock checking is off in the NodePages and CreateNodeForm runs. After `createNode` the form has left the page and nothing more happens on it. Once the user stops on a page without timers (for example `/welcome` or `/about`), the real app is idle, and that is not an error.

## 6. Not modelled, and the plan

`CreateNodeForm` does not model the POST's answer, which is NodePages' `CreateNodeThen`. A failed name or IP check leaves its input disabled for good; the model reaches that state (`CheckFail`), but no property states it, because no fairness would justify a liveness claim about the user's form.

`GuardedPages` does not model the account menu's push racing `NodePages`' redirects: the two modules share the router but are checked apart. Composing them would multiply two state spaces that each take seconds to minutes.

The double click on "Create test sChain" is modelled (`createSchain` has no guard on a request in flight), but no property states the progress bar.

`SlaBountyList` sorts with `_.sortBy` without importing lodash. This works only as a side effect of the build. `App.js` requires lodash. Under webpack's default AMD support, lodash then takes its AMD branch and assigns the global `_`. The model takes that global as present, as the repository's build makes it. The table's tooltips and `SlaBountyItem`'s collapse are not modelled; they only show or hide text.

Of the cards, only SChains' first `SChain` card and its config pane are modelled. The other cards behave the same, each under its own index. Left out:
- the stats collapse and the tooltips, which flip flags that nothing else reads;
- `Container.js` and `SChainPreview.js`, which hold only such flags;
- `NodeInfo.js`, which renders the two lists side by side with no state shared between them.

The remaining plan is to compose `GuardedPages`' account menu with `NodePages`' redirects.

`CreateLocalWallet.createWallet` is marked unused and nothing calls it.
`Security.createSchain` is a copy of SChainsPage's, and `Security.render` has no button that calls it.

What the models leave of the remaining code changes no state that any page's behaviour reads:
- the sign-in forms' field setters and flash messages, which are abstracted to the POST and its outcome;
- the `render` methods, which are most of the unmodelled lines.

Left out for good:
- **Rendering and presentational components:** they change no state.
- **The webpack configuration:** it is not run-time behaviour.
- **`LocalWallet.componentWillReceiveProps`:** it needs `App.state.skale`, which nothing sets since `Web3Connector` is commented out.
- **The backend:** it is environment, modelled only by what it may answer.
