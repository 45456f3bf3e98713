---------------------------- MODULE GuardedPages ----------------------------
(***************************************************************************)
(* The auth-guarded pages of the dashboard and the account menu that is    *)
(* mounted beside them (src/frontend/src/js/Logs.js, SChainsPage.js,      *)
(* Security.js, About.js, SlaBounty.js, components/SkaleAccount.js and the *)
(* Login page's submit).                                                   *)
(*                                                                         *)
(* Each page polls one endpoint as Poller.tla does (an immediate fetch    *)
(* and a setInterval cleared on unmount) and reacts to the envelope        *)
(* {data, errors} in its own way:                                          *)
(*   Logs, SChainsPage, Security: on data.errors push '/login', then       *)
(*     setState with data.data (dropped once the push has unmounted it);   *)
(*   About: tests resData.data.errors, never the envelope's errors, and    *)
(*     reads data.local_wallet, which throws when there is no data;        *)
(*   SlaBounty: on data.errors calls constructErrorPath, which that file   *)
(*     does not define, so the callback throws; otherwise it sets state    *)
(*     under its _isMounted flag.                                          *)
(* SkaleAccount lives in the Sidebar, which App renders on every route: it *)
(* polls /user-info every 3 s, pushes '/create-user' when data.no_users,   *)
(* and otherwise stores data.data as accountInfo; its menu shows Logout    *)
(* while accountInfo is set.  logout() GETs /logout and pushes '/login'    *)
(* in a second .then that also runs when the first one's rejection        *)
(* handler swallowed a transport failure.                                  *)
(*                                                                         *)
(* Routes not modelled here ("/", "/create-user") render pages whose      *)
(* behaviour NodePages.tla models; here they are pages without requests.  *)
(***************************************************************************)
EXTENDS Naturals, FiniteSets, Sequences, TLC
LOCAL INSTANCE SequencesExt

CONSTANTS
  Slots,            \* requests that can be in flight at once (model bound)
  Free,             \* an unused slot
  Pages,            \* the guarded pages present (subset of Guarded)
  ErrorCarriesData, \* whether a 401 envelope may carry data (subset of BOOLEAN)
  UsersAtStart,     \* whether a user account exists (subset of BOOLEAN)
  MaxExpiries,      \* sessions that may expire (model bound)
  MaxNav            \* user actions (model bound)

Guarded == {"Logs", "SChainsPage", "Security", "About", "SlaBounty"}

ASSUME Pages \subseteq Guarded
ASSUME ErrorCarriesData \subseteq BOOLEAN /\ ErrorCarriesData /= {}
ASSUME UsersAtStart \subseteq BOOLEAN /\ UsersAtStart /= {}
ASSUME MaxExpiries \in Nat /\ MaxNav \in Nat

\* App.js's Routes for the guarded pages.
PageRoute == ("Logs" :> "/logs") @@ ("SChainsPage" :> "/schains")
          @@ ("Security" :> "/security") @@ ("About" :> "/about")
          @@ ("SlaBounty" :> "/sla-bounty")

\* UploadCertificate pushes '/security' whether or not Security is modelled.
Routes == {PageRoute[p] : p \in Pages}
            \cup {"/", "/login", "/create-user", "/add-certificate", "/security"}

\* The pages of the other routes; "/" renders Node, whose requests
\* NodePages.tla models, and is "Other" here.
Plain == ("/login" :> "Login") @@ ("/create-user" :> "CreateUser")
      @@ ("/add-certificate" :> "UploadCertificate")

\* The component rendered at route r.
View(r) == IF \E p \in Pages : PageRoute[p] = r
             THEN CHOOSE p \in Pages : PageRoute[p] = r
             ELSE IF r \in DOMAIN Plain THEN Plain[r] ELSE "Other"

\* The pages whose callback tests data.errors and pushes '/login'.
Redirecting == {"Logs", "SChainsPage", "Security"}

\* Requests: a page's poll, the account menu's /user-info and /logout, the
\* Login page's POST /login, SChainsPage's POST /create-schain,
\* UploadCertificate's POST /upload-certificate and CreateUser's POST /join.
Kinds  == Guarded \cup {"UserInfo", "Logout", "Login", "CreateSchain", "Upload", "Join"}
Owners == {"this", "earlier"}

\* The parsed body: errors present, data.data present, data.no_users, and
\* whether /certificates-info lists the uploaded certificate.
Answers  == [errors : BOOLEAN, hasData : BOOLEAN, noUsers : BOOLEAN, listed : BOOLEAN]
NoAnswer == [errors |-> FALSE, hasData |-> FALSE, noUsers |-> FALSE, listed |-> FALSE]

\* "failed": a transport failure that a rejection handler turned into a
\* resolved promise (logout's first .then).
Request == [kind : Kinds, owner : Owners,
            phase : {"pending", "answered", "failed"}, ans : Answers]

\* What the mounted page's state holds: nothing yet, data of a good
\* answer, or data of an error envelope.
Shown == {"none", "ok", "err"}

\* SlaBountyList's sortDate: 1, -1, or 0 for null (reset's value).
SortDates == {1, -1, 0}

VARIABLES
  route,        \* the hash route
  req,          \* req[s]: the request in slot s, or Free
  page,         \* the mounted page's state: [data, creating, snackbar]
  account,      \* SkaleAccount's accountInfo: "user" or "none" (undefined)
  menu,         \* SkaleAccount's genericMenuIsOpen (undefined: closed)
  authed,       \* backend: the browser's session is valid
  users,        \* backend: a user account exists
  uploaded,     \* backend: the certificate has been uploaded
  expiries,     \* sessions expired so far
  navs          \* user actions so far

vars == <<route, req, page, account, menu, authed, users, uploaded, expiries, navs>>

TypeOK ==
  /\ route \in Routes
  /\ req \in [Slots -> Request \cup {Free}]
  /\ page \in [data : Shown, creating : BOOLEAN, snackbar : BOOLEAN, listed : BOOLEAN,
               sort : SortDates]
  /\ account \in {"user", "none"} /\ menu \in BOOLEAN
  /\ authed \in BOOLEAN /\ users \in BOOLEAN /\ uploaded \in BOOLEAN
  /\ expiries \in 0..MaxExpiries /\ navs \in 0..MaxNav

\* The constructors: loaded false, creatingSchain and snackbarIsOpen unset,
\* certificates [].
\* SlaBountyList's constructor: sortDate -1.
PageInit == [data |-> "none", creating |-> FALSE, snackbar |-> FALSE, listed |-> FALSE,
             sort |-> -1]

FreeIn(rq) == {s \in Slots : rq[s] = Free}

\* fetch(...) of kind k added to the requests rq.  With every slot in use
\* the fetch is taken to fail at once (model bound).
Issue(rq, k) ==
  IF FreeIn(rq) = {} THEN rq
  ELSE LET s == CHOOSE x \in FreeIn(rq) : TRUE
       IN [rq EXCEPT ![s] = [kind |-> k, owner |-> "this",
                             phase |-> "pending", ans |-> NoAnswer]]

Release(s) == [req EXCEPT ![s] = Free]

\* The requests of the page at the current route, once it is replaced by
\* the page at `to`, belong to an unmounted instance.  The account menu's
\* requests stay with the Sidebar.
Unmounted(rq, to) ==
  IF View(route) = View(to) THEN rq
  ELSE [s \in Slots |->
          IF rq[s] /= Free /\ rq[s].owner = "this"
             /\ rq[s].kind \in Guarded \cup {"Login", "CreateSchain"}
            THEN [rq[s] EXCEPT !.owner = "earlier"]
            ELSE rq[s]]

(* history.push(to) or a Link: the router unmounts the old page (its      *)
(* componentWillUnmount clears the interval) and mounts the new one, whose *)
(* componentDidMount fetches at once.  pg is the page state just before.   *)
Navigate(rq, to, pg) ==
  LET fresh == View(route) /= View(to)
      rq2   == Unmounted(rq, to)
  IN /\ route' = to
     /\ req' = IF fresh /\ View(to) \in Pages THEN Issue(rq2, View(to)) ELSE rq2
     /\ page' = IF fresh THEN PageInit ELSE pg

(***************************************************************************)
(* The guarded pages                                                       *)
(***************************************************************************)

\* Mutant: Security without its setInterval, fetching only on mount.
PageTickNoSecurityTimer ==
  /\ View(route) \in Pages \ {"Security"}
  /\ req' = Issue(req, View(route))
  /\ UNCHANGED <<route, page, account, menu, authed, users, uploaded, expiries, navs>>

\* The page's setInterval fires: getLogs, getSchains, getCertificates,
\* checkAbout or getLogsList.
PageTick ==
  /\ View(route) \in Pages
  /\ req' = Issue(req, View(route))
  /\ UNCHANGED <<route, page, account, menu, authed, users, uploaded, expiries, navs>>

\* Mutant: SlaBounty's constructErrorPath defined, so its callback goes on.
AppliesDefinedErrorPath(p, a) ==
  CASE p = "About"     -> a.hasData
    [] p = "SlaBounty" -> a.hasData
    [] OTHER           -> ~a.errors

(* Whether page p's callback reaches its setState on answer a.  About     *)
(* throws reading data.local_wallet when data.data is missing; SlaBounty   *)
(* throws in constructErrorPath on errors; the others reach it unless they *)
(* pushed '/login' first, which unmounted them.                            *)
Applies(p, a) ==
  CASE p = "About"     -> a.hasData
    [] p = "SlaBounty" -> ~a.errors
    [] OTHER           -> ~a.errors

\* Mutant: the commented-out push of constructErrorPath(...) restored.
PageThenErrorPath(s) ==
  LET r == req[s]
      a == r.ans
  IN /\ r /= Free /\ r.kind \in Guarded /\ r.phase = "answered"
     /\ IF r.kind \in Redirecting /\ a.errors
          THEN Navigate(Release(s), "/error", page)
          ELSE /\ req' = Release(s)
               /\ page' = IF r.owner = "this" /\ Applies(r.kind, a)
                            THEN [page EXCEPT !.data = IF a.errors THEN "err" ELSE "ok"]
                            ELSE page
               /\ UNCHANGED route
     /\ UNCHANGED <<account, menu, authed, users, uploaded, expiries, navs>>

(* The .then of page p's fetch.  The push goes out from any instance (all *)
(* these pages are wrapped in withRouter); the setState reaches only the   *)
(* mounted one (React drops it, and SlaBounty tests _isMounted).           *)
PageThen(s) ==
  LET r == req[s]
      a == r.ans
  IN /\ r /= Free /\ r.kind \in Guarded /\ r.phase = "answered"
     /\ IF r.kind \in Redirecting /\ a.errors
          THEN Navigate(Release(s), "/login", page)
          ELSE /\ req' = Release(s)
               /\ page' = IF r.owner = "this" /\ Applies(r.kind, a)
                            THEN [page EXCEPT !.data = IF a.errors THEN "err" ELSE "ok",
                                              !.listed = a.listed]
                            ELSE page
               /\ UNCHANGED route
     /\ UNCHANGED <<account, menu, authed, users, uploaded, expiries, navs>>

(* SChainsPage.createSchain, the button shown once the page has loaded:   *)
(* setState {creatingSchain: true} and POST /create-schain.  Nothing      *)
(* disables the button while a request is out.                             *)
createSchain ==
  /\ View(route) = "SChainsPage" /\ page.data /= "none"
  /\ navs < MaxNav /\ FreeIn(req) /= {}
  /\ req' = Issue(req, "CreateSchain")
  /\ page' = [page EXCEPT !.creating = TRUE]
  /\ navs' = navs + 1
  /\ UNCHANGED <<route, account, menu, authed, users, uploaded, expiries>>

(* Its .then: setState {sChainResult, snackbarIsOpen: !snackbarIsOpen,    *)
(* creatingSchain: false}, reaching only the mounted instance.             *)
CreateSchainThen(s) ==
  /\ req[s] /= Free /\ req[s].kind = "CreateSchain" /\ req[s].phase = "answered"
  /\ req' = Release(s)
  /\ page' = IF req[s].owner = "this"
               THEN [page EXCEPT !.creating = FALSE, !.snackbar = ~page.snackbar]
               ELSE page
  /\ UNCHANGED <<route, account, menu, authed, users, uploaded, expiries, navs>>

\* The Snackbar's timeout: onHide sets snackbarIsOpen false.
SnackbarHide ==
  /\ page.snackbar
  /\ page' = [page EXCEPT !.snackbar = FALSE]
  /\ UNCHANGED <<route, req, account, menu, authed, users, uploaded, expiries, navs>>

(***************************************************************************)
(* SlaBountyList, rendered by SlaBounty with its loaded and logs           *)
(***************************************************************************)

(* An event of /bounty-info as its position in data.data.events and its   *)
(* tx_dt.  The dates are ISO strings, which _.sortBy compares as strings,  *)
(* that is in date order; two dates stand for them.                        *)
MaxEvents == 3
EventSeqs ==
  UNION {{[i \in 1..n |-> [id |-> i, dt |-> d[i]]] : d \in [1..n -> {1, 2}]}
           : n \in 0..MaxEvents}

\* _.sortBy(items, 'tx_dt'): a stable sort, ascending.
RECURSIVE InsertByDate(_, _), sortBy(_)
InsertByDate(e, s) ==
  IF s = <<>> \/ e.dt <= Head(s).dt THEN <<e>> \o s
  ELSE <<Head(s)>> \o InsertByDate(e, Tail(s))
sortBy(s) == IF s = <<>> THEN <<>> ELSE InsertByDate(Head(s), sortBy(Tail(s)))

\* Mutant: the descending branch without .reverse().
RowsNoReverse(logs, sortDate) ==
  CASE sortDate = 1  -> sortBy(logs)
    [] sortDate = -1 -> sortBy(logs)
    [] OTHER         -> logs

(* render's rows for a loaded, non-empty list: filter by the search, whose *)
(* input is commented out, so it stays '' and every tx_dt contains it;     *)
(* then sort by tx_dt for sortDate 1, sort and reverse for -1, and keep    *)
(* the order otherwise.                                                    *)
Rows(logs, sortDate) ==
  CASE sortDate = 1  -> sortBy(logs)
    [] sortDate = -1 -> Reverse(sortBy(logs))
    [] OTHER         -> logs

(* The Date header's onSortChange: setState {sortDate} with the value the  *)
(* DataTableHeadCell passes (the library's next sort state, taken as any   *)
(* other one).  The header is rendered once the list has loaded.           *)
SortChange ==
  /\ View(route) = "SlaBounty" /\ page.data = "ok" /\ navs < MaxNav
  /\ \E v \in SortDates \ {page.sort} : page' = [page EXCEPT !.sort = v]
  /\ navs' = navs + 1
  /\ UNCHANGED <<route, req, account, menu, authed, users, uploaded, expiries>>

(***************************************************************************)
(* The account menu (SkaleAccount) and the Login page                      *)
(***************************************************************************)

\* Mutant: the interval's arrow returns this.getUserInfo without calling it.
AccountTickNoCall ==
  UNCHANGED <<route, req, page, account, menu, authed, users, uploaded, expiries, navs>>

\* SkaleAccount's 3 s interval: getUserInfo.
AccountTick ==
  /\ req' = Issue(req, "UserInfo")
  /\ UNCHANGED <<route, page, account, menu, authed, users, uploaded, expiries, navs>>

(* getUserInfo's second .then: with data.data.no_users push               *)
(* '/create-user', else setState {accountInfo: data.data}.                 *)
getUserInfoThen(s) ==
  LET a == req[s].ans IN
  /\ req[s] /= Free /\ req[s].kind = "UserInfo" /\ req[s].phase = "answered"
  /\ IF a.hasData /\ a.noUsers
       THEN /\ Navigate(Release(s), "/create-user", page)
            /\ UNCHANGED account
       ELSE /\ req' = Release(s)
            /\ account' = IF a.hasData THEN "user" ELSE "none"
            /\ UNCHANGED <<route, page>>
  /\ UNCHANGED <<menu, authed, users, uploaded, expiries, navs>>

(* A click on the Sidebar's account item toggles genericMenuIsOpen; the    *)
(* MenuSurface's onClose (a click outside it) closes it.                   *)
MenuToggle ==
  /\ navs < MaxNav
  /\ menu' = ~menu
  /\ navs' = navs + 1
  /\ UNCHANGED <<route, req, page, account, authed, users, uploaded, expiries>>

MenuClose ==
  /\ menu
  /\ menu' = FALSE
  /\ UNCHANGED <<route, req, page, account, authed, users, uploaded, expiries, navs>>

(* The open menu without accountInfo: "You're not logged in" and a Link to *)
(* '/login' whose onClick closes the menu.                                 *)
loginLink ==
  /\ menu /\ account = "none" /\ navs < MaxNav
  /\ Navigate(req, "/login", page)
  /\ menu' = FALSE
  /\ navs' = navs + 1
  /\ UNCHANGED <<account, authed, users, uploaded, expiries>>

\* The Logout button of the open menu, shown while accountInfo is set:
\* GET /logout.
logout ==
  /\ menu /\ account = "user" /\ navs < MaxNav /\ FreeIn(req) /= {}
  /\ req' = Issue(req, "Logout")
  /\ navs' = navs + 1
  /\ UNCHANGED <<route, page, account, menu, authed, users, uploaded, expiries>>

(* logout's second .then, after an answer or a swallowed failure:          *)
(* setState {genericMenuIsOpen: false} and push '/login'.                  *)
logoutThen(s) ==
  /\ req[s] /= Free /\ req[s].kind = "Logout" /\ req[s].phase \in {"answered", "failed"}
  /\ Navigate(Release(s), "/login", page)
  /\ menu' = FALSE
  /\ UNCHANGED <<account, authed, users, uploaded, expiries, navs>>

\* Login.login: POST /login with the form's credentials.
login ==
  /\ View(route) = "Login" /\ navs < MaxNav /\ FreeIn(req) /= {}
  /\ req' = Issue(req, "Login")
  /\ navs' = navs + 1
  /\ UNCHANGED <<route, page, account, menu, authed, users, uploaded, expiries>>

(* Its .then: data.errors only sets the flash messages; otherwise push    *)
(* '/' (from the instance that sent it, mounted or not).                   *)
loginThen(s) ==
  /\ req[s] /= Free /\ req[s].kind = "Login" /\ req[s].phase = "answered"
  /\ IF req[s].ans.errors THEN /\ req' = Release(s) /\ UNCHANGED <<route, page>>
                          ELSE Navigate(Release(s), "/", page)
  /\ UNCHANGED <<account, menu, authed, users, uploaded, expiries, navs>>

(***************************************************************************)
(* UploadCertificate and CreateUser                                        *)
(***************************************************************************)

(* UploadCertificate.uploadCertificate, the Upload button (never          *)
(* disabled): push '/security' first, then POST /upload-certificate.  The  *)
(* POST leaves from the unmounting instance; Security mounts and fetches   *)
(* /certificates-info before it.                                           *)
uploadCertificate ==
  /\ View(route) = "UploadCertificate" /\ navs < MaxNav /\ FreeIn(req) /= {}
  /\ LET rq == Issue(req, "Upload")
     IN  Navigate(rq, "/security", page)
  /\ navs' = navs + 1
  /\ UNCHANGED <<account, menu, authed, users, uploaded, expiries>>

(* Its .then returns response.text(), and the rejection handler logs: the *)
(* answer is read by nobody.                                               *)
uploadThen(s) ==
  /\ req[s] /= Free /\ req[s].kind = "Upload" /\ req[s].phase = "answered"
  /\ req' = Release(s)
  /\ UNCHANGED <<route, page, account, menu, authed, users, uploaded, expiries, navs>>

\* CreateUser.createUser: clear the flash messages and POST /join.
createUser ==
  /\ View(route) = "CreateUser" /\ navs < MaxNav /\ FreeIn(req) /= {}
  /\ req' = Issue(req, "Join")
  /\ navs' = navs + 1
  /\ UNCHANGED <<route, page, account, menu, authed, users, uploaded, expiries>>

(* Its .then: data.errors sets the flash messages; otherwise push '/'      *)
(* (DASHBOARD_URL), from the instance that sent it, mounted or not.        *)
joinThen(s) ==
  /\ req[s] /= Free /\ req[s].kind = "Join" /\ req[s].phase = "answered"
  /\ IF req[s].ans.errors THEN /\ req' = Release(s) /\ UNCHANGED <<route, page>>
                          ELSE Navigate(Release(s), "/", page)
  /\ UNCHANGED <<account, menu, authed, users, uploaded, expiries, navs>>

\* The Sidebar's links, the in-page links and the address bar.
UserNavigate(to) ==
  /\ navs < MaxNav /\ to /= route
  /\ Navigate(req, to, page)
  /\ navs' = navs + 1
  /\ UNCHANGED <<account, menu, authed, users, uploaded, expiries>>

(* A transport failure.  Every chain ends in a .catch or a rejection      *)
(* handler that only logs, except logout's, whose second .then still runs. *)
FetchFail(s) ==
  /\ req[s] /= Free /\ req[s].phase = "pending"
  /\ req' = IF req[s].kind = "Logout" THEN [req EXCEPT ![s].phase = "failed"]
                                      ELSE Release(s)
  /\ UNCHANGED <<route, page, account, menu, authed, users, uploaded, expiries, navs>>

(***************************************************************************)
(* The backend (outside this repository)                                   *)
(***************************************************************************)

\* The envelope of a request of kind k that needs a session: data (for
\* /certificates-info, the list, with the certificate once uploaded), or a
\* 401 in errors, with data when the backend includes it.
Envelope(k) ==
  IF authed
    THEN {[errors |-> FALSE, hasData |-> TRUE, noUsers |-> FALSE,
           listed |-> k = "Security" /\ uploaded]}
    ELSE {[errors |-> TRUE, hasData |-> d, noUsers |-> FALSE, listed |-> FALSE]
            : d \in ErrorCarriesData}

\* An answer without a session check: errors (bad credentials or token, or
\* an account that already exists) or success.
Outcome(e) == [errors |-> e, hasData |-> ~e, noUsers |-> FALSE, listed |-> FALSE]

Reply(k) ==
  CASE k = "UserInfo" -> IF ~users THEN {[NoAnswer EXCEPT !.hasData = TRUE, !.noUsers = TRUE]}
                                   ELSE Envelope(k)
    [] k = "Login"    -> {Outcome(e) : e \in BOOLEAN}
    [] k = "Join"     -> IF users THEN {Outcome(TRUE)} ELSE {Outcome(e) : e \in BOOLEAN}
    [] OTHER          -> Envelope(k)

(* The backend answers a pending request.  /login with good credentials   *)
(* opens a session, /logout ends it; /join creates the account (and may    *)
(* open a session); /upload-certificate stores the certificate.            *)
BackendAnswer(s) ==
  LET k == req[s].kind IN
  /\ req[s] /= Free /\ req[s].phase = "pending"
  /\ \E a \in Reply(k), joinOpens \in BOOLEAN :
       /\ req' = [req EXCEPT ![s].phase = "answered", ![s].ans = a]
       /\ authed' = CASE k = "Login" /\ users     -> authed \/ ~a.errors
                      [] k = "Logout"              -> FALSE
                      [] k = "Join" /\ ~a.errors   -> authed \/ joinOpens
                      [] OTHER                     -> authed
       /\ users' = (users \/ (k = "Join" /\ ~a.errors))
       /\ uploaded' = (uploaded \/ (k = "Upload" /\ ~a.errors))
  /\ UNCHANGED <<route, page, account, menu, expiries, navs>>

\* The session expires on the backend.
SessionExpire ==
  /\ authed /\ expiries < MaxExpiries
  /\ authed' = FALSE
  /\ expiries' = expiries + 1
  /\ UNCHANGED <<route, req, page, account, menu, users, uploaded, navs>>

Callback(s) ==
  \/ PageThen(s) \/ CreateSchainThen(s) \/ getUserInfoThen(s)
  \/ logoutThen(s) \/ loginThen(s) \/ uploadThen(s) \/ joinThen(s)

(* The app starts at '/' with the account menu's first /user-info out.    *)
Init ==
  /\ route = "/"
  /\ users \in UsersAtStart
  /\ authed \in {FALSE, users}
  /\ req = Issue([s \in Slots |-> Free], "UserInfo")
  /\ page = PageInit
  /\ account = "none" /\ menu = FALSE
  /\ uploaded = FALSE
  /\ expiries = 0 /\ navs = 0

Next ==
  \/ PageTick \/ AccountTick \/ SnackbarHide
  \/ createSchain \/ logout \/ login \/ uploadCertificate \/ createUser
  \/ MenuToggle \/ MenuClose \/ loginLink \/ SortChange
  \/ \E to \in Routes : UserNavigate(to)
  \/ \E s \in Slots : Callback(s) \/ FetchFail(s) \/ BackendAnswer(s)
  \/ SessionExpire

(***************************************************************************)
(* Fairness: intervals keep firing and settled promises' callbacks run;   *)
(* the backend is assumed reachable (strong fairness per slot, since any  *)
(* one fetch may fail).  The user, the snackbar's timer and expiry are not *)
(* fair; the snackbar plays no part in the liveness properties.  The      *)
(* intervals (the account menu's 3 s, the pages' 3-6 s) fire whatever     *)
(* else is in flight, so their ticks are strongly fair against the model's *)
(* slot bound, which alone can disable them.  A slot that                  *)
(* keeps holding pending requests gets one answered, and so does one that *)
(* keeps holding a pending /user-info or a poll of the mounted page.       *)
(***************************************************************************)
Fairness ==
  /\ SF_vars(PageTick) /\ SF_vars(AccountTick)
  /\ \A s \in Slots :
       /\ WF_vars(Callback(s))
       /\ SF_vars(BackendAnswer(s))
       /\ SF_vars(BackendAnswer(s) /\ req[s].kind = "UserInfo")
       /\ SF_vars(BackendAnswer(s) /\ req[s].kind = View(route))

Spec == Init /\ [][Next]_vars /\ Fairness

(***************************************************************************)
(* Properties                                                              *)
(***************************************************************************)

(* The SLA table lists each event of the answer once, in the order its     *)
(* Date header shows: by date ascending (1) or descending (-1), equal      *)
(* dates in the answer's order or its reverse, and as received otherwise.  *)
(* Checked for every answer of up to MaxEvents events, in every state      *)
(* where the table is on screen.                                           *)
\* Event x comes before event y by date, equal dates by position.
Earlier(x, y) == x.dt < y.dt \/ (x.dt = y.dt /\ x.id < y.id)

OrderedAs(rows, logs, dir) ==
  /\ Len(rows) = Len(logs) /\ ToSet(rows) = ToSet(logs)
  /\ \A i, j \in 1..Len(rows) : i < j =>
       CASE dir = 1  -> Earlier(rows[i], rows[j])
         [] dir = -1 -> Earlier(rows[j], rows[i])
         [] OTHER    -> rows[i].id < rows[j].id

SlaTableOrdered ==
  View(route) = "SlaBounty" /\ page.data = "ok" =>
    \A logs \in EventSeqs : OrderedAs(Rows(logs, page.sort), logs, page.sort)

\* The page mounted now, if it is a guarded one.
Mounted == View(route)

(* spec.md 4.2: a 401 envelope's data is never applied to the snapshot.   *)
(* Logs, SChainsPage and Security push '/login' before their setState,     *)
(* which the push's unmount drops; SlaBounty throws before it.  About      *)
(* stores the data of an error envelope as the page's content.             *)
ErrorNeverShown == Mounted \in Pages => page.data /= "err"

(* spec.md 8: a page that receives a 401 sends the user to sign in: a     *)
(* mounted guarded page's callback on an error envelope moves the route    *)
(* to '/login'.                                                            *)
UnauthRedirectsToLogin ==
  [][\A s \in Slots :
       (/\ req[s] /= Free /\ req[s].kind \in Pages /\ req[s].owner = "this"
        /\ req[s].ans.errors /\ PageThen(s)) => route' = "/login"]_vars

(* The account menu catches up with a session: once a session is open    *)
(* with a user on the backend, the menu eventually shows the user, though  *)
(* the first /user-info answer came before the login and the pages' polls  *)
(* and POSTs compete for the slots.  Only SkaleAccount's 3 s interval      *)
(* (SkaleAccount.js 35) fetches again.  Holds with 401s with or without    *)
(* data; the converse, Logout withdrawn after the session ends, does not   *)
(* hold for a 401 with data, since getUserInfo stores any data.data.       *)
AccountMenuShowsUser ==
  \A n \in 0..MaxNav :
    (authed /\ users /\ navs = n) ~> (account = "user" \/ ~authed \/ navs /= n)

(* An uploaded certificate eventually shows on the Security page.         *)
(* uploadCertificate pushes '/security' before it POSTs, so the fetch that *)
(* Security's componentDidMount sends can be answered before the upload is *)
(* stored; only the 6 s interval's next getCertificates lists it.  Holds   *)
(* while the session lasts and the user stays on the page.                 *)
CertificateEventuallyListed ==
  \A n \in 0..MaxNav :
    (uploaded /\ authed /\ View(route) = "Security" /\ navs = n)
      ~> (page.listed \/ ~authed \/ navs /= n)

(* SkaleAccount sends the browser to the sign-up form only while no user  *)
(* account exists: once /join has created one, no getUserInfo callback     *)
(* pushes '/create-user' (CreateUser's own .then pushes '/').              *)
SignUpOnlyWithoutUsers ==
  [][\A s \in Slots :
       (users /\ getUserInfoThen(s)) => (route' /= "/create-user" \/ route = "/create-user")]_vars

=============================================================================
