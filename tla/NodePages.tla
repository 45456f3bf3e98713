------------------------------ MODULE NodePages ------------------------------
(***************************************************************************)
(* The pages of the node set-up flow and the hash router that switches    *)
(* between them (src/frontend/src/js/App.js, Node.js, InstallingNode.js,  *)
(* LocalWallet.js, CreateNode.js, Login.js, CreateUser.js).                *)
(*                                                                         *)
(* The Switch in App.js renders one page per route.  Moving to a route    *)
(* whose page is another component unmounts the old page and mounts the   *)
(* new one; "/" and "/node" both render Node, so moving between them keeps *)
(* the same Node instance.  history.push runs the route change            *)
(* synchronously, inside the callback that calls it.                      *)
(*                                                                         *)
(* Node, InstallingNode and LocalWallet poll (/node-info, /node-info,     *)
(* /load-wallet) as in Poller.tla; CreateNode, Login and CreateUser send  *)
(* one POST per submit.  A request remembers which page sent it and       *)
(* whether that instance is the mounted one ("this") or an unmounted one   *)
(* ("earlier").  An unmounted page's setState is dropped by React, but its *)
(* history.push still moves the router.                                    *)
(*                                                                         *)
(* The Route for "/node" renders Node without the router props, so there   *)
(* this.props.history is undefined and the first push throws a TypeError  *)
(* that the fetch's .catch logs.  A request records whether its page had  *)
(* the router props when it was unmounted (hist).                          *)
(***************************************************************************)
EXTENDS Naturals, Sequences, FiniteSets, TLC

CONSTANTS
  Slots,            \* requests that can be in flight at once (model bound)
  Free,             \* an unused slot
  Empty,            \* Node's view before its first answer
  ErrorCarriesData, \* whether a 401 envelope may carry data (subset of BOOLEAN)
  LossyRequests,    \* pages whose requests may fail in transport
  AuthedAtStart,    \* whether the browser may start with a session
  MaxExpiries,      \* sessions that may expire (model bound)
  MaxNav            \* user actions (model bound)

ASSUME ErrorCarriesData \subseteq BOOLEAN /\ ErrorCarriesData /= {}
ASSUME AuthedAtStart \subseteq BOOLEAN /\ AuthedAtStart /= {}
ASSUME MaxExpiries \in Nat /\ MaxNav \in Nat

Routes == {"/", "/node", "/welcome", "/local-wallet", "/create-node",
           "/installing-node", "/create-user", "/login", "/about"}

\* The component App.js's Switch renders for each route.
View ==    ("/" :> "Node") @@ ("/node" :> "Node")
        @@ ("/welcome" :> "CreateLocalWallet")
        @@ ("/local-wallet" :> "LocalWallet")
        @@ ("/create-node" :> "CreateNode")
        @@ ("/installing-node" :> "InstallingNode")
        @@ ("/create-user" :> "CreateUser") @@ ("/login" :> "Login")
        @@ ("/about" :> "About")

\* The page rendered at path r: a path no Route matches renders none.
Page(r) == IF r \in DOMAIN View THEN View[r] ELSE "None"

\* Only the "/node" Route leaves out {...props}: no history there.
HasHistory(r) == r /= "/node"

Pollers  == {"Node", "InstallingNode", "LocalWallet"}
Senders  == Pollers \cup {"CreateNode", "Login", "CreateUser"}
Statuses == 0..2          \* node status: none, being created, installed
Owners   == {"this", "earlier"}

\* What the body of an answer carries: whether it has data.data, the node
\* status or the wallet's deposit it reports there, a 401 in data.errors,
\* and for a POST whether the backend accepted it.
Answers  == [hasData : BOOLEAN, status : Statuses, funded : BOOLEAN,
             unauth : BOOLEAN, ok : BOOLEAN]
NoAnswer == [hasData |-> FALSE, status |-> 0, funded |-> FALSE,
             unauth |-> FALSE, ok |-> FALSE]

Request == [kind : Senders, owner : Owners, hist : BOOLEAN,
            phase : {"pending", "answered"}, ans : Answers]

VARIABLES
  route,        \* the hash route
  req,          \* req[s]: the request in slot s, or Free
  node,         \* Node's state: [loaded, shown] (shown: the status applied)
  nodeMountStatus, \* history: status when the Node instance mounted
  wallet,       \* LocalWallet's state: [loaded, funded] (loading = ~loaded)
  status,       \* backend: the node's status
  authed,       \* backend: the browser's session is valid
  funded,       \* backend: the wallet holds the deposit
  expiries,     \* sessions expired so far
  navs          \* user actions so far

vars == <<route, req, node, nodeMountStatus, wallet, status, authed, funded,
          expiries, navs>>

TypeOK ==
  /\ route \in Routes
  /\ req \in [Slots -> Request \cup {Free}]
  /\ node \in [loaded : BOOLEAN, shown : Statuses \cup {Empty}]
  /\ nodeMountStatus \in Statuses
  /\ wallet \in [loaded : BOOLEAN, funded : BOOLEAN]
  /\ status \in Statuses
  /\ authed \in BOOLEAN /\ funded \in BOOLEAN
  /\ expiries \in 0..MaxExpiries /\ navs \in 0..MaxNav

NodeInit   == [loaded |-> FALSE, shown |-> Empty]   \* Node constructor
WalletInit == [loaded |-> FALSE, funded |-> FALSE]  \* LocalWallet constructor

FreeIn(rq) == {s \in Slots : rq[s] = Free}

\* fetch(...) from page k, added to the requests rq.  With every slot in
\* use the fetch is taken to fail at once (model bound).
Issue(rq, k) ==
  IF FreeIn(rq) = {} THEN rq
  ELSE LET s == CHOOSE x \in FreeIn(rq) : TRUE
       IN [rq EXCEPT ![s] = [kind |-> k, owner |-> "this", hist |-> TRUE,
                             phase |-> "pending", ans |-> NoAnswer]]

Release(s) == [req EXCEPT ![s] = Free]

\* The page at the current route is replaced by the one at `to`: the
\* requests of the old instance now belong to an unmounted one.
Unmounted(rq, to) ==
  IF Page(route) = Page(to) THEN rq
  ELSE [s \in Slots |->
          IF rq[s] /= Free /\ rq[s].kind = Page(route) /\ rq[s].owner = "this"
            THEN [rq[s] EXCEPT !.owner = "earlier", !.hist = HasHistory(route)]
            ELSE rq[s]]

(* history.push(to) (or a Link): the router renders the page of `to`.     *)
(* A newly mounted page runs its constructor and componentDidMount; a     *)
(* polling page fetches at once (initNodeInfoChecker, initBalanceChecker). *)
(* nd and wl are the pages' states just before the push.                   *)
Navigate(rq, to, nd, wl) ==
  LET fresh == Page(route) /= Page(to)
      rq2   == Unmounted(rq, to)
  IN /\ route' = to
     /\ req' = IF fresh /\ Page(to) \in Pollers THEN Issue(rq2, Page(to)) ELSE rq2
     /\ node' = IF fresh /\ Page(to) = "Node" THEN NodeInit ELSE nd
     /\ nodeMountStatus' = IF fresh /\ Page(to) = "Node" THEN status
                                                         ELSE nodeMountStatus
     /\ wallet' = IF fresh /\ Page(to) = "LocalWallet" THEN WalletInit ELSE wl

\* A callback that pushes nothing.
Stay(rq, nd, wl) == Navigate(rq, route, nd, wl)

\* The pushes a list of targets makes: with no history prop the first one
\* throws and ends the callback.
Pushed(targets, hist) == IF hist THEN targets ELSE <<>>
Target(p) == IF p = <<>> THEN route ELSE p[Len(p)]

Answered(s, k) == req[s] /= Free /\ req[s].kind = k /\ req[s].phase = "answered"

Init ==
  /\ route = "/"
  /\ req = Issue([s \in Slots |-> Free], "Node")
  /\ node = NodeInit
  /\ status \in Statuses
  /\ nodeMountStatus = status
  /\ wallet = WalletInit
  /\ authed \in AuthedAtStart
  /\ funded \in BOOLEAN
  /\ expiries = 0 /\ navs = 0

(***************************************************************************)
(* Timers                                                                  *)
(***************************************************************************)

(* The setInterval of the mounted polling page fires (6 s for Node and    *)
(* InstallingNode, 3 s for LocalWallet); clearInterval in                 *)
(* componentWillUnmount stops it with the page.                           *)
IntervalTick(k) ==
  /\ Page(route) = k
  /\ FreeIn(req) /= {}
  /\ req' = Issue(req, k)
  /\ UNCHANGED <<route, node, nodeMountStatus, wallet, status, authed, funded,
                 expiries, navs>>

(***************************************************************************)
(* Callbacks                                                               *)
(***************************************************************************)

\* Mutant: any mounted Node takes the answer, whichever instance sent it.
NodeInfoThenAnyInstance(s) ==
  LET r == req[s]  a == r.ans
      live == Page(route) = "Node"
      p == Pushed((IF a.unauth THEN <<"/create-user">> ELSE <<>>)
                  \o (IF a.status /= 2 THEN <<"/welcome">> ELSE <<>>),
                  IF r.owner = "this" THEN HasHistory(route) ELSE r.hist)
  IN /\ Answered(s, "Node")
     /\ IF ~a.hasData
          THEN Stay(Release(s), node, wallet)
          ELSE Navigate(Release(s), Target(p),
                        IF live THEN [loaded |-> TRUE, shown |-> a.status] ELSE node,
                        wallet)
     /\ UNCHANGED <<status, authed, funded, expiries, navs>>

(* Node.checkNodeInfo .then: setState {nodeInstalled, nodeInfo, loaded},  *)
(* then push('/create-user') on a 401, then push('/welcome') unless the   *)
(* status is 2.  isNodeInstalled reads data.data.status: with no data it  *)
(* throws before the setState, and the .catch logs.                       *)
NodeInfoThen(s) ==
  LET r == req[s]  a == r.ans
      live == r.owner = "this"
      hist == IF live THEN HasHistory(route) ELSE r.hist
      p == Pushed((IF a.unauth THEN <<"/create-user">> ELSE <<>>)
                  \o (IF a.status /= 2 THEN <<"/welcome">> ELSE <<>>), hist)
  IN /\ Answered(s, "Node")
     /\ IF ~a.hasData
          THEN Stay(Release(s), node, wallet)
          ELSE Navigate(Release(s), Target(p),
                        IF live THEN [loaded |-> TRUE, shown |-> a.status] ELSE node,
                        wallet)
     /\ UNCHANGED <<status, authed, funded, expiries, navs>>

\* Mutant: Node's isNodeInstalled (data.data.status) applied to data.data,
\* which never reads a status.
InstallingInfoThenNested(s) ==
  /\ Answered(s, "InstallingNode")
  /\ Navigate(Release(s), route, node, wallet)
  /\ UNCHANGED <<status, authed, funded, expiries, navs>>

(* InstallingNode.checkNodeInfo .then: push('/node') and return when      *)
(* data.data.status is 2; otherwise a setState nothing renders.  With no  *)
(* data, isNodeInstalled(data.data) throws.  A 401 is not looked at.      *)
InstallingInfoThen(s) ==
  LET a == req[s].ans
      p == IF a.hasData /\ a.status = 2 THEN <<"/node">> ELSE <<>>
  IN /\ Answered(s, "InstallingNode")
     /\ Navigate(Release(s), Target(p), node, wallet)
     /\ UNCHANGED <<status, authed, funded, expiries, navs>>

\* Mutant: after the setState the wallet page pushes '/local-wallet/' +
\* data.address (the line left commented out in loadWallet).
LoadWalletThenAddress(s) ==
  LET r == req[s]  a == r.ans
      live == r.owner = "this"
      applied == live /\ ~a.unauth /\ a.hasData
      p == IF a.unauth THEN <<"/login">>
           ELSE IF applied THEN <<"/local-wallet/address">> ELSE <<>>
  IN /\ Answered(s, "LocalWallet")
     /\ Navigate(Release(s), Target(p), node,
                 IF applied THEN [loaded |-> TRUE, funded |-> a.funded]
                            ELSE wallet)
     /\ UNCHANGED <<status, authed, funded, expiries, navs>>

(* LocalWallet.loadWallet second .then: push(LOGIN_PATH) if data.errors,  *)
(* then setState of the balances from data.data, which throws when there  *)
(* is no data and is dropped once the push has unmounted the page.        *)
LoadWalletThen(s) ==
  LET r == req[s]  a == r.ans
      live == r.owner = "this"
      p == IF a.unauth THEN <<"/login">> ELSE <<>>
      applied == live /\ ~a.unauth /\ a.hasData
  IN /\ Answered(s, "LocalWallet")
     /\ Navigate(Release(s), Target(p), node,
                 IF applied THEN [loaded |-> TRUE, funded |-> a.funded]
                            ELSE wallet)
     /\ UNCHANGED <<status, authed, funded, expiries, navs>>

(* Login.login .then: flash data.errors, or setMenuVisibility(false) and  *)
(* push(DASHBOARD_URL).  Both act on App, which is always mounted.        *)
LoginThen(s) ==
  LET p == IF req[s].ans.ok THEN <<"/">> ELSE <<>>
  IN /\ Answered(s, "Login")
     /\ Navigate(Release(s), Target(p), node, wallet)
     /\ UNCHANGED <<status, authed, funded, expiries, navs>>

(* CreateUser.createUser .then: flash data.errors or push(DASHBOARD_URL). *)
CreateUserThen(s) ==
  LET p == IF req[s].ans.ok THEN <<"/">> ELSE <<>>
  IN /\ Answered(s, "CreateUser")
     /\ Navigate(Release(s), Target(p), node, wallet)
     /\ UNCHANGED <<status, authed, funded, expiries, navs>>

(* CreateNode.createNode's fetch: response.text() is read and dropped.    *)
CreateNodeThen(s) ==
  /\ Answered(s, "CreateNode")
  /\ req' = Release(s)
  /\ UNCHANGED <<route, node, nodeMountStatus, wallet, status, authed, funded,
                 expiries, navs>>

(* A fetch rejects (network error) or its body is not JSON: the .catch or *)
(* the rejection handler logs it.  Whatever the page, nothing else moves. *)
FetchFail(s) ==
  /\ req[s] /= Free
  /\ req[s].phase = "pending" /\ req[s].kind \in LossyRequests
  /\ req' = Release(s)
  /\ UNCHANGED <<route, node, nodeMountStatus, wallet, status, authed, funded,
                 expiries, navs>>

(***************************************************************************)
(* User actions (not fair, at most MaxNav of them)                        *)
(***************************************************************************)

UserStep == navs < MaxNav /\ navs' = navs + 1

(* A Sidebar link, a Link of a page (NoLocalNode, CreateLocalWallet,      *)
(* Login, CreateUser) or the address bar takes the user to a route.       *)
UserNavigate(to) ==
  /\ UserStep
  /\ to /= route
  /\ Navigate(req, to, node, wallet)
  /\ UNCHANGED <<status, authed, funded, expiries>>

(* LocalWallet.installNode: the button is disabled until isEnoughDeposit. *)
installNode ==
  /\ UserStep
  /\ route = "/local-wallet" /\ wallet.loaded /\ wallet.funded
  /\ Navigate(req, "/create-node", node, wallet)
  /\ UNCHANGED <<status, authed, funded, expiries>>

(* CreateNode.createNode with every field valid (CreateNodeForm.tla):     *)
(* push('/installing-node') first, then POST /create-node.                *)
createNode ==
  /\ UserStep
  /\ route = "/create-node"
  /\ Navigate(Issue(req, "CreateNode"), "/installing-node", node, wallet)
  /\ UNCHANGED <<status, authed, funded, expiries>>

(* Login.login: POST /login.                                               *)
login ==
  /\ UserStep
  /\ route = "/login"
  /\ req' = Issue(req, "Login")
  /\ UNCHANGED <<route, node, nodeMountStatus, wallet, status, authed, funded,
                 expiries>>

(* CreateUser.createUser: POST /join.                                     *)
createUser ==
  /\ UserStep
  /\ route = "/create-user"
  /\ req' = Issue(req, "CreateUser")
  /\ UNCHANGED <<route, node, nodeMountStatus, wallet, status, authed, funded,
                 expiries>>

(***************************************************************************)
(* The backend (outside this repository)                                   *)
(***************************************************************************)

\* The envelope /node-info and /load-wallet answer with: the data when the
\* session is valid, else a 401 with or without the data.
Envelope(a) ==
  IF authed THEN {[a EXCEPT !.hasData = TRUE, !.ok = TRUE]}
  ELSE {[a EXCEPT !.hasData = c, !.unauth = TRUE] : c \in ErrorCarriesData}

\* What the backend may answer to a request of page k now.
Reply(k) ==
  CASE k \in {"Node", "InstallingNode"} -> Envelope([NoAnswer EXCEPT !.status = status])
    [] k = "LocalWallet"  -> Envelope([NoAnswer EXCEPT !.funded = funded])
    [] k = "CreateNode"   -> {[NoAnswer EXCEPT !.unauth = ~authed,
                                               !.ok = authed /\ status = 0]}
    [] k \in {"Login", "CreateUser"} -> {[NoAnswer EXCEPT !.ok = b] : b \in BOOLEAN}

(* The backend serves a pending request.  An accepted /login opens a      *)
(* session, an accepted /join may; an accepted /create-node starts the    *)
(* installation.                                                           *)
BackendAnswer(s) ==
  LET k == req[s].kind IN
  /\ req[s] /= Free /\ req[s].phase = "pending"
  /\ \E a \in Reply(k) :
       /\ req' = [req EXCEPT ![s].phase = "answered", ![s].ans = a]
       /\ status' = IF k = "CreateNode" /\ a.ok THEN 1 ELSE status
       /\ authed' \in CASE k = "Login" /\ a.ok      -> {TRUE}
                        [] k = "CreateUser" /\ a.ok -> {authed, TRUE}
                        [] OTHER                    -> {authed}
  /\ UNCHANGED <<route, node, nodeMountStatus, wallet, funded, expiries, navs>>

\* The node finishes installing.
InstallDone ==
  /\ status = 1 /\ status' = 2
  /\ UNCHANGED <<route, req, node, nodeMountStatus, wallet, authed, funded,
                 expiries, navs>>

\* The session expires on the backend.
SessionExpire ==
  /\ authed /\ expiries < MaxExpiries
  /\ authed' = FALSE /\ expiries' = expiries + 1
  /\ UNCHANGED <<route, req, node, nodeMountStatus, wallet, status, funded, navs>>

\* The wallet receives the deposit.
Fund ==
  /\ ~funded /\ funded' = TRUE
  /\ UNCHANGED <<route, req, node, nodeMountStatus, wallet, status, authed,
                 expiries, navs>>

Callback(s) ==
  \/ NodeInfoThen(s) \/ InstallingInfoThen(s) \/ LoadWalletThen(s)
  \/ LoginThen(s) \/ CreateUserThen(s) \/ CreateNodeThen(s)

Next ==
  \/ \E k \in Pollers : IntervalTick(k)
  \/ \E s \in Slots : Callback(s) \/ FetchFail(s) \/ BackendAnswer(s)
  \/ \E to \in Routes : UserNavigate(to)
  \/ installNode \/ createNode \/ login \/ createUser
  \/ InstallDone \/ SessionExpire \/ Fund

(***************************************************************************)
(* Fairness: timers fire and settled promises' callbacks run (weak); the  *)
(* backend eventually serves a slot that keeps receiving requests, though *)
(* any one may fail (strong); an installation in progress finishes.  The  *)
(* user, session expiry and funding are not fair.                          *)
(***************************************************************************)
Fairness ==
  /\ \A k \in Pollers : WF_vars(IntervalTick(k))
  /\ \A s \in Slots : SF_vars(BackendAnswer(s)) /\ WF_vars(Callback(s))
  /\ WF_vars(InstallDone)

Spec == Init /\ [][Next]_vars /\ Fairness

(***************************************************************************)
(* Properties                                                              *)
(***************************************************************************)

(* Refinement: the dashboard's Node view implements the Snapshot promise  *)
(* (spec.md 3, 4.2) across the router: Node keeps one instance between   *)
(* "/" and "/node", is torn down by its own pushes and by the user, and   *)
(* shows only a status the node had since that instance mounted.  It     *)
(* rests on NodeInfoThen applying only the mounted instance's answers.    *)
NodeSnapshot == INSTANCE Snapshot WITH
                  MaxVersion <- 2,
                  alive <- Page(route) = "Node",
                  loaded <- Page(route) = "Node" /\ node.loaded,
                  data <- IF Page(route) = "Node" THEN node.shown ELSE Empty,
                  source <- status, seen <- nodeMountStatus..status

NodeRefinement == NodeSnapshot!Spec

(* Liveness: once the node is being created, a user who waits on          *)
(* /installing-node is taken off it (InstallingNode pushes '/node' when   *)
(* /node-info reports status 2).                                          *)
InstallingHandsOver ==
  \A n \in 0..MaxNav :
    (route = "/installing-node" /\ status >= 1 /\ navs = n)
      ~> (route /= "/installing-node" \/ navs /= n)

\* The request in slot s, sent by page k, is answered and its page mounted.
LiveAnswer(s, k) == Answered(s, k) /\ req[s].owner = "this"

(* The Navigator "redirects the active view" (spec.md 2, 4.3, 7): a fetch *)
(* callback moves the router only if its page is still mounted.  The     *)
(* callbacks of Node, InstallingNode, LocalWallet, Login and CreateUser   *)
(* push through this.props.history whether or not the page is mounted.    *)
RedirectOnlyByMountedView ==
  [][\A s \in Slots :
       (req[s] /= Free /\ req[s].owner = "earlier" /\ Callback(s))
         => route' = route]_vars

(* spec.md 8 and 6: a 401 answer makes exactly one redirect, to /login or *)
(* /create-user.  Node pushes '/create-user' and then '/welcome' unless   *)
(* the status is 2, pushes nothing at "/node" or when the envelope has no *)
(* data; InstallingNode does not look at the 401.                          *)
UnauthRedirectsToSignIn ==
  [][\A s \in Slots :
       (/\ \E k \in Pollers : LiveAnswer(s, k)
        /\ req[s].ans.unauth /\ Callback(s))
         => route' \in {"/create-user", "/login"}]_vars

=============================================================================
