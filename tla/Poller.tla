------------------------------- MODULE Poller -------------------------------
(***************************************************************************)
(* The polling loop every page of the dashboard repeats, as written in     *)
(* src/frontend/src/js/Containers.js and SChains.js (View says which).     *)
(* The two differ only in the .then: SChains reads data.data's fields and *)
(* so throws on an envelope without data, where Containers stores it.     *)
(* SChains renders one SChain card per list entry (key={i}); the card at  *)
(* index 0 is modelled with its config pane (SChain.js toggleConfig).     *)
(*                                                                         *)
(* componentDidMount fetches at once and starts a 6 s setInterval that    *)
(* fetches again; componentWillUnmount clears the interval.  Every fetch  *)
(* resolves on its own: its .then sets {containers: data.data, loaded:     *)
(* true} on the component that issued it, its .catch only logs.  Nothing *)
(* orders the answers, nothing aborts a fetch on unmount, and React drops *)
(* a setState on an unmounted component.                                   *)
(*                                                                         *)
(* A fetch is a slot holding a request: "pending" until the backend       *)
(* answers it, "answered" (carrying what the backend said then) until its  *)
(* callback runs.  A request's owner is "this", the instance mounted last, *)
(* or "earlier", an instance already unmounted: only the last instance    *)
(* can be mounted, and the earlier ones differ in nothing the code reads.  *)
(***************************************************************************)
EXTENDS Naturals, FiniteSets

CONSTANTS
  View,         \* "Containers" or "SChains"
  FirstChain,   \* FirstChain[v]: the sChain listed first at version v
  CfgSlots,     \* /schain-config fetches that can be in flight at once
  None,         \* the card's schainConfig before any answer (undefined)
  Slots,        \* fetches that can be in flight at once (model bound)
  MaxVersion,   \* newest version of the polled resource (model bound)
  Outcomes,     \* what the backend may answer: "ok" (data) or "error"
  Free,         \* an unused slot
  Empty,        \* the constructor's containers: []
  NoData        \* data.data of an error envelope that carries no data

ASSUME Outcomes \subseteq {"ok", "error"} /\ "ok" \in Outcomes
ASSUME MaxVersion \in Nat
ASSUME View \in {"Containers", "SChains"}

Versions == 0..MaxVersion
Lists    == [ver : Versions]   \* the list the backend returned at a version
Owners   == {"this", "earlier"}
Chains   == {FirstChain[v] : v \in Versions}

Request == [owner : Owners, phase : {"pending"},  outcome : {"none"},  ver : Versions]
      \cup [owner : Owners, phase : {"answered"}, outcome : Outcomes, ver : Versions]

\* A /schain-config fetch of one sChain's config, owned by a card instance.
CfgRequest ==
       [owner : Owners, phase : {"pending"},  outcome : {"none"},  chain : Chains]
  \cup [owner : Owners, phase : {"answered"}, outcome : Outcomes, chain : Chains]

VARIABLES
  mounted,      \* the last instance is mounted
  interval,     \* its setInterval is live
  loaded,       \* this.state.loaded of the last instance
  containers,   \* this.state.containers of the last instance
  req,          \* req[s]: the fetch in slot s, or Free
  server,       \* version of the resource the backend holds now
  mountVer,     \* history: server when the last instance mounted
  card,         \* state of the SChain card at index 0 of the last instance
  cfgReq        \* cfgReq[c]: the /schain-config fetch in slot c, or Free

pollVars == <<mounted, interval, loaded, containers, req, server, mountVer>>
cardVars == <<card, cfgReq>>
vars == <<pollVars, cardVars>>

CardState == [collapseConfig : BOOLEAN, schainConfig : Chains \cup {None}]

TypeOK ==
  /\ mounted \in BOOLEAN
  /\ interval \in BOOLEAN
  /\ loaded \in BOOLEAN
  /\ containers \in Lists \cup {Empty, NoData}
  /\ req \in [Slots -> Request \cup {Free}]
  /\ server \in Versions
  /\ mountVer \in Versions
  /\ card \in CardState
  /\ cfgReq \in [CfgSlots -> CfgRequest \cup {Free}]

\* The SChain constructor's state.
CardInit == [collapseConfig |-> FALSE, schainConfig |-> None]

Init ==
  /\ mounted = FALSE
  /\ interval = FALSE
  /\ loaded = FALSE
  /\ containers = Empty
  /\ req = [s \in Slots |-> Free]
  /\ server = 0
  /\ mountVer = 0
  /\ card = CardInit
  /\ cfgReq = [c \in CfgSlots |-> Free]

FreeSlots == {s \in Slots : req[s] = Free}

(* checkContainersInfo(): fetch(url) put in flight among the requests rq.  *)
checkContainersInfo(rq) ==
  \E s \in FreeSlots :
    req' = [rq EXCEPT ![s] = [owner |-> "this", phase |-> "pending",
                              outcome |-> "none", ver |-> 0]]

\* The requests in flight once the last instance is replaced by a new one.
Disown(rq) == [s \in DOMAIN rq |-> IF rq[s] = Free THEN Free
                                   ELSE [rq[s] EXCEPT !.owner = "earlier"]]
Orphaned == Disown(req)

\* Mutant: the setInterval call is forgotten.
componentDidMountNoInterval ==
  /\ ~mounted
  /\ checkContainersInfo(Orphaned)
  /\ mounted' = TRUE
  /\ interval' = FALSE
  /\ loaded' = FALSE
  /\ containers' = Empty
  /\ mountVer' = server
  /\ card' = CardInit
  /\ cfgReq' = Disown(cfgReq)
  /\ UNCHANGED server

(* componentDidMount of a new instance: the constructor's state, one      *)
(* immediate fetch, and setInterval stored in this.state.  Its cards are  *)
(* new instances too, so the old cards' config fetches lose their owner.  *)
componentDidMount ==
  /\ ~mounted
  /\ checkContainersInfo(Orphaned)
  /\ mounted' = TRUE
  /\ interval' = TRUE
  /\ loaded' = FALSE
  /\ containers' = Empty
  /\ mountVer' = server
  /\ card' = CardInit
  /\ cfgReq' = Disown(cfgReq)
  /\ UNCHANGED server

(* The interval fires.                                                     *)
IntervalTick ==
  /\ interval
  /\ checkContainersInfo(req)
  /\ UNCHANGED <<mounted, interval, loaded, containers, server, mountVer, cardVars>>

(* componentWillUnmount: clearInterval(this.state.containersInfoTimer).   *)
(* Fetches in flight are left to resolve.                                  *)
componentWillUnmount ==
  /\ mounted
  /\ mounted' = FALSE
  /\ interval' = FALSE
  /\ UNCHANGED <<loaded, containers, req, server, mountVer, cardVars>>

(* Containers.js .then: setState({containers: data.data, loaded: true}),  *)
(* so an error envelope without data stores undefined.                     *)
ContainersThen(r) ==
  /\ containers' = IF r.outcome = "ok" THEN [ver |-> r.ver] ELSE NoData
  /\ loaded' = TRUE

\* Mutant: the list of an error envelope is stored (data.data || {} read).
SChainsThenStoresUndefined(r) ==
  /\ containers' = IF r.outcome = "ok" THEN [ver |-> r.ver] ELSE NoData
  /\ loaded' = TRUE

(* SChains.js .then: data.data['containers_stats'] throws a TypeError on  *)
(* an envelope without data before setState is called; .catch logs it.    *)
SChainsThen(r) ==
  IF r.outcome = "ok"
    THEN /\ containers' = [ver |-> r.ver]
         /\ loaded' = TRUE
    ELSE UNCHANGED <<loaded, containers>>

\* Mutant: answers of unmounted instances are applied too (a shared store).
FetchThenAnyOwner(s) ==
  LET r == req[s] IN
  /\ r /= Free
  /\ r.phase = "answered"
  /\ req' = [req EXCEPT ![s] = Free]
  /\ IF mounted
       THEN IF View = "Containers" THEN ContainersThen(r) ELSE SChainsThen(r)
       ELSE UNCHANGED <<loaded, containers>>
  /\ UNCHANGED <<mounted, interval, server, mountVer, cardVars>>

\* Mutant: the whole envelope is stored instead of data.data.
FetchThenWholeBody(s) ==
  LET r == req[s] IN
  /\ r /= Free
  /\ r.phase = "answered"
  /\ req' = [req EXCEPT ![s] = Free]
  /\ IF r.owner = "this" /\ mounted
       THEN /\ containers' = r
            /\ loaded' = TRUE
       ELSE UNCHANGED <<loaded, containers>>
  /\ UNCHANGED <<mounted, interval, server, mountVer, cardVars>>

(* The .then callbacks: the body arrived and parsed.  The setState        *)
(* reaches the component only if it is the mounted one; what it sets is   *)
(* View's.                                                                 *)
FetchThen(s) ==
  LET r == req[s] IN
  /\ r /= Free
  /\ r.phase = "answered"
  /\ req' = [req EXCEPT ![s] = Free]
  /\ IF r.owner = "this" /\ mounted
       THEN IF View = "Containers" THEN ContainersThen(r) ELSE SChainsThen(r)
       ELSE UNCHANGED <<loaded, containers>>
  /\ UNCHANGED <<mounted, interval, server, mountVer, cardVars>>

(* .catch: the request failed or the body was not JSON; only logged.      *)
FetchCatch(s) ==
  /\ req[s] /= Free
  /\ req[s].phase = "pending"
  /\ req' = [req EXCEPT ![s] = Free]
  /\ UNCHANGED <<mounted, interval, loaded, containers, server, mountVer, cardVars>>

(***************************************************************************)
(* The SChain card at index 0 (SChain.js).  SChains renders it with        *)
(* key={i}, so React keeps the same instance, and its state, across list   *)
(* updates whichever sChain is first now.  It is rendered while the       *)
(* mounted SChains instance holds a list.                                  *)
(***************************************************************************)
CardUp == View = "SChains" /\ mounted /\ containers \in Lists

(* getSChainConfig(name): fetch('/schain-config?schain-name=' + name).    *)
(* With every slot taken the fetch is counted as one that fails.          *)
getSChainConfig(name) ==
  IF \E c \in CfgSlots : cfgReq[c] = Free
    THEN \E c \in {d \in CfgSlots : cfgReq[d] = Free} :
           cfgReq' = [cfgReq EXCEPT ![c] = [owner |-> "this", phase |-> "pending",
                                            outcome |-> "none", chain |-> name]]
    ELSE UNCHANGED cfgReq

(* toggleConfig: fetches the config of the sChain the card shows now, on  *)
(* every click, and flips collapseConfig.                                  *)
toggleConfig ==
  /\ CardUp
  /\ getSChainConfig(FirstChain[containers.ver])
  /\ card' = [card EXCEPT !.collapseConfig = ~@]
  /\ UNCHANGED pollVars

(* getSChainConfig's .then: setState({schainConfig: data.data}), undefined *)
(* for an error envelope; dropped by React once the card is gone.          *)
ConfigThen(c) ==
  LET r == cfgReq[c] IN
  /\ r /= Free
  /\ r.phase = "answered"
  /\ cfgReq' = [cfgReq EXCEPT ![c] = Free]
  /\ IF r.owner = "this" /\ CardUp
       THEN card' = [card EXCEPT !.schainConfig =
                                   IF r.outcome = "ok" THEN r.chain ELSE None]
       ELSE UNCHANGED card
  /\ UNCHANGED pollVars

(* getSChainConfig's .catch: only logged.                                  *)
ConfigCatch(c) ==
  /\ cfgReq[c] /= Free
  /\ cfgReq[c].phase = "pending"
  /\ cfgReq' = [cfgReq EXCEPT ![c] = Free]
  /\ UNCHANGED <<pollVars, card>>

(***************************************************************************)
(* The backend (outside this repository).                                  *)
(***************************************************************************)

\* The backend answers a pending fetch with the version it holds now.
BackendAnswer(s) ==
  /\ req[s] /= Free
  /\ req[s].phase = "pending"
  /\ \E o \in Outcomes :
       req' = [req EXCEPT ![s] = [@ EXCEPT !.phase = "answered",
                                           !.outcome = o, !.ver = server]]
  /\ UNCHANGED <<mounted, interval, loaded, containers, server, mountVer, cardVars>>

\* The backend answers a pending /schain-config fetch.
BackendConfigAnswer(c) ==
  /\ cfgReq[c] /= Free
  /\ cfgReq[c].phase = "pending"
  /\ \E o \in Outcomes :
       cfgReq' = [cfgReq EXCEPT ![c] = [@ EXCEPT !.phase = "answered", !.outcome = o]]
  /\ UNCHANGED <<pollVars, card>>

\* The polled resource changes on the node.
BackendChange ==
  /\ server < MaxVersion
  /\ server' = server + 1
  /\ UNCHANGED <<mounted, interval, loaded, containers, req, mountVer, cardVars>>

Next ==
  \/ componentDidMount
  \/ componentWillUnmount
  \/ IntervalTick
  \/ \E s \in Slots : FetchThen(s) \/ FetchCatch(s) \/ BackendAnswer(s)
  \/ BackendChange
  \/ toggleConfig
  \/ \E c \in CfgSlots : ConfigThen(c) \/ ConfigCatch(c) \/ BackendConfigAnswer(c)

(***************************************************************************)
(* Fairness.  Browser timers keep firing while set, and callbacks of      *)
(* settled promises run, so ticks and callbacks are weakly fair.  The     *)
(* backend is assumed up, with the session valid: a slot that keeps       *)
(* getting pending fetches eventually gets one answered with data (strong *)
(* fairness, since a failure or an error envelope may end any one of      *)
(* them).  Mounting, unmounting and clicks on a card are the user's and   *)
(* are not fair.                                                           *)
(***************************************************************************)
\* The backend answers the fetch in slot s with data.
AnsweredWithData(s) == BackendAnswer(s) /\ req'[s].outcome = "ok"

Fairness ==
  /\ WF_vars(IntervalTick)
  /\ \A s \in Slots : SF_vars(AnsweredWithData(s)) /\ WF_vars(FetchThen(s))

Spec == Init /\ [][Next]_vars /\ Fairness

(***************************************************************************)
(* Properties                                                              *)
(***************************************************************************)

(* Refinement: the polling loop implements the Snapshot promise (spec.md  *)
(* 3, 4.2): loaded never reverts while mounted, the data shown is a value  *)
(* the resource had since this instance mounted, and no answer reaches an  *)
(* unmounted or a later instance.  It rests on FetchThen applying only     *)
(* the mounted instance's own answers (React drops the others).            *)
Abstract == INSTANCE Snapshot WITH
              alive <- mounted, loaded <- mounted /\ loaded,
              data <- IF ~mounted THEN Empty
                      ELSE IF containers \in Lists THEN containers.ver ELSE containers,
              source <- server, seen <- mountVer..server

SnapshotRefinement == Abstract!Spec

(* Liveness: a mounted view eventually leaves the loading bar, even when  *)
(* fetches fail, because the interval keeps fetching (Containers.js 32-39).*)
EventuallyLoaded == mounted ~> (loaded \/ ~mounted)

(* Ordering (spec.md 8: "renders the most recent list after each          *)
(* completed poll cycle"): while one instance stays mounted the version   *)
(* it shows never goes back.  FetchThen applies answers in completion     *)
(* order, whatever order they were issued in.                              *)
NoRegression ==
  [][ (/\ mounted /\ mounted'
       /\ containers \in Lists /\ containers' \in Lists)
      => containers'.ver >= containers.ver ]_vars

=============================================================================
