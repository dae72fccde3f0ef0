--------------------------- MODULE EndpointResolution ---------------------------
(***************************************************************************)
(* How the process finds its endpoints: the Resolver and its registry      *)
(* cache (endpoints/resolver.go), the probes (endpoints/probe.go), and     *)
(* resolveEndpoints (collector/collector.go), which hands the ranked lists *)
(* to the clients of three goroutines and lets the two scanners start.     *)
(*                                                                         *)
(* A probe's outcome is arbitrary at every cycle.  Ranking is by measured  *)
(* latency, so any healthy endpoint may come first, and a rotator's next   *)
(* candidate may be any other of its list (Rotator has the positions).     *)
(***************************************************************************)
EXTENDS Integers, Sequences

CONSTANTS
  RegistryREST, RegistryRPC,    \* endpoints the registry may advertise
  FallbackREST, FallbackRPC,    \* the compiled-in lists
  Pinned,                       \* what the operator gives as -rest or -rpc
  NoEndpoint,                   \* base() of an empty list
  registryTTL                   \* cycles a fetched list is reused for

ASSUME ResolutionAssumption ==
  /\ FallbackREST # {} /\ FallbackRPC # {}
  /\ NoEndpoint \notin UNION {RegistryREST, RegistryRPC, FallbackREST,
                              FallbackRPC, {Pinned}}
  /\ registryTTL \in Nat \ {0}

(* "rest" and "rpc" are the collector's own; "state" and "tx" belong to    *)
(* the redelegation scanner, "mrest" and "mrpc" to the managed one.        *)
Clients  == {"rest", "rpc", "state", "tx", "mrest", "mrpc"}
Scanners == {"redelegation", "managed"}
ClientsOf(s) == IF s = "redelegation" THEN {"state", "tx"} ELSE {"mrest", "mrpc"}

VARIABLES
  pinned,           \* the overrides in force, of "REST" and "RPC"
  cachedREST,
  cachedRPC,
  age,              \* cycles since cachedAt, up to registryTTL
  fetched,          \* the last usable registry entry, "none" before the first
  lookup,           \* this cycle's registry lookup: "none", "ok" or "failed"
  apis,             \* what candidates returned
  res,              \* what Resolve returned
  list, selected,   \* bases and current of each rotator
  ready,            \* scanners whose ready channel is closed
  running,          \* scanners that have passed their wait
  info,             \* the children of EndpointInfo, as <<protocol, url>>
  pc,               \* "idle", "fetch", "probe", "check", "apply"
  step              \* of Plan, the next one resolveEndpoints takes; or 0

cacheVars  == <<cachedREST, cachedRPC, age, fetched, lookup>>
clientVars == <<list, selected>>
vars == <<pinned, cacheVars, apis, res, clientVars, ready, running, info,
          pc, step>>

NoAPIs == [REST |-> {}, RPC |-> {}]

NoResolution ==
  [REST |-> {}, RPC |-> {}, TxSearch |-> {},
   first |-> [REST |-> NoEndpoint, RPC |-> NoEndpoint, TxSearch |-> NoEndpoint]]

Init ==
  /\ pinned \in SUBSET {"REST", "RPC"}
  /\ cachedREST = {}
  /\ cachedRPC = {}
  /\ age = 0
  /\ fetched = NoAPIs
  /\ lookup = "none"
  /\ apis = NoAPIs
  /\ res = NoResolution
  /\ list = [c \in Clients |-> {}]
  /\ selected = [c \in Clients |-> NoEndpoint]
  /\ ready = {}
  /\ running = {}
  /\ info = {}
  /\ pc = "idle"
  /\ step = 0

-----------------------------------------------------------------------------
(* candidates *)

Cached == [REST |-> cachedREST, RPC |-> cachedRPC]

haveCache == cachedREST # {} /\ cachedRPC # {}

\* The next snapshot begins, a cycle later; a young cache is used as it is.
Begin ==
  /\ pc = "idle"
  /\ age' = IF age < registryTTL THEN age + 1 ELSE age
  /\ lookup' = "none"
  /\ IF haveCache /\ age' < registryTTL
       THEN pc' = "probe" /\ apis' = Cached
       ELSE pc' = "fetch" /\ apis' = NoAPIs
  /\ UNCHANGED <<pinned, cachedREST, cachedRPC, fetched, res, clientVars,
                 ready, running, info, step>>

\* FetchChain and convert give endpoints of both kinds.
FetchAnswers ==
  /\ pc = "fetch"
  /\ cachedREST' \in (SUBSET RegistryREST) \ {{}}
  /\ cachedRPC' \in (SUBSET RegistryRPC) \ {{}}
  /\ apis' = [REST |-> cachedREST', RPC |-> cachedRPC']
  /\ fetched' = apis'
  /\ age' = 0
  /\ lookup' = "ok"
  /\ pc' = "probe"
  /\ UNCHANGED <<pinned, res, clientVars, ready, running, info, step>>

\* Mutant of StandIn: the compiled-in list whenever the registry is out.
AlwaysFallback == [REST |-> FallbackREST, RPC |-> FallbackRPC]

\* What candidates returns when the lookup gave nothing usable.
StandIn == IF haveCache THEN Cached
           ELSE [REST |-> FallbackREST, RPC |-> FallbackRPC]

\* The lookup fails, or the entry lacks usable endpoints of one kind.
FetchFails ==
  /\ pc = "fetch"
  /\ lookup' = "failed"
  /\ apis' = StandIn
  /\ pc' = "probe"
  /\ UNCHANGED <<pinned, cachedREST, cachedRPC, age, fetched, res,
                 clientVars, ready, running, info, step>>

-----------------------------------------------------------------------------
(* Resolve *)

\* The sets of endpoints of a kind that may come out healthy: a pinned one
\* counts as healthy without a probe.
Healthy(kind) == IF kind \in pinned THEN {{Pinned}} ELSE SUBSET apis[kind]

\* The endpoints that may rank first among the healthy ones.
Firsts(healthy) == IF healthy = {} THEN {NoEndpoint} ELSE healthy

\* The probes.  Transaction search is probed at healthy endpoints only, and
\* ranked by the same latencies.
Resolve ==
  /\ pc = "probe"
  /\ \E rest \in Healthy("REST"), rpc \in Healthy("RPC") :
     \E tx \in SUBSET rest, r \in Firsts(rest), c \in Firsts(rpc) :
     \E t \in IF r \in tx THEN {r} ELSE Firsts(tx) :
       res' = [REST |-> rest, RPC |-> rpc, TxSearch |-> tx,
               first |-> [REST |-> r, RPC |-> c, TxSearch |-> t]]
  /\ pc' = "check"
  /\ UNCHANGED <<pinned, cacheVars, apis, clientVars, ready, running,
                 info, step>>

-----------------------------------------------------------------------------
(* resolveEndpoints *)

Op(what, on) == [what |-> what, on |-> on]

\* Mutant of Plan: the scanners are released before they have endpoints.
PlanReadyFirst ==
  << Op("set", "rest"), Op("set", "rpc"),
     Op("close", "redelegation"), Op("close", "managed"),
     Op("set", "state"), Op("set", "tx"), Op("set", "mrest"), Op("set", "mrpc"),
     Op("reset", "info"),
     Op("publish", "rest"), Op("publish", "rpc"), Op("publish", "tx_search") >>

Plan ==
  << Op("set", "rest"), Op("set", "rpc"),
     Op("set", "state"), Op("set", "tx"), Op("close", "redelegation"),
     Op("set", "mrest"), Op("set", "mrpc"), Op("close", "managed"),
     Op("reset", "info"),
     Op("publish", "rest"), Op("publish", "rpc"), Op("publish", "tx_search") >>

\* Mutant of Usable: RPC endpoints are not insisted on.
UsableREST == res.REST # {}

Usable == res.REST # {} /\ res.RPC # {}

\* No healthy endpoint of one kind: nothing is set, and the cycle ends.
Reject ==
  /\ pc = "check"
  /\ ~Usable
  /\ pc' = "idle"
  /\ UNCHANGED <<pinned, cacheVars, apis, res, clientVars, ready, running,
                 info, step>>

Accept ==
  /\ pc = "check"
  /\ Usable
  /\ pc' = "apply"
  /\ step' = 1
  /\ UNCHANGED <<pinned, cacheVars, apis, res, clientVars, ready, running,
                 info>>

KindOf(c) == IF c = "tx" THEN "TxSearch"
             ELSE IF c \in {"rpc", "mrpc"} THEN "RPC" ELSE "REST"

Doing(what) == pc = "apply" /\ Plan[step].what = what

Done ==
  /\ IF step = Len(Plan) THEN step' = 0 /\ pc' = "idle"
                         ELSE step' = step + 1 /\ pc' = pc
  /\ UNCHANGED <<pinned, cacheVars, apis, res, running>>

\* Mutant of SetEndpoints: the rotator keeps its selection whatever the list.
SetKeepsAll ==
  /\ Doing("set")
  /\ LET c == Plan[step].on
     IN  /\ list' = [list EXCEPT ![c] = res[KindOf(c)]]
         /\ selected' = [selected EXCEPT
                           ![c] = IF @ # NoEndpoint THEN @
                                  ELSE res.first[KindOf(c)]]
  /\ Done /\ UNCHANGED <<ready, info>>

\* SetEndpoints: the rotator keeps its selection when it is still listed.
SetEndpoints ==
  /\ Doing("set")
  /\ LET c == Plan[step].on
     IN  /\ list' = [list EXCEPT ![c] = res[KindOf(c)]]
         /\ selected' = [selected EXCEPT
                           ![c] = IF @ \in res[KindOf(c)] THEN @
                                  ELSE res.first[KindOf(c)]]
  /\ Done /\ UNCHANGED <<ready, info>>

\* Mutant of CloseReady: the redelegation scanner waits for an index.
CloseReadyIndexed ==
  /\ Doing("close")
  /\ ready' = ready \cup {s \in {Plan[step].on} :
                             s = "redelegation" => list["tx"] # {}}
  /\ Done /\ UNCHANGED <<clientVars, info>>

\* The ready channel is closed, once.
CloseReady ==
  /\ Doing("close")
  /\ ready' = ready \cup {Plan[step].on}
  /\ Done /\ UNCHANGED <<clientVars, info>>

ResetInfo ==
  /\ Doing("reset")
  /\ info' = {}
  /\ Done /\ UNCHANGED <<clientVars, ready>>

\* The endpoint publishEndpoint is given for a protocol.
Shown(protocol) == IF protocol = "tx_search" THEN res.first["TxSearch"]
                                             ELSE selected[protocol]

PublishEndpoint ==
  /\ Doing("publish")
  /\ LET p == Plan[step].on
     IN  info' = info \cup {i \in {<<p, Shown(p)>>} : Shown(p) # NoEndpoint}
  /\ Done /\ UNCHANGED <<clientVars, ready>>

Collector ==
  \/ Begin \/ FetchAnswers \/ FetchFails \/ Resolve \/ Reject \/ Accept
  \/ SetEndpoints \/ CloseReady \/ ResetInfo \/ PublishEndpoint

-----------------------------------------------------------------------------
(* The scanners, and the rotation of every client *)

\* RunRedelegation and RunManagedDelegations pass their wait.
StartScanner(s) ==
  /\ s \in ready \ running
  /\ running' = running \cup {s}
  /\ UNCHANGED <<pinned, cacheVars, apis, res, clientVars, ready, info, pc,
                 step>>

InUse(c) == \/ c \in {"rest", "rpc"} /\ pc = "idle"
            \/ \E s \in running : c \in ClientsOf(s)

\* A request fails, and its rotator advances.
Rotate(c) ==
  /\ InUse(c)
  /\ \E e \in list[c] \ {selected[c]} : selected' = [selected EXCEPT ![c] = e]
  /\ UNCHANGED <<pinned, cacheVars, apis, res, list, ready, running, info,
                 pc, step>>

Next ==
  \/ Collector
  \/ \E s \in Scanners : StartScanner(s)
  \/ \E c \in Clients : Rotate(c)

\* Probes and lookups end by their timeouts, and Run's timer fires again.
Spec ==
  /\ Init /\ [][Next]_vars
  /\ WF_vars(Collector)
  /\ \A s \in Scanners : WF_vars(StartScanner(s))

-----------------------------------------------------------------------------
AllEndpoints == UNION {RegistryREST, RegistryRPC, FallbackREST, FallbackRPC,
                       {Pinned, NoEndpoint}}

TypeOK ==
  /\ pinned \subseteq {"REST", "RPC"}
  /\ UNION {cachedREST, apis.REST, res.REST, res.TxSearch} \subseteq AllEndpoints
  /\ UNION {cachedRPC, apis.RPC, res.RPC} \subseteq AllEndpoints
  /\ age \in 0..registryTTL
  /\ lookup \in {"none", "ok", "failed"}
  /\ list \in [Clients -> SUBSET AllEndpoints]
  /\ \A c \in Clients : selected[c] \in list[c] \cup {NoEndpoint}
  /\ running \subseteq ready /\ ready \subseteq Scanners
  /\ info \subseteq {"rest", "rpc", "tx_search"} \X AllEndpoints
  /\ pc \in {"idle", "fetch", "probe", "check", "apply"}
  /\ step \in 0..Len(Plan) /\ (step > 0 <=> pc = "apply")

(* A scanner that runs has endpoints for its state queries, whatever later *)
(* resolutions find; only the transaction search may be without any        *)
(* (RunRedelegation and RunManagedDelegations, the waits; resolveEndpoints,*)
(* its early returns).                                                     *)
ScannersHaveEndpoints ==
  \A s \in running : \A c \in ClientsOf(s) \ {"tx"} : selected[c] \in list[c]

(* The candidates are those of the last usable registry entry, the         *)
(* compiled-in list only while there has never been one, and an entry      *)
(* older than registryTTL only when the lookup of this very cycle failed   *)
(* (candidates, 63-65).                                                    *)
CandidatesAreTheLatest ==
  pc \in {"probe", "check"} =>
    /\ apis = IF fetched = NoAPIs THEN [REST |-> FallbackREST, RPC |-> FallbackRPC]
                                  ELSE fetched
    /\ age = registryTTL \/ fetched = NoAPIs => lookup = "failed"

(* Between two resolutions every client holds the lists of one and the     *)
(* same resolution: a resolution that fails half-way hands out nothing,    *)
(* and searches go to endpoints the state queries may use too.             *)
ListsAreOfOneResolution ==
  pc # "apply" =>
    /\ list["state"] = list["rest"] /\ list["mrest"] = list["rest"]
    /\ list["mrpc"] = list["rpc"]
    /\ list["tx"] \subseteq list["rest"]
    /\ list["rest"] = {} <=> list["rpc"] = {}

(* "a rotation does not leave the previous endpoint reporting as current   *)
(* alongside the new one" (collector.go, 764-765): one endpoint at most    *)
(* for each protocol, at every moment, and exactly one for REST and RPC    *)
(* between cycles once a resolution has succeeded.                         *)
OneEndpointPerProtocol ==
  /\ \A i, j \in info : i[1] = j[1] => i = j
  /\ pc = "idle" /\ list["rest"] # {} =>
       {"rest", "rpc"} \subseteq {i[1] : i \in info}

(* With -rest or -rpc pinned no other endpoint is ever asked on that side, *)
(* transaction searches included (Resolver.Resolve, overrides).            *)
PinIsKept ==
  \A c \in Clients :
    (IF KindOf(c) = "RPC" THEN "RPC" ELSE "REST") \in pinned =>
       list[c] \subseteq {Pinned}

(* As long as resolutions keep succeeding now and then, both scanners come *)
(* to run: neither waits for the other, nor for a transaction index.       *)
ScannersStart == []<><<Accept>>_vars => <>(running = Scanners)
=============================================================================
