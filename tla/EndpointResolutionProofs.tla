----------------------- MODULE EndpointResolutionProofs -----------------------
(* Theorems about EndpointResolution and their proofs.                       *)
EXTENDS EndpointResolution, TLAPS

Real == AllEndpoints \ {NoEndpoint}

Protocols == {"rest", "rpc", "tx_search"}

(* Types: NoEndpoint is never a member of a list.                            *)
Shape ==
  /\ pinned \subseteq {"REST", "RPC"}
  /\ cachedREST \in SUBSET Real /\ cachedRPC \in SUBSET Real
  /\ age \in 0..registryTTL
  /\ lookup \in {"none", "ok", "failed"}
  /\ apis \in [REST : SUBSET Real, RPC : SUBSET Real]
  /\ res \in [REST : SUBSET Real, RPC : SUBSET Real, TxSearch : SUBSET Real,
              first : [REST : AllEndpoints, RPC : AllEndpoints,
                       TxSearch : AllEndpoints]]
  /\ list \in [Clients -> SUBSET Real]
  /\ selected \in [Clients -> AllEndpoints]
  /\ ready \subseteq Scanners /\ running \subseteq ready
  /\ info \subseteq Protocols \X AllEndpoints
  /\ pc \in {"idle", "fetch", "probe", "check", "apply"}
  /\ step \in 0..12
  /\ step > 0 <=> pc = "apply"

(* What Resolve returned hangs together.                                     *)
Resolved ==
  /\ res.TxSearch \subseteq res.REST
  /\ \A k \in {"REST", "RPC", "TxSearch"} :
       IF res[k] = {} THEN res.first[k] = NoEndpoint ELSE res.first[k] \in res[k]
  /\ "REST" \in pinned => res.REST \subseteq {Pinned}
  /\ "RPC" \in pinned => res.RPC \subseteq {Pinned}

(* A rotator selects an entry of its list.                                   *)
Selection ==
  \A c \in Clients :
    IF list[c] = {} THEN selected[c] = NoEndpoint ELSE selected[c] \in list[c]

(* While a resolution is handed out it is usable, and the clients that had   *)
(* their turn hold its lists.                                                *)
Applying ==
  pc = "apply" =>
    /\ Usable
    /\ \A k \in 1..12 : k < step /\ Plan[k].what = "set" =>
         list[Plan[k].on] = res[KindOf(Plan[k].on)]

(* A scanner that may start has endpoints.                                   *)
ReadyHasEndpoints ==
  \A s \in ready : \A c \in ClientsOf(s) \ {"tx"} : list[c] # {}

(* The protocols EndpointInfo has a child for.                               *)
Shows == {i[1] : i \in info}

(* The children, step by step.                                               *)
InfoFollows ==
  /\ \A i, j \in info : i[1] = j[1] => i = j
  /\ step = 10 => Shows = {}
  /\ step = 11 => Shows = {"rest"}
  /\ step = 12 => Shows = {"rest", "rpc"}
  /\ pc # "apply" /\ list["rest"] # {} => {"rest", "rpc"} \subseteq Shows

(* The cache is the last usable entry, and the candidates come from it.      *)
CacheIsFetched ==
  /\ fetched = Cached
  /\ cachedREST = {} <=> cachedRPC = {}
  /\ CandidatesAreTheLatest

-------------------------------------------------------------------------------

\* What the proofs use of the order of resolveEndpoints.
LEMMA PlanOrder ==
  /\ Len(Plan) = 12
  /\ \A k \in 1..12 :
       /\ Plan[k].what = "set" => k \in 1..7 /\ Plan[k].on \in Clients
       /\ Plan[k].what = "close" =>
            /\ k \in 1..8
            /\ Plan[k].on \in Scanners
            /\ \A c \in ClientsOf(Plan[k].on) \ {"tx"} :
                 \E j \in 1..12 : j < k /\ Plan[j].what = "set" /\ Plan[j].on = c
       /\ Plan[k].what = "reset" <=> k = 9
       /\ Plan[k].what = "publish" <=> k \in 10..12
  /\ Plan[10].on = "rest" /\ Plan[11].on = "rpc" /\ Plan[12].on = "tx_search"
  /\ \A c \in Clients :
       \E j \in 1..12 : j < 12 /\ Plan[j].what = "set" /\ Plan[j].on = c
  <1>1. Len(Plan) = 12
    BY DEF Plan
  <1>2. /\ Plan[1] = Op("set", "rest") /\ Plan[2] = Op("set", "rpc")
        /\ Plan[3] = Op("set", "state") /\ Plan[4] = Op("set", "tx")
        /\ Plan[5] = Op("close", "redelegation")
        /\ Plan[6] = Op("set", "mrest") /\ Plan[7] = Op("set", "mrpc")
        /\ Plan[8] = Op("close", "managed") /\ Plan[9] = Op("reset", "info")
        /\ Plan[10] = Op("publish", "rest") /\ Plan[11] = Op("publish", "rpc")
        /\ Plan[12] = Op("publish", "tx_search")
    BY DEF Plan
  <1> HIDE DEF Plan
  <1>3. \A a, b : Op(a, b).what = a /\ Op(a, b).on = b
    BY DEF Op
  <1>4. \A c \in Clients :
          \E j \in 1..12 : j < 12 /\ Plan[j].what = "set" /\ Plan[j].on = c
    BY <1>2, <1>3 DEF Clients
  <1>5. ASSUME NEW k \in 1..12
        PROVE  /\ Plan[k].what = "set" => k \in 1..7 /\ Plan[k].on \in Clients
               /\ Plan[k].what = "close" => k \in 1..8 /\ Plan[k].on \in Scanners
               /\ Plan[k].what = "reset" <=> k = 9
               /\ Plan[k].what = "publish" <=> k \in 10..12
    BY <1>2, <1>3 DEF Clients, Scanners
  <1>6. ASSUME NEW k \in 1..12, Plan[k].what = "close",
               NEW c \in ClientsOf(Plan[k].on) \ {"tx"}
        PROVE  \E j \in 1..12 : j < k /\ Plan[j].what = "set" /\ Plan[j].on = c
    <2>1. k = 5 \/ k = 8
      BY <1>2, <1>3, <1>6
    <2>2. CASE k = 5
      <3>1. c = "state"
        BY <1>2, <1>3, <1>6, <2>2 DEF ClientsOf
      <3> QED
        BY <1>2, <1>3, <2>2, <3>1
    <2>3. CASE k = 8
      <3>1. c = "mrest" \/ c = "mrpc"
        BY <1>2, <1>3, <1>6, <2>3 DEF ClientsOf
      <3> QED
        BY <1>2, <1>3, <2>3, <3>1
    <2> QED
      BY <2>1, <2>2, <2>3
  <1> QED
    BY <1>1, <1>2, <1>3, <1>4, <1>5, <1>6

\* Every endpoint a list may name is a real one.
LEMMA EndpointsAreReal ==
  /\ RegistryREST \subseteq Real /\ RegistryRPC \subseteq Real
  /\ FallbackREST \subseteq Real /\ FallbackRPC \subseteq Real
  /\ Pinned \in Real
  /\ Real \subseteq AllEndpoints /\ NoEndpoint \in AllEndpoints
  BY ResolutionAssumption DEF Real, AllEndpoints

-------------------------------------------------------------------------------

LEMMA ShapeInit == Init => Shape /\ Resolved /\ Selection
  BY ResolutionAssumption, EndpointsAreReal
     DEF Init, Shape, Resolved, Selection, NoAPIs, NoResolution, Protocols

\* A set turns to an entry of the new list, or to none.
LEMMA ShapeSet ==
  ASSUME Shape, Resolved, SetEndpoints
  PROVE  Shape'
  <1>1. step \in 1..12 /\ Plan[step].what = "set"
    BY DEF Shape, SetEndpoints, Doing
  <1>2. Plan[step].on \in Clients
    BY <1>1, PlanOrder
  <1>3. KindOf(Plan[step].on) \in {"REST", "RPC", "TxSearch"}
    BY DEF KindOf
  <1>4. /\ res[KindOf(Plan[step].on)] \in SUBSET Real
        /\ res.first[KindOf(Plan[step].on)] \in AllEndpoints
    BY <1>3 DEF Shape
  <1>5. list' \in [Clients -> SUBSET Real]
    BY <1>4 DEF Shape, SetEndpoints
  <1>6. selected' \in [Clients -> AllEndpoints]
    BY <1>4 DEF Shape, SetEndpoints
  <1>7. step' \in 0..12 /\ pc' \in {"idle", "apply"} /\ (step' > 0 <=> pc' = "apply")
    BY <1>1, PlanOrder DEF Shape, SetEndpoints, Doing, Done
  <1> QED
    BY <1>5, <1>6, <1>7 DEF Shape, SetEndpoints, Done, cacheVars

\* The step of resolveEndpoints, and all that Done leaves alone.
LEMMA ShapeDone ==
  ASSUME Shape, pc = "apply", Done
  PROVE  /\ step' \in 0..12 /\ pc' \in {"idle", "apply"}
         /\ step' > 0 <=> pc' = "apply"
         /\ IF step = 12 THEN step' = 0 /\ pc' = "idle"
                         ELSE step' = step + 1 /\ pc' = "apply"
  BY PlanOrder DEF Shape, Done

LEMMA ShapeNext ==
  ASSUME Shape, Resolved, Selection, [Next]_vars
  PROVE  Shape'
  <1>1. CASE Begin
    BY <1>1, ResolutionAssumption DEF Begin, Shape, clientVars, Cached, NoAPIs
  <1>2. CASE FetchAnswers
    BY <1>2, ResolutionAssumption, EndpointsAreReal
       DEF FetchAnswers, Shape, clientVars
  <1>3. CASE FetchFails
    BY <1>3, EndpointsAreReal DEF FetchFails, Shape, clientVars, StandIn, Cached
  <1>4. CASE Resolve
    <2>1. PICK rest \in Healthy("REST"), rpc \in Healthy("RPC") :
          \E tx \in SUBSET rest, r \in Firsts(rest), c \in Firsts(rpc) :
          \E t \in IF r \in tx THEN {r} ELSE Firsts(tx) :
            res' = [REST |-> rest, RPC |-> rpc, TxSearch |-> tx,
                    first |-> [REST |-> r, RPC |-> c, TxSearch |-> t]]
      BY <1>4 DEF Resolve
    <2>2. PICK tx \in SUBSET rest, r \in Firsts(rest), c \in Firsts(rpc) :
          \E t \in IF r \in tx THEN {r} ELSE Firsts(tx) :
            res' = [REST |-> rest, RPC |-> rpc, TxSearch |-> tx,
                    first |-> [REST |-> r, RPC |-> c, TxSearch |-> t]]
      BY <2>1
    <2>3. PICK t \in IF r \in tx THEN {r} ELSE Firsts(tx) :
            res' = [REST |-> rest, RPC |-> rpc, TxSearch |-> tx,
                    first |-> [REST |-> r, RPC |-> c, TxSearch |-> t]]
      BY <2>2
    <2>4. rest \in SUBSET Real /\ rpc \in SUBSET Real
      BY <2>1, EndpointsAreReal DEF Healthy, Shape
    <2>5. r \in AllEndpoints /\ c \in AllEndpoints /\ t \in AllEndpoints
      BY <2>2, <2>3, <2>4, EndpointsAreReal DEF Firsts
    <2> QED
      BY <1>4, <2>2, <2>3, <2>4, <2>5 DEF Resolve, Shape, cacheVars, clientVars
  <1>5. CASE Reject \/ Accept
    <2>1. UNCHANGED <<pinned, cacheVars, apis, res, clientVars, ready, running, info>>
      BY <1>5 DEF Reject, Accept
    <2>2. pc' \in {"idle", "apply"} /\ step' \in 0..12 /\ (step' > 0 <=> pc' = "apply")
      BY <1>5 DEF Reject, Accept, Shape
    <2> QED
      BY <2>1, <2>2 DEF Shape, cacheVars, clientVars
  <1>6. CASE SetEndpoints
    BY <1>6, ShapeSet
  <1>7. CASE CloseReady
    <2>1. step \in 1..12 /\ Plan[step].what = "close"
      BY <1>7 DEF Shape, CloseReady, Doing
    <2>2. Plan[step].on \in Scanners
      BY <2>1, PlanOrder
    <2> QED
      BY <1>7, <2>2, ShapeDone
         DEF CloseReady, Doing, Done, Shape, cacheVars, clientVars
  <1>8. CASE ResetInfo
    BY <1>8, ShapeDone DEF ResetInfo, Doing, Done, Shape, cacheVars, clientVars
  <1>9. CASE PublishEndpoint
    <2>1. step \in 10..12
      BY <1>9, PlanOrder DEF Shape, PublishEndpoint, Doing
    <2>2. Plan[step].on \in Protocols
      BY <2>1, PlanOrder DEF Protocols
    <2>3. Shown(Plan[step].on) \in AllEndpoints
      BY <2>2 DEF Shown, Protocols, Shape, Clients
    <2>4. info' \subseteq Protocols \X AllEndpoints
      BY <1>9, <2>2, <2>3 DEF PublishEndpoint, Shape
    <2> QED
      BY <1>9, <2>4, ShapeDone
         DEF PublishEndpoint, Doing, Done, Shape, cacheVars, clientVars
  <1>10. ASSUME NEW s \in Scanners, StartScanner(s)
         PROVE  Shape'
    BY <1>10 DEF StartScanner, Shape, cacheVars, clientVars
  <1>11. ASSUME NEW c \in Clients, Rotate(c)
         PROVE  Shape'
    <2>1. selected' \in [Clients -> AllEndpoints]
      BY <1>11, EndpointsAreReal DEF Rotate, Shape
    <2> QED
      BY <1>11, <2>1 DEF Rotate, Shape, cacheVars
  <1>12. CASE UNCHANGED vars
    BY <1>12 DEF vars, Shape, cacheVars, clientVars
  <1> QED
    BY <1>1, <1>2, <1>3, <1>4, <1>5, <1>6, <1>7, <1>8, <1>9, <1>10, <1>11, <1>12
       DEF Next, Collector

-------------------------------------------------------------------------------

\* Which actions change what.
LEMMA Frames ==
  ASSUME [Next]_vars
  PROVE  /\ UNCHANGED pinned
         /\ Resolve \/ UNCHANGED res
         /\ SetEndpoints \/ UNCHANGED list
         /\ SetEndpoints \/ (\E c \in Clients : Rotate(c)) \/ UNCHANGED selected
         /\ CloseReady \/ UNCHANGED ready
         /\ ResetInfo \/ PublishEndpoint \/ UNCHANGED info
         /\ Begin \/ FetchAnswers \/ FetchFails \/ UNCHANGED <<cacheVars, apis>>
         /\ \/ Accept
            \/ SetEndpoints \/ CloseReady \/ ResetInfo \/ PublishEndpoint
            \/ UNCHANGED <<pc, step>>
            \/ pc # "apply" /\ pc' # "apply" /\ UNCHANGED <<step, list, info>>
  <1>1. CASE Collector
    BY <1>1 DEF Collector, Begin, FetchAnswers, FetchFails, Resolve, Reject,
       Accept, SetEndpoints, CloseReady, ResetInfo, PublishEndpoint, Done,
       cacheVars, clientVars
  <1>2. ASSUME NEW s \in Scanners, StartScanner(s)
        PROVE  UNCHANGED <<pinned, cacheVars, apis, res, clientVars, ready,
                           info, pc, step>>
    BY <1>2 DEF StartScanner
  <1>3. ASSUME NEW c \in Clients, Rotate(c)
        PROVE  UNCHANGED <<pinned, cacheVars, apis, res, list, ready, info, pc,
                           step>>
    BY <1>3 DEF Rotate
  <1>4. CASE UNCHANGED vars
    BY <1>4 DEF vars, cacheVars, clientVars
  <1> QED
    BY <1>1, <1>2, <1>3, <1>4 DEF Next, clientVars

\* Resolve returns lists that hang together.
LEMMA ResolvedNext ==
  ASSUME Resolved, Shape, [Next]_vars
  PROVE  Resolved'
  <1>1. CASE Resolve
    <2>1. PICK rest \in Healthy("REST"), rpc \in Healthy("RPC") :
          \E tx \in SUBSET rest, r \in Firsts(rest), c \in Firsts(rpc) :
          \E t \in IF r \in tx THEN {r} ELSE Firsts(tx) :
            res' = [REST |-> rest, RPC |-> rpc, TxSearch |-> tx,
                    first |-> [REST |-> r, RPC |-> c, TxSearch |-> t]]
      BY <1>1 DEF Resolve
    <2>2. PICK tx \in SUBSET rest, r \in Firsts(rest), c \in Firsts(rpc) :
          \E t \in IF r \in tx THEN {r} ELSE Firsts(tx) :
            res' = [REST |-> rest, RPC |-> rpc, TxSearch |-> tx,
                    first |-> [REST |-> r, RPC |-> c, TxSearch |-> t]]
      BY <2>1
    <2>3. PICK t \in IF r \in tx THEN {r} ELSE Firsts(tx) :
            res' = [REST |-> rest, RPC |-> rpc, TxSearch |-> tx,
                    first |-> [REST |-> r, RPC |-> c, TxSearch |-> t]]
      BY <2>2
    <2>4. /\ "REST" \in pinned => rest = {Pinned}
          /\ "RPC" \in pinned => rpc = {Pinned}
      BY <2>1 DEF Healthy
    <2>5. /\ IF rest = {} THEN r = NoEndpoint ELSE r \in rest
          /\ IF rpc = {} THEN c = NoEndpoint ELSE c \in rpc
          /\ IF tx = {} THEN t = NoEndpoint ELSE t \in tx
      BY <2>2, <2>3 DEF Firsts
    <2>6. UNCHANGED pinned
      BY <1>1 DEF Resolve
    <2>7. /\ res'.REST = rest /\ res'.RPC = rpc /\ res'.TxSearch = tx
          /\ res'["REST"] = rest /\ res'["RPC"] = rpc /\ res'["TxSearch"] = tx
          /\ res'.first["REST"] = r /\ res'.first["RPC"] = c
          /\ res'.first["TxSearch"] = t
      BY <2>3
    <2> QED
      BY <2>2, <2>4, <2>5, <2>6, <2>7 DEF Resolved
  <1>2. CASE UNCHANGED res
    BY <1>2, Frames DEF Resolved
  <1> QED
    BY <1>1, <1>2, Frames

\* What the client set in this step holds afterwards.
LEMMA SetHolds ==
  ASSUME Shape, Resolved, SetEndpoints
  PROVE  \E c \in Clients, k \in {"REST", "RPC", "TxSearch"} :
           /\ step \in 1..7 /\ Plan[step].on = c /\ KindOf(c) = k
           /\ pc = "apply" /\ pc' = "apply" /\ step' = step + 1
           /\ list' = [list EXCEPT ![c] = res[k]]
           /\ list'[c] = res[k]
           /\ \A d \in Clients \ {c} : UNCHANGED <<list[d], selected[d]>>
           /\ IF res[k] = {} THEN selected'[c] = NoEndpoint
                             ELSE selected'[c] \in res[k]
           /\ UNCHANGED <<pinned, res, ready, info>>
  <1> DEFINE c == Plan[step].on
             k == KindOf(c)
  <1>1. step \in 1..12 /\ Plan[step].what = "set" /\ pc = "apply"
    BY DEF Shape, SetEndpoints, Doing
  <1>2. step \in 1..7 /\ c \in Clients
    BY <1>1, PlanOrder
  <1>3. k \in {"REST", "RPC", "TxSearch"}
    BY DEF KindOf
  <1>4. pc' = "apply" /\ step' = step + 1
    BY <1>1, <1>2, ShapeDone DEF SetEndpoints
  <1>5. /\ list' = [list EXCEPT ![c] = res[k]]
        /\ selected' = [selected EXCEPT
                          ![c] = IF @ \in res[k] THEN @ ELSE res.first[k]]
        /\ UNCHANGED <<pinned, res, ready, info>>
    BY DEF SetEndpoints, Done
  <1>6. IF res[k] = {} THEN res.first[k] = NoEndpoint ELSE res.first[k] \in res[k]
    BY <1>3 DEF Resolved
  <1> HIDE DEF c, k
  <1>7. list'[c] = res[k] /\ \A d \in Clients \ {c} : list'[d] = list[d]
    BY <1>2, <1>5 DEF Shape
  <1>8. \A d \in Clients \ {c} : selected'[d] = selected[d]
    BY <1>2, <1>5 DEF Shape
  <1>9. IF res[k] = {} THEN selected'[c] = NoEndpoint ELSE selected'[c] \in res[k]
    BY <1>2, <1>5, <1>6 DEF Shape
  <1> QED
    BY <1>1, <1>2, <1>3, <1>4, <1>5, <1>7, <1>8, <1>9 DEF c, k

\* A rotator selects an entry of its list, after a set and after a rotation.
LEMMA SelectionNext ==
  ASSUME Shape, Resolved, Selection, [Next]_vars
  PROVE  Selection'
  <1>1. CASE SetEndpoints
    BY <1>1, SetHolds DEF Selection
  <1>2. ASSUME NEW c \in Clients, Rotate(c)
        PROVE  Selection'
    BY <1>2 DEF Rotate, Selection, Shape
  <1>3. CASE UNCHANGED <<list, selected>>
    BY <1>3 DEF Selection
  <1> QED
    BY <1>1, <1>2, <1>3, Frames DEF Rotate

\* A usable resolution is handed out client by client.
LEMMA ApplyingNext ==
  ASSUME Shape, Resolved, Applying, [Next]_vars
  PROVE  Applying'
  <1>1. CASE Accept
    <2>1. step' = 1 /\ Usable /\ UNCHANGED res
      BY <1>1 DEF Accept
    <2> QED
      BY <2>1 DEF Applying, Usable
  <1>2. CASE SetEndpoints
    <2>1. PICK c \in Clients, k \in {"REST", "RPC", "TxSearch"} :
            /\ step \in 1..7 /\ Plan[step].on = c /\ KindOf(c) = k
            /\ pc = "apply" /\ step' = step + 1
            /\ list'[c] = res[k]
            /\ \A d \in Clients \ {c} : UNCHANGED list[d]
            /\ UNCHANGED res
      BY <1>2, SetHolds
    <2>2. ASSUME NEW j \in 1..12, j < step', Plan[j].what = "set"
          PROVE  list'[Plan[j].on] = res[KindOf(Plan[j].on)]
      <3>1. Plan[j].on \in Clients
        BY <2>2, PlanOrder
      <3>2. CASE Plan[j].on = c
        BY <2>1, <3>2
      <3>3. CASE Plan[j].on # c
        <4>1. j < step
          BY <2>1, <2>2, <3>3
        <4> QED
          BY <2>1, <2>2, <3>1, <3>3, <4>1 DEF Applying
      <3> QED
        BY <3>2, <3>3
    <2> QED
      BY <2>1, <2>2 DEF Applying, Usable
  <1>3. CASE CloseReady \/ ResetInfo \/ PublishEndpoint
    <2>1. pc = "apply" /\ step \in 1..12 /\ Plan[step].what # "set" /\ Done
      BY <1>3 DEF CloseReady, ResetInfo, PublishEndpoint, Doing, Shape
    <2>2. UNCHANGED <<res, list>>
      BY <1>3 DEF CloseReady, ResetInfo, PublishEndpoint, Done, clientVars
    <2>3. pc' = "apply" => step' = step + 1
      BY <2>1, ShapeDone
    <2>4. ASSUME pc' = "apply", NEW j \in 1..12, j < step', Plan[j].what = "set"
          PROVE  list[Plan[j].on] = res[KindOf(Plan[j].on)]
      <3>1. j < step
        BY <2>1, <2>3, <2>4
      <3> QED
        BY <2>1, <2>4, <3>1 DEF Applying
    <2> QED
      BY <2>1, <2>2, <2>4 DEF Applying, Usable
  <1>4. CASE /\ UNCHANGED <<pc, step>>
             /\ ~(Accept \/ SetEndpoints \/ CloseReady \/ ResetInfo \/ PublishEndpoint)
    <2>1. CASE pc = "apply"
      <3>1. UNCHANGED <<res, list>>
        BY <1>4, <2>1, Frames DEF Resolve
      <3> QED
        BY <1>4, <3>1 DEF Applying, Usable
    <2>2. CASE pc # "apply"
      BY <1>4, <2>2 DEF Applying
    <2> QED
      BY <2>1, <2>2
  <1>5. CASE pc' # "apply"
    BY <1>5 DEF Applying
  <1> QED
    BY <1>1, <1>2, <1>3, <1>4, <1>5, Frames

\* When the last step is taken, every client holds the lists of this resolution.
LEMMA AllHandedOut ==
  ASSUME Shape, Applying, step = 12
  PROVE  \A c \in Clients : list[c] = res[KindOf(c)]
  <1>1. pc = "apply"
    BY DEF Shape
  <1> TAKE c \in Clients
  <1>2. PICK j \in 1..12 : j < 12 /\ Plan[j].what = "set" /\ Plan[j].on = c
    BY PlanOrder
  <1> QED
    BY <1>1, <1>2 DEF Applying

\* The lists agree again before the next resolution begins.
LEMMA ListsNext ==
  ASSUME Shape, Resolved, Applying, ListsAreOfOneResolution, [Next]_vars
  PROVE  ListsAreOfOneResolution'
  <1> SUFFICES ASSUME pc' # "apply"
               PROVE  ListsAreOfOneResolution'
    BY DEF ListsAreOfOneResolution
  <1>1. UNCHANGED list
    BY Frames, SetHolds
  <1>2. CASE pc = "apply"
    <2>1. step = 12
      <3>1. CloseReady \/ ResetInfo \/ PublishEndpoint
        BY <1>2, Frames, SetHolds DEF Accept
      <3> QED
        BY <1>2, <3>1, ShapeDone DEF CloseReady, ResetInfo, PublishEndpoint
    <2>2. \A c \in Clients : list[c] = res[KindOf(c)]
      BY <2>1, AllHandedOut
    <2>3. /\ list["state"] = res.REST /\ list["rest"] = res.REST
          /\ list["mrest"] = res.REST /\ list["tx"] = res.TxSearch
          /\ list["rpc"] = res.RPC /\ list["mrpc"] = res.RPC
      BY <2>2 DEF Clients, KindOf
    <2>4. res.REST # {} /\ res.RPC # {} /\ res.TxSearch \subseteq res.REST
      BY <1>2 DEF Applying, Usable, Resolved
    <2> QED
      BY <1>1, <2>3, <2>4 DEF ListsAreOfOneResolution
  <1>3. CASE pc # "apply"
    BY <1>1, <1>3 DEF ListsAreOfOneResolution
  <1> QED
    BY <1>2, <1>3

\* A scanner is released when its lists are set, and they never become empty.
LEMMA ReadyNext ==
  ASSUME Shape, Resolved, Applying, ReadyHasEndpoints, [Next]_vars
  PROVE  ReadyHasEndpoints'
  <1>1. CASE CloseReady
    <2>1. pc = "apply" /\ step \in 1..12 /\ Plan[step].what = "close"
      BY <1>1 DEF CloseReady, Doing, Shape
    <2>2. ready' = ready \cup {Plan[step].on} /\ UNCHANGED list
      BY <1>1 DEF CloseReady, clientVars
    <2>3. ASSUME NEW c \in ClientsOf(Plan[step].on) \ {"tx"}
          PROVE  list[c] # {}
      <3>1. PICK j \in 1..12 : j < step /\ Plan[j].what = "set" /\ Plan[j].on = c
        BY <2>1, PlanOrder
      <3>2. list[c] = res[KindOf(c)]
        BY <2>1, <3>1 DEF Applying
      <3>3. KindOf(c) \in {"REST", "RPC"}
        BY <2>3 DEF KindOf
      <3> QED
        BY <2>1, <3>2, <3>3 DEF Applying, Usable
    <2> QED
      BY <2>2, <2>3 DEF ReadyHasEndpoints
  <1>2. CASE SetEndpoints
    <2>1. PICK c \in Clients, k \in {"REST", "RPC", "TxSearch"} :
            /\ KindOf(c) = k /\ pc = "apply"
            /\ list'[c] = res[k]
            /\ \A d \in Clients \ {c} : UNCHANGED list[d]
            /\ UNCHANGED ready
      BY <1>2, SetHolds
    <2>2. c # "tx" => res[k] # {}
      BY <2>1 DEF Applying, Usable, KindOf
    <2>3. \A s \in Scanners : ClientsOf(s) \subseteq Clients
      BY DEF Scanners, ClientsOf, Clients
    <2> QED
      BY <2>1, <2>2, <2>3 DEF ReadyHasEndpoints, Shape
  <1>3. CASE UNCHANGED <<ready, list>>
    BY <1>3 DEF ReadyHasEndpoints
  <1> QED
    BY <1>1, <1>2, <1>3, Frames, SetHolds DEF CloseReady, clientVars

\* A pinned side is handed the pinned endpoint and no other.
LEMMA PinNext ==
  ASSUME Shape, Resolved, PinIsKept, [Next]_vars
  PROVE  PinIsKept'
  <1>1. CASE SetEndpoints
    <2>1. PICK c \in Clients, k \in {"REST", "RPC", "TxSearch"} :
            /\ KindOf(c) = k
            /\ list'[c] = res[k]
            /\ \A d \in Clients \ {c} : UNCHANGED list[d]
            /\ UNCHANGED pinned
      BY <1>1, SetHolds
    <2>2. (IF k = "RPC" THEN "RPC" ELSE "REST") \in pinned => res[k] \subseteq {Pinned}
      BY <2>1 DEF Resolved
    <2> QED
      BY <2>1, <2>2 DEF PinIsKept
  <1>2. CASE UNCHANGED list
    BY <1>2, Frames DEF PinIsKept
  <1> QED
    BY <1>1, <1>2, Frames

\* EndpointInfo is emptied, then filled with one child for each protocol.
LEMMA InfoNext ==
  ASSUME Shape, Selection, Applying, InfoFollows, [Next]_vars
  PROVE  InfoFollows'
  <1>1. CASE ResetInfo
    <2>1. step = 9 /\ pc = "apply"
      BY <1>1, PlanOrder DEF ResetInfo, Doing, Shape
    <2>2. step' = 10 /\ pc' = "apply" /\ info' = {}
      BY <1>1, <2>1, ShapeDone DEF ResetInfo
    <2> QED
      BY <2>2 DEF InfoFollows, Shows
  <1>2. CASE PublishEndpoint
    <2> DEFINE p == Plan[step].on
               e == Shown(p)
    <2>1. step \in 10..12 /\ pc = "apply"
      BY <1>2, PlanOrder DEF PublishEndpoint, Doing, Shape
    <2>2. info' = info \cup {i \in {<<p, e>>} : e # NoEndpoint} /\ UNCHANGED list
      BY <1>2 DEF PublishEndpoint, clientVars
    <2>3. p = IF step = 10 THEN "rest" ELSE IF step = 11 THEN "rpc" ELSE "tx_search"
      BY <2>1, PlanOrder
    <2>4. step # 12 => e # NoEndpoint
      <3>1. \A c \in {"rest", "rpc"} : selected[c] # NoEndpoint
        <4> TAKE c \in {"rest", "rpc"}
        <4>1. PICK j \in 1..7 : Plan[j].what = "set" /\ Plan[j].on = c
          BY PlanOrder DEF Clients
        <4>2. list[c] = res[KindOf(c)] /\ KindOf(c) \in {"REST", "RPC"}
          BY <2>1, <4>1 DEF Applying, KindOf
        <4>3. list[c] # {}
          BY <2>1, <4>2 DEF Applying, Usable
        <4>4. c \in Clients
          BY DEF Clients
        <4> QED
          BY <4>3, <4>4 DEF Selection, Shape, Real
      <3> QED
        BY <2>1, <2>3, <3>1 DEF Shown
    <2>5. p \notin Shows
      BY <2>1, <2>3 DEF InfoFollows
    <2>6. Shows' = IF e = NoEndpoint THEN Shows ELSE Shows \cup {p}
      <3> HIDE DEF p, e
      <3>1. info' = IF e = NoEndpoint THEN info ELSE info \cup {<<p, e>>}
        BY <2>2
      <3>2. <<p, e>>[1] = p
        OBVIOUS
      <3> QED
        BY <3>1, <3>2 DEF Shows
    <2>7. \A i, j \in info' : i[1] = j[1] => i = j
      BY <2>2, <2>5 DEF InfoFollows, Shows
    <2>8. IF step = 12 THEN step' = 0 /\ pc' = "idle"
                       ELSE step' = step + 1 /\ pc' = "apply"
      BY <1>2, <2>1, ShapeDone DEF PublishEndpoint
    <2>9. CASE step = 10
      BY <2>3, <2>4, <2>6, <2>7, <2>8, <2>9 DEF InfoFollows
    <2>10. CASE step = 11
      BY <2>3, <2>4, <2>6, <2>7, <2>8, <2>10 DEF InfoFollows
    <2>11. CASE step = 12
      BY <2>6, <2>7, <2>8, <2>11 DEF InfoFollows
    <2> QED
      BY <2>1, <2>9, <2>10, <2>11
  <1>3. CASE SetEndpoints \/ CloseReady
    <2>1. step \in 1..8 /\ pc = "apply" /\ Done /\ UNCHANGED info
      BY <1>3, PlanOrder DEF SetEndpoints, CloseReady, Doing, Shape
    <2>2. step' \in 2..9 /\ pc' = "apply"
      BY <2>1, ShapeDone
    <2> QED
      BY <2>1, <2>2 DEF InfoFollows
  <1>4. CASE Accept
    <2>1. step' = 1 /\ pc' = "apply" /\ UNCHANGED info
      BY <1>4 DEF Accept
    <2> QED
      BY <2>1 DEF InfoFollows
  <1>5. CASE UNCHANGED <<list, info, step>> /\ (UNCHANGED pc \/ pc # "apply")
    BY <1>5 DEF InfoFollows, Shows
  <1> QED
    BY <1>1, <1>2, <1>3, <1>4, <1>5, Frames

\* The cache, its age and the candidates, through lookup and probe.
LEMMA CacheNext ==
  ASSUME Shape, CacheIsFetched, [Next]_vars
  PROVE  CacheIsFetched'
  <1>1. CASE Begin
    <2>1. UNCHANGED <<cachedREST, cachedRPC, fetched>>
      BY <1>1 DEF Begin
    <2>2. CASE haveCache /\ age' < registryTTL
      <3>1. apis' = Cached /\ fetched # NoAPIs /\ age' # registryTTL
        BY <1>1, <2>2 DEF Begin, haveCache, Cached, NoAPIs, CacheIsFetched
      <3> QED
        BY <2>1, <3>1 DEF CacheIsFetched, CandidatesAreTheLatest, Cached
    <2>3. CASE ~(haveCache /\ age' < registryTTL)
      BY <1>1, <2>1, <2>3
         DEF Begin, CacheIsFetched, CandidatesAreTheLatest, Cached
    <2> QED
      BY <2>2, <2>3
  <1>2. CASE FetchAnswers
    <2>1. /\ cachedREST' # {} /\ cachedRPC' # {} /\ age' = 0
          /\ apis' = Cached' /\ fetched' = Cached'
      <3>1. cachedREST' # {} /\ cachedRPC' # {} /\ age' = 0
        BY <1>2 DEF FetchAnswers
      <3>2. apis' = [REST |-> cachedREST', RPC |-> cachedRPC'] /\ fetched' = apis'
        BY <1>2 DEF FetchAnswers
      <3> QED
        BY <3>1, <3>2 DEF Cached
    <2>2. fetched' # NoAPIs
      BY <2>1 DEF Cached, NoAPIs
    <2> QED
      BY <2>1, <2>2, ResolutionAssumption DEF CacheIsFetched, CandidatesAreTheLatest
  <1>3. CASE FetchFails
    <2>1. UNCHANGED <<cachedREST, cachedRPC, fetched, age>>
      BY <1>3 DEF FetchFails
    <2>2. apis' = StandIn /\ lookup' = "failed"
      BY <1>3 DEF FetchFails
    <2>3. haveCache <=> fetched # NoAPIs
      BY DEF haveCache, CacheIsFetched, Cached, NoAPIs
    <2> QED
      BY <2>1, <2>2, <2>3
         DEF CacheIsFetched, CandidatesAreTheLatest, StandIn, Cached
  <1>4. CASE Resolve
    <2>1. pc = "probe" /\ UNCHANGED <<cachedREST, cachedRPC, fetched, age, lookup, apis>>
      BY <1>4 DEF Resolve, cacheVars
    <2> QED
      BY <2>1 DEF CacheIsFetched, CandidatesAreTheLatest, Cached
  <1>5. CASE UNCHANGED <<cacheVars, apis>> /\ (UNCHANGED pc \/ pc' \in {"idle", "apply"})
    BY <1>5 DEF CacheIsFetched, CandidatesAreTheLatest, Cached, cacheVars
  <1>6. \/ Begin \/ FetchAnswers \/ FetchFails \/ Resolve
        \/ UNCHANGED pc \/ pc' \in {"idle", "apply"}
    BY ShapeDone DEF Next, Collector, Reject, Accept, SetEndpoints, CloseReady,
       ResetInfo, PublishEndpoint, Doing, StartScanner, Rotate, vars
  <1> QED
    BY <1>1, <1>2, <1>3, <1>4, <1>5, <1>6, Frames

-------------------------------------------------------------------------------

(* The inductive invariant.                                                  *)
IInv ==
  /\ Shape /\ Resolved /\ Selection /\ Applying /\ ListsAreOfOneResolution
  /\ ReadyHasEndpoints /\ PinIsKept /\ InfoFollows /\ CacheIsFetched

LEMMA Inductive == Spec => []IInv
  <1>1. Init => IInv
    <2> SUFFICES ASSUME Init
                 PROVE  IInv
      OBVIOUS
    <2>1. Applying
      BY DEF Init, Applying
    <2>2. ListsAreOfOneResolution /\ ReadyHasEndpoints /\ PinIsKept
      BY DEF Init, ListsAreOfOneResolution, ReadyHasEndpoints, PinIsKept, Clients
    <2>3. InfoFollows
      BY DEF Init, InfoFollows, Shows, Clients
    <2>4. CacheIsFetched
      BY DEF Init, CacheIsFetched, CandidatesAreTheLatest, Cached, NoAPIs
    <2> QED
      BY ShapeInit, <2>1, <2>2, <2>3, <2>4 DEF IInv
  <1>2. IInv /\ [Next]_vars => IInv'
    BY ShapeNext, ResolvedNext, SelectionNext, ApplyingNext, ListsNext, ReadyNext,
       PinNext, InfoNext, CacheNext DEF IInv
  <1> QED
    BY <1>1, <1>2, PTL DEF Spec

(* The variables keep their types, and a rotator selects an entry of its     *)
(* list or, with an empty list, nothing.                                     *)
THEOREM TypesAreKept == Spec => []TypeOK
  <1>1. IInv => TypeOK
    <2> SUFFICES ASSUME IInv
                 PROVE  TypeOK
      OBVIOUS
    <2>1. Real \subseteq AllEndpoints /\ Shape /\ Selection
      BY EndpointsAreReal DEF IInv
    <2>2. /\ UNION {cachedREST, apis.REST, res.REST, res.TxSearch} \subseteq AllEndpoints
          /\ UNION {cachedRPC, apis.RPC, res.RPC} \subseteq AllEndpoints
      <3>1. \A s \in {cachedREST, apis.REST, res.REST, res.TxSearch,
                      cachedRPC, apis.RPC, res.RPC} : s \subseteq AllEndpoints
        BY <2>1 DEF Shape
      <3> QED
        BY <3>1
    <2>3. list \in [Clients -> SUBSET AllEndpoints]
      BY <2>1 DEF Shape
    <2>4. \A c \in Clients : selected[c] \in list[c] \cup {NoEndpoint}
      BY <2>1 DEF Selection
    <2>5. info \subseteq {"rest", "rpc", "tx_search"} \X AllEndpoints
      BY <2>1 DEF Shape, Protocols
    <2> QED
      BY <2>1, <2>2, <2>3, <2>4, <2>5, PlanOrder DEF TypeOK, Shape
  <1> QED
    BY <1>1, Inductive, PTL

(* However resolutions succeed and fail, a scanner that has started holds    *)
(* endpoints to ask: the wait on the ready channel is enough.                *)
THEOREM ScannersAreServed == Spec => []ScannersHaveEndpoints
  <1>1. IInv => ScannersHaveEndpoints
    <2> SUFFICES ASSUME IInv, NEW s \in running, NEW c \in ClientsOf(s) \ {"tx"}
                 PROVE  selected[c] \in list[c]
      BY DEF ScannersHaveEndpoints
    <2>1. s \in ready /\ s \in Scanners
      BY DEF IInv, Shape
    <2>2. list[c] # {}
      BY <2>1 DEF IInv, ReadyHasEndpoints
    <2>3. c \in Clients
      BY <2>1 DEF Scanners, ClientsOf, Clients
    <2> QED
      BY <2>2, <2>3 DEF IInv, Selection
  <1> QED
    BY <1>1, Inductive, PTL

(* Probes use the last registry entry ever fetched, and an entry older than  *)
(* the TTL only when this cycle's lookup failed.                             *)
THEOREM CandidatesKept == Spec => []CandidatesAreTheLatest
  <1>1. IInv => CandidatesAreTheLatest
    BY DEF IInv, CacheIsFetched
  <1> QED
    BY <1>1, Inductive, PTL

(* No failed or half-applied resolution leaves the clients on different      *)
(* lists once resolveEndpoints has returned.                                 *)
THEOREM ListsAgree == Spec => []ListsAreOfOneResolution
  <1>1. IInv => ListsAreOfOneResolution
    BY DEF IInv
  <1> QED
    BY <1>1, Inductive, PTL

(* EndpointInfo never shows two endpoints for one protocol, and shows REST   *)
(* and RPC between cycles once a resolution has succeeded.                   *)
THEOREM InfoIsSingle == Spec => []OneEndpointPerProtocol
  <1>1. IInv => OneEndpointPerProtocol
    BY DEF IInv, InfoFollows, OneEndpointPerProtocol, Shows
  <1> QED
    BY <1>1, Inductive, PTL

(* A pinned side never reaches another endpoint.                             *)
THEOREM PinHolds == Spec => []PinIsKept
  <1>1. IInv => PinIsKept
    BY DEF IInv
  <1> QED
    BY <1>1, Inductive, PTL
=============================================================================
