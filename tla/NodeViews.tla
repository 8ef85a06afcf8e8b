------------------------------ MODULE NodeViews ------------------------------
(***************************************************************************)
(* What the merchant is shown of the Fiber node: GET /node/info and the    *)
(* Node Status panel, the Channels page and the Peers page.  A load makes  *)
(* its RPCs in parallel, each answered from the state the node was in at   *)
(* some moment of the load, and the names of UDT channels come from the    *)
(* lookup that RUSD invoices use (InvoiceApi): a page may start it, join   *)
(* it, be answered or fail with it, and leave its result to the invoices.  *)
(***************************************************************************)
EXTENDS InvoiceApi, Functions

CONSTANTS
    Peers,          \* peers the node may be connected to
    Channels,       \* channels it may have
    ChannelStates,  \* what a channel may be like
    MaxMoves        \* bound: changes of the node's channels and peers

ASSUME NodeAssumption ==
    /\ ChannelStates \subseteq
          [peer : Peers, fundingUdt : Scripts \cup {None}, enabled : BOOLEAN,
           closing : BOOLEAN, local : Nat, remote : Nat]
    /\ None \notin ChannelStates /\ MaxMoves \in Nat
    /\ IsFiniteSet(Channels) /\ IsFiniteSet(Peers)

VARIABLES
    channels,       \* node: channels[c], or None
    peers,          \* node: those it is connected to
    page,           \* page[p]: one load
    since,          \* since[p]: every state of the node from the load's start to its end
    moves

node == <<channels, peers>>
views == <<node, page, since, moves>>

Kinds == {"info", "channels", "peers"}
Now == [channels |-> channels, peers |-> peers]

\* list: the answer of list_channels; other: that of node_info or list_peers;
\* rusd: the script of RUSD in the whitelist the names were taken from.
NoLoad == [kind |-> "none", pc |-> "idle", list |-> None, other |-> None,
           on |-> None, rusd |-> None]

Loading(p) == page[p].pc \in {"list", "lookup"} \/ (page[p].pc = "ready" /\ page[p].other = None)
Shown(p) == page[p].pc = "ready" /\ page[p].other # None

InitViews ==
    /\ Init
    /\ channels \in [Channels -> ChannelStates \cup {None}] /\ peers \in SUBSET Peers
    /\ page = [p \in Pages |-> NoLoad] /\ since = [p \in Pages |-> {}]
    /\ moves = 0

-----------------------------------------------------------------------------
(* What the gateway makes of the answers                                   *)

Open(list) == {c \in Channels : list[c] # None}
Active(list) == {c \in Open(list) : list[c].enabled}
HasUdtChannel(list) == \E c \in Open(list) : list[c].fundingUdt # None

\* getNodeInfo(): node_info has no capacities, so the channels are summed up.
\* Faulty variant: the channels that are not enabled count as well.
CapacityOfAll(list, side) == SumFunction([c \in Open(list) |-> list[c][side]])
Capacity(list, side) == SumFunction([c \in Active(list) |-> list[c][side]])

\* deriveNodeStatus() and is_isolated, over two answers of different moments.
NodeStatus(p) ==
    [status |-> IF Cardinality(Active(page[p].list)) < page[p].other.channelCount
                THEN "degraded" ELSE "online",
     isolated |-> page[p].other.peersCount = 0,
     inbound |-> Capacity(page[p].list, "remote"),
     outbound |-> Capacity(page[p].list, "local")]

ResolveChannelAssetName(udt, rusd) ==
    IF udt = None THEN "CKB" ELSE IF udt = rusd THEN "RUSD" ELSE "UNKNOWN_UDT"

DeriveChannelStatus(channel) ==
    IF channel.closing THEN "closing" ELSE IF channel.enabled THEN "active" ELSE "disabled"

\* toChannelDetail(): the rows of the Channels page.
Details(p) ==
    {[id |-> c, peer |-> page[p].list[c].peer,
      asset |-> ResolveChannelAssetName(page[p].list[c].fundingUdt, page[p].rusd),
      status |-> DeriveChannelStatus(page[p].list[c]),
      capacity |-> page[p].list[c].local + page[p].list[c].remote] : c \in Open(page[p].list)}

\* The dots of the topology: a peer has the best status of its channels.
BestStatus(statuses) ==
    IF "active" \in statuses THEN "active"
    ELSE IF "closing" \in statuses THEN "closing" ELSE "disabled"
ComputeTopology(details) ==
    [peer \in {d.peer : d \in details} |->
        BestStatus({d.status : d \in {x \in details : x.peer = peer}})]

\* The Peers page cross-references its two lists.
ChannelsForPeer(p, peer) ==
    LET own == {d \in Details(p) : d.peer = peer}
    IN  [channels |-> own, totalCapacity |-> SumFunction([d \in own |-> d.capacity])]

-----------------------------------------------------------------------------
(* A load                                                                  *)

\* The Channels page has no second answer to wait for.
OpenPage(p, kind) ==
    /\ page[p].pc = "idle"
    /\ page' = [page EXCEPT ![p] = [NoLoad EXCEPT
          !.kind = kind, !.pc = "list",
          !.other = IF kind = "channels" THEN [ready |-> TRUE] ELSE None]]
    /\ since' = [since EXCEPT ![p] = {Now}]
    /\ UNCHANGED <<vars, node, moves>>

\* node_info or list_peers is answered.
OtherAnswers(p) ==
    /\ Loading(p) /\ page[p].other = None
    /\ \E n \in since[p] :
          page' = [page EXCEPT ![p].other =
             IF page[p].kind = "info"
             THEN [channelCount |-> Cardinality(Open(n.channels)),
                   peersCount |-> Cardinality(n.peers)]
             ELSE [peers |-> n.peers]]
    /\ UNCHANGED <<vars, node, since, moves>>

\* list_channels is answered, and nothing else is needed.
ListAnswers(p) ==
    /\ page[p].pc = "list"
    /\ \E n \in since[p] :
          /\ page[p].kind # "info" => ~HasUdtChannel(n.channels)
          /\ page' = [page EXCEPT ![p].pc = "ready", ![p].list = n.channels]
    /\ UNCHANGED <<vars, node, since, moves>>

\* listChannelsDetailed() has a UDT channel to name: loadUdtScripts().
ListNeedsNames(p) ==
    /\ page[p].pc = "list" /\ page[p].kind # "info"
    /\ \E n \in since[p] :
          /\ HasUdtChannel(n.channels)
          /\ page' = [page EXCEPT ![p] = [@ EXCEPT
                !.list = n.channels,
                !.pc = IF cached # None /\ ~InFlight(cached) THEN "ready" ELSE "lookup",
                !.on = IF cached = None THEN p ELSE IF InFlight(cached) THEN cached ELSE None,
                !.rusd = IF cached # None /\ ~InFlight(cached) THEN lookup[cached].script ELSE None]]
    /\ IF cached = None
       THEN cached' = p /\ lookup' = [lookup EXCEPT ![p].state = "asked"]
       ELSE UNCHANGED <<cached, lookup>>
    /\ UNCHANGED <<now, timestamps, req, whitelist, created, rows, budget, node, since, moves>>

\* An RPC times out or fails: Promise.all rejects, and the page says so.
PageRpcFails(p) ==
    /\ Loading(p) /\ (page[p].pc = "list" \/ page[p].other = None)
    /\ page' = [page EXCEPT ![p].pc = "error", ![p].on = None]
    /\ UNCHANGED <<vars, node, since, moves>>

\* The lookup ends for the pages that wait for it as it does for the requests.
PagesResume(l) ==
    /\ page' = [p \in Pages |->
          IF page[p].pc # "lookup" \/ page[p].on # l THEN page[p]
          ELSE IF lookup'[l].state = "kept"
               THEN [page[p] EXCEPT !.pc = "ready", !.rusd = lookup[l].script, !.on = None]
               ELSE [page[p] EXCEPT !.pc = "error", !.on = None]]
    /\ UNCHANGED <<node, since, moves>>

-----------------------------------------------------------------------------
(* The node and a restart                                                  *)

\* A channel opens, changes or is gone; a peer comes or goes.  (Beside no load,
\* that is as good as another initial state.)
NodeMoves ==
    /\ \E p \in Pages : Loading(p)
    /\ moves < MaxMoves /\ moves' = moves + 1
    /\ \/ \E c \in Channels, s \in ChannelStates \cup {None} :
             s # channels[c] /\ channels' = [channels EXCEPT ![c] = s] /\ UNCHANGED peers
       \/ \E q \in Peers : peers' \in {peers \cup {q}, peers \ {q}} \ {peers} /\ UNCHANGED channels
    /\ since' = [p \in Pages |-> IF Loading(p) THEN since[p] \cup {Now'} ELSE since[p]]
    /\ UNCHANGED <<vars, page>>

\* The loads the process was serving are lost with it.
PagesLost ==
    /\ page' = [p \in Pages |->
          IF Loading(p) THEN [page[p] EXCEPT !.pc = "error", !.on = None] ELSE page[p]]
    /\ UNCHANGED <<node, since, moves>>

NextViews ==
    \/ \E r \in Requests : RequestStep(r) /\ UNCHANGED views
    \/ \E l \in Loaders : NodeAnswers(l) /\ UNCHANGED views
    \/ \E l \in Loaders : LookupEnds(l) /\ PagesResume(l)
    \/ (Tick \/ EditWhitelist) /\ UNCHANGED views
    \/ Restart /\ PagesLost
    \/ \E p \in Pages :
         \/ \E kind \in Kinds : OpenPage(p, kind)
         \/ OtherAnswers(p) \/ ListAnswers(p) \/ ListNeedsNames(p) \/ PageRpcFails(p)
    \/ NodeMoves

SpecViews == InitViews /\ [][NextViews]_<<vars, views>>

-----------------------------------------------------------------------------
(* Properties                                                              *)

Loads == [kind : Kinds \cup {"none"}, pc : {"idle", "list", "lookup", "ready", "error"},
          list : [Channels -> ChannelStates \cup {None}] \cup {None},
          other : [ready : {TRUE}] \cup [peers : SUBSET Peers] \cup {None}
                  \cup [channelCount : 0 .. Cardinality(Channels), peersCount : 0 .. Cardinality(Peers)],
          on : Loaders \cup {None}, rusd : Scripts \cup {None}]

TypeOKViews ==
    /\ TypeOK
    /\ channels \in [Channels -> ChannelStates \cup {None}] /\ peers \subseteq Peers
    /\ page \in [Pages -> Loads] /\ moves \in 0 .. MaxMoves

\* The rows of a Channels or Peers page are the channels the node had at one
\* moment of the load, each once and with what it was worth then, whatever moved
\* between the list, the other list and the names: a closing channel is called
\* closing though it is enabled, a channel in CKB is never shown as one of a UDT
\* nor a UDT as CKB, and no two scripts are both RUSD.
RowsOfOneMoment ==
    \A p \in Pages : (Shown(p) /\ page[p].kind # "info") =>
        /\ \E n \in since[p] :
              /\ {d.id : d \in Details(p)} = Open(n.channels)
              /\ \A d \in Details(p) :
                    /\ d.peer = n.channels[d.id].peer
                    /\ d.capacity = n.channels[d.id].local + n.channels[d.id].remote
                    /\ (d.asset = "CKB") = (n.channels[d.id].fundingUdt = None)
                    /\ (d.status = "closing") = n.channels[d.id].closing
                    /\ d.status = "active" => n.channels[d.id].enabled
                    /\ d.status = "disabled" => ~n.channels[d.id].enabled
        /\ \A d, e \in Details(p) : (d.asset = "RUSD" /\ e.asset = "RUSD") =>
              page[p].list[d.id].fundingUdt = page[p].list[e.id].fundingUdt

\* The drawers of the Peers page divide up what its two lists have in common: the
\* capacities of the peers it lists add up to those of their channels, none of
\* which is counted for two peers, whatever came or went between the two answers.
PeersDivideRows ==
    \A p \in Pages : (Shown(p) /\ page[p].kind = "peers") =>
        LET list == page[p].list
            listed == page[p].other.peers
        IN  SumFunction([q \in listed |-> ChannelsForPeer(p, q).totalCapacity])
              = SumFunction([c \in {x \in Open(list) : list[x].peer \in listed} |->
                               list[c].local + list[c].remote])

\* A dot of the topology is lit exactly when some channel of the peer can pay,
\* and dark exactly when none of them can pay or settle, however many there are.
DotsTellStatus ==
    \A p \in Pages : (Shown(p) /\ page[p].kind # "info") =>
        \A q \in DOMAIN ComputeTopology(Details(p)) :
            LET dot == ComputeTopology(Details(p))[q]
                list == page[p].list
                own == {c \in Open(list) : list[c].peer = q}
            IN  /\ own # {}
                /\ (dot = "active") = (\E c \in own : list[c].enabled /\ ~list[c].closing)
                /\ (dot = "disabled") = (\A c \in own : ~list[c].enabled /\ ~list[c].closing)

\* What the node could send or receive at a moment: over all its channels.
Funds(n, side) ==
    SumFunction([c \in Channels |->
        IF n.channels[c] # None /\ n.channels[c].enabled THEN n.channels[c][side] ELSE 0])

\* The Node Status is put together from two answers of two moments.  Both its
\* capacities are those of one moment, and it says "isolated" only of a moment
\* without a peer; and unless a channel opened or closed during the load, it is
\* degraded exactly when some channel was not enabled, at one moment of the load.
\* (A channel that opens or closes between the two answers may pass for a
\* disabled one, or hide one: the code compares counts of two moments.)
StatusOfTwoMoments ==
    \A p \in Pages : (Shown(p) /\ page[p].kind = "info") =>
        /\ \E n \in since[p] :
              /\ NodeStatus(p).inbound = Funds(n, "remote")
              /\ NodeStatus(p).outbound = Funds(n, "local")
              /\ (\A k, l \in since[p] : Open(k.channels) = Open(l.channels)) =>
                    (NodeStatus(p).status = "degraded")
                       = (\E c \in Open(n.channels) : ~n.channels[c].enabled)
        /\ \E m \in since[p] : NodeStatus(p).isolated = (m.peers = {})

\* What the merchant is shown of the node is what the node was.
PagesTellNode == RowsOfOneMoment /\ PeersDivideRows /\ DotsTellStatus /\ StatusOfTwoMoments

\* A page that waits for the names waits for a call that is in flight, and one
\* without a UDT channel waits for none.
NoPageLeftWaiting ==
    \A p \in Pages : page[p].pc = "lookup" =>
        InFlight(page[p].on) /\ HasUdtChannel(page[p].list)

\* Once found, the script of RUSD is that of the process: pages and invoices
\* never call two scripts RUSD, although the node's whitelist may change.
OneWhitelist ==
    \A k, l \in Loaders :
        (lookup[k].state = "kept" /\ lookup[l].state = "kept"
           /\ lookup[k].script # None /\ lookup[l].script # None) => k = l

\* Invoices and pages share the lookup.
LookupSharedByAll == LookupShared /\ [](NoPageLeftWaiting /\ OneWhitelist)
=============================================================================
