-------------------------- MODULE MetricsSnapshot --------------------------
(***************************************************************************)
(* How the metrics plugin turns the channels of listpeerchannels into      *)
(* series: the loop of fetch in cache.rs that builds the channel snapshots *)
(* and the per-peer counts, and the loop of DerivedCollector::collect in   *)
(* metrics.rs that writes them into labelled gauges and counters after the *)
(* totals over all channels.                                               *)
(*                                                                         *)
(* Of the thirteen per-channel figures one gauge (spendable, which also    *)
(* goes into a total) and one counter (offered) are kept: the others are   *)
(* treated like one of the two.  One step of the model is one turn of a    *)
(* loop.                                                                   *)
(***************************************************************************)
EXTENDS Naturals, Sequences, FiniteSets, Functions, FiniteSetsExt

CONSTANTS
    Peers,              \* the peers the node has channels with
    Scids,              \* short channel ids, set once a channel is confirmed
    ChannelIds,         \* channel ids
    Amounts,            \* spendable amounts of a channel
    Counts,             \* payments offered to a channel
    MaxChannels,        \* bound: channels of the node
    None                \* an absent optional field

ASSUME NoneAssumption    == None \notin Scids \cup ChannelIds \cup Amounts
ASSUME AmountsAssumption == Amounts \subseteq Nat /\ Counts \subseteq Nat
ASSUME LabelsAssumption  == Scids \cap ChannelIds = {} /\ "" \notin Scids \cup ChannelIds
ASSUME BoundAssumption   == MaxChannels \in Nat

VARIABLES
    phase,              \* "fetch", "scalars", "collect" or "done"
    k,                  \* the next channel of the loop
    list,               \* listpeerchannels as CLN answered it
    channels,           \* CachedData.channels
    peerCount,          \* peer_channel_count
    connectedCount,     \* peer_connected_count
    totals,             \* the gauges total_outbound_msat, peers and channels
    spendable,          \* the gauge family lightning_channel_spendable_msat
    offered             \* a counter family

vars == <<phase, k, list, channels, peerCount, connectedCount, totals, spendable,
          offered>>

-----------------------------------------------------------------------------
Channel ==
    [peer : Peers, scid : Scids \cup {None}, id : ChannelIds \cup {None},
     connected : BOOLEAN, spendable : Amounts \cup {None}, offered : Counts]

(* Ids that are present are unique in CLN's answer.                        *)
Distinct(s) ==
    \A i, j \in DOMAIN s : i # j =>
        /\ s[i].scid = s[j].scid => s[i].scid = None
        /\ s[i].id = s[j].id => s[i].id = None

NoSeries == [x \in {} |-> 0]

Init ==
    /\ phase = "fetch"
    /\ k = 1
    /\ \E n \in 0 .. MaxChannels : list \in {s \in [1 .. n -> Channel] : Distinct(s)}
    /\ channels = <<>>
    /\ peerCount = NoSeries
    /\ connectedCount = NoSeries
    /\ totals = [outbound |-> 0, peers |-> 0, channels |-> 0]
    /\ spendable = NoSeries
    /\ offered = NoSeries

-----------------------------------------------------------------------------
(* The entry of a map, or 0.                                               *)
Entry(f, x) == IF x \in DOMAIN f THEN f[x] ELSE 0

(* The map f with the entry of x set to v.                                 *)
With(f, x, v) == [y \in DOMAIN f \cup {x} |-> IF y = x THEN v ELSE f[y]]

(* The short channel id, or else the channel id, or else nothing.          *)
ScidLabelOnly(c) == IF c.scid # None THEN c.scid ELSE ""
ScidLabel(c) ==
    IF c.scid # None THEN c.scid ELSE IF c.id # None THEN c.id ELSE ""

AmountOrZero(a) == IF a = None THEN 0 ELSE a

(* One turn of the loop of fetch.                                          *)
CountedConnected(c) == With(connectedCount, c.peer, Entry(connectedCount, c.peer) + 1)
CountConnected(c) == IF c.connected THEN CountedConnected(c) ELSE connectedCount

FetchChannel ==
    /\ phase = "fetch"
    /\ k <= Len(list)
    /\ LET c == list[k]
       IN  /\ peerCount' = With(peerCount, c.peer, Entry(peerCount, c.peer) + 1)
           /\ connectedCount' = CountConnected(c)
           /\ channels' = Append(channels,
                            [peer |-> c.peer, scid |-> ScidLabel(c),
                             spendable |-> AmountOrZero(c.spendable), offered |-> c.offered])
    /\ k' = k + 1
    /\ UNCHANGED <<phase, list, totals, spendable, offered>>

FetchEnds ==
    /\ phase = "fetch"
    /\ k > Len(list)
    /\ phase' = "scalars"
    /\ k' = 1
    /\ UNCHANGED <<list, channels, peerCount, connectedCount, totals, spendable, offered>>

(* The sum of the values of a function.                                    *)
Total(f) == MapThenSumSet(LAMBDA x : f[x], DOMAIN f)

(* The gauges without labels, from the snapshots and not from the series.  *)
OutboundDistinct == MapThenSumSet(LAMBDA ch : ch.spendable, Range(channels))
Outbound == Total([i \in DOMAIN channels |-> channels[i].spendable])

CollectScalars ==
    /\ phase = "scalars"
    /\ phase' = "collect"
    /\ totals' = [outbound |-> Outbound, peers |-> Cardinality(DOMAIN peerCount),
                  channels |-> Len(channels)]
    /\ UNCHANGED <<k, list, channels, peerCount, connectedCount, spendable, offered>>

(* One turn of the loop of collect: gauges are set, counters start at zero *)
(* in every scrape and are increased by CLN's figure.                      *)
Increased(f, x, v) == With(f, x, Entry(f, x) + v)

CollectChannel ==
    /\ phase = "collect"
    /\ k <= Len(channels)
    /\ LET ch == channels[k]
           labels == <<ch.peer, ch.scid>>
       IN  /\ spendable' = With(spendable, labels, ch.spendable)
           /\ offered' = Increased(offered, labels, ch.offered)
    /\ k' = k + 1
    /\ UNCHANGED <<phase, list, channels, peerCount, connectedCount, totals>>

CollectEnds ==
    /\ phase = "collect"
    /\ k > Len(channels)
    /\ phase' = "done"
    /\ UNCHANGED <<k, list, channels, peerCount, connectedCount, totals, spendable, offered>>

Next == FetchChannel \/ FetchEnds \/ CollectScalars \/ CollectChannel \/ CollectEnds

Spec == Init /\ [][Next]_vars

-----------------------------------------------------------------------------
(* The gauges of a peer.                                                   *)

PeerChannels(p) == peerCount[p]
PeerChannelConnected(p) == Entry(connectedCount, p)
PeerConnected(p) == PeerChannelConnected(p) > 0

-----------------------------------------------------------------------------
(* Properties.                                                             *)

Of(p) == {i \in DOMAIN list : list[i].peer = p}
Connected(p) == {i \in Of(p) : list[i].connected}

(* A peer has series exactly when it has a channel; they say how many      *)
(* channels it has and how many of them are connected, and it counts as    *)
(* connected when one is.                                                  *)
PeerSeriesAreRight ==
    phase # "fetch" =>
        /\ DOMAIN peerCount = {p \in Peers : Of(p) # {}}
        /\ \A p \in DOMAIN peerCount :
             /\ PeerChannels(p) = Cardinality(Of(p))
             /\ PeerChannelConnected(p) = Cardinality(Connected(p))
             /\ PeerConnected(p) <=> Connected(p) # {}

HasId(c) == c.scid # None \/ c.id # None
SameLabels(i, j) ==
    list[i].peer = list[j].peer /\ ~HasId(list[i]) /\ ~HasId(list[j])

(* A gauge family keeps every channel that has an id: its amount is under  *)
(* its own label.  When no two channels without an id belong to one peer   *)
(* the amounts add up to the total; otherwise the last such channel hides  *)
(* the others, and the total is never less than what the family shows.  A  *)
(* counter family loses nothing either way.                                *)
AmountsAreShown ==
    phase = "done" =>
        /\ \A i \in DOMAIN list : HasId(list[i]) =>
             spendable[<<list[i].peer, ScidLabel(list[i])>>] = AmountOrZero(list[i].spendable)
        /\ Total(spendable) <= totals.outbound
        /\ (\A i, j \in DOMAIN list : SameLabels(i, j) => i = j) =>
             Total(spendable) = totals.outbound
        /\ Total(offered) = Total([i \in DOMAIN list |-> list[i].offered])

(* The totals count what CLN reported, channels whose labels collide       *)
(* included, and agree with the series of the peers.                       *)
TotalsCountAll ==
    phase = "done" =>
        /\ totals.outbound = Total([i \in DOMAIN list |-> AmountOrZero(list[i].spendable)])
        /\ totals.channels = Total(peerCount)
        /\ totals.peers = Cardinality({list[i].peer : i \in DOMAIN list})
=============================================================================
