------------------------------ MODULE OdinConfig ------------------------------
(***************************************************************************)
(* Odin's dynamic configuration (base/src/odin/Odin.ts, ZkClient.ts): two  *)
(* trees of Zookeeper, one shared by all services and one of this service, *)
(* are loaded by every client that connects and followed through watches.  *)
(* A client whose connection or session is lost is replaced by a new one   *)
(* but never closed.                                                       *)
(*                                                                         *)
(* A tree is a root and its leaves; the leaves' own, empty, lists of       *)
(* children are read together with their values.  A value is its version.  *)
(* Zookeeper answers the requests of a session in order, and reports a     *)
(* change before it answers a later request.                               *)
(***************************************************************************)
EXTENDS Integers, Sequences

CONSTANTS
  Keys,        \* configuration keys
  Initial,     \* the nodes that exist at first, of Trees \X Keys
  Writable,    \* the nodes whose value somebody changes
  Alterable,   \* the nodes that somebody creates or deletes
  MaxWrites,   \* bound: changes in Zookeeper
  MaxAltered,  \* bound: changes that create or delete a node
  MaxLosses,   \* bound: connections lost
  MaxExpiries  \* bound: sessions expired

Trees == {"base", "service"}
Root == "root"
Nodes == Trees \X (Keys \cup {Root})
Leaves == Trees \X Keys
Clients == 1..(1 + MaxLosses + MaxExpiries)

ASSUME KeysAssumption == Root \notin Keys /\ Initial \cup Writable \cup Alterable \subseteq Leaves
ASSUME BoundsAssumption ==
  MaxWrites \in Nat /\ MaxAltered \in Nat /\ MaxLosses \in Nat /\ MaxExpiries \in Nat

VARIABLES
  node,      \* Zookeeper: version of every node, 0 when it does not exist
  watches,   \* Zookeeper: nodes watched by each client, for their data
  lists,     \* Zookeeper: trees whose list of children each client watches
  status,    \* per client: "none", "connecting", "up", "down" or "expired"
  asked,     \* per client: requests not served yet
  inbox,     \* per client: replies and events not delivered yet
  current,   \* this.zkClient
  connected, \* zkConnected
  load,      \* per client: the load its first connection started
  props,     \* Odin.props with Odin.propLevel
  started,   \* loadDynamicProps has not settled ("no"), is "ready" or "failed"
  writes, alterations, losses,
  mishaps,   \* history: which of Mishaps have happened
  altered    \* history: keys of which a node was created or deleted

zkVars == <<node, watches, lists, writes, alterations, altered>>
netVars == <<status, asked, inbox, losses>>
processVars == <<current, connected, load, props, started>>
odinVars == <<zkVars, netVars, processVars, mishaps>>

Mishaps == {
  "aborted",    \* a load met an error, and the nodes after it were not read
  "cut" }       \* the first load ended early because the connection was lost

(* A load: the tree it is in, and the leaves of it left to read.           *)
Load(stage, tree, leaves) == [state |-> stage, tree |-> tree, leaves |-> leaves]

(* For whom a request is made: a client's load, or (0) a watch.            *)
ListOf(l, tree) == [kind |-> "list", node |-> <<tree, Root>>, load |-> l]
DataOf(l, n) == [kind |-> "data", node |-> n, load |-> l]
Event(n) == [kind |-> "event", node |-> n]
Reply(request, found) == [kind |-> "reply", request |-> request, found |-> found]
IsReply(message) == message.kind = "reply"

Levels == {"local", "base", "service"}
Rank(level) == CASE level = "local" -> 0 [] level = "base" -> 2 [] level = "service" -> 3
-----------------------------------------------------------------------------
OdinInit ==
  /\ node = [n \in Nodes |-> IF n \in Initial \/ n[2] = Root THEN 1 ELSE 0]
  /\ watches = [c \in Clients |-> {}]
  /\ lists = [c \in Clients |-> {}]
  /\ status = [c \in Clients |-> IF c = 1 THEN "connecting" ELSE "none"]
  /\ asked = [c \in Clients |-> <<>>]
  /\ inbox = [c \in Clients |-> <<>>]
  /\ current = 1
  /\ connected = FALSE
  /\ load = [c \in Clients |-> Load("none", "base", {})]
  /\ props = [k \in Keys |-> [level |-> "local", version |-> 0]]
  /\ started = "no"
  /\ writes = 0 /\ alterations = 0 /\ losses = 0
  /\ mishaps = {} /\ altered = {}
-----------------------------------------------------------------------------
(* Zookeeper.  A watch is gone once it has fired.                          *)
Fire(n, trees) ==
  /\ inbox' = [c \in Clients |-> inbox[c]
       \o (IF n \in watches[c] THEN <<Event(n)>> ELSE <<>>)
       \o (IF n[1] \in lists[c] \cap trees THEN <<Event(<<n[1], Root>>)>> ELSE <<>>)]
  /\ watches' = [c \in Clients |-> watches[c] \ {n}]
  /\ lists' = [c \in Clients |-> lists[c] \ trees]

(* Somebody changes, creates or deletes a node.                            *)
Write(n) ==
  /\ writes < MaxWrites
  /\ writes' = writes + 1
  /\ \E version \in {0, writes + 2} :
       /\ node[n] # 0 \/ version # 0
       /\ node' = [node EXCEPT ![n] = version]
       /\ \/ /\ n \in Writable
             /\ node[n] # 0 /\ version # 0
             /\ Fire(n, {})
             /\ UNCHANGED <<alterations, altered>>
          \/ /\ n \in Alterable
             /\ node[n] = 0 \/ version = 0
             /\ alterations < MaxAltered
             /\ alterations' = alterations + 1
             /\ altered' = altered \cup {n[2]}
             /\ Fire(n, {n[1]})
  /\ UNCHANGED <<status, asked, losses, processVars, mishaps>>

(* Mutant: a node that is read again is not watched again.                 *)
ServeOnce(c) ==
  /\ status[c] = "up"
  /\ asked[c] # <<>>
  /\ LET request == Head(asked[c])
         n == request.node
     IN \/ /\ request.kind = "list"
           /\ inbox' = [inbox EXCEPT ![c] =
                Append(@, Reply(request, {k \in Keys : node[<<n[1], k>>] # 0}))]
           /\ lists' = [lists EXCEPT ![c] = @ \cup {n[1]}]
           /\ UNCHANGED watches
        \/ /\ request.kind = "data"
           /\ inbox' = [inbox EXCEPT ![c] = Append(@, Reply(request, node[n]))]
           /\ watches' = [watches EXCEPT ![c] = IF node[n] # 0 /\ request.load # 0 THEN @ \cup {n} ELSE @]
           /\ UNCHANGED lists
  /\ asked' = [asked EXCEPT ![c] = Tail(@)]
  /\ UNCHANGED <<node, writes, alterations, altered, status, losses, processVars, mishaps>>

(* The first request of a session is served; what is read is watched.      *)
Serve(c) ==
  /\ status[c] = "up"
  /\ asked[c] # <<>>
  /\ LET request == Head(asked[c])
         n == request.node
     IN \/ /\ request.kind = "list"
           /\ inbox' = [inbox EXCEPT ![c] =
                Append(@, Reply(request, {k \in Keys : node[<<n[1], k>>] # 0}))]
           /\ lists' = [lists EXCEPT ![c] = @ \cup {n[1]}]
           /\ UNCHANGED watches
        \/ /\ request.kind = "data"
           /\ inbox' = [inbox EXCEPT ![c] = Append(@, Reply(request, node[n]))]
           /\ watches' = [watches EXCEPT ![c] = IF node[n] # 0 THEN @ \cup {n} ELSE @]
           /\ UNCHANGED lists
  /\ asked' = [asked EXCEPT ![c] = Tail(@)]
  /\ UNCHANGED <<node, writes, alterations, altered, status, losses, processVars, mishaps>>
-----------------------------------------------------------------------------
(* Requests are made of whatever client is current.                        *)
Ask(request) == asked' = [asked EXCEPT ![current] = Append(@, request)]

(* Mutant: whoever comes last wins.                                        *)
SetDynamicPropsLast(n, version) ==
  props' = [k \in Keys |-> IF k = n[2] THEN [level |-> n[1], version |-> version] ELSE props[k]]

(* The service's tree has precedence over the shared one.                  *)
SetDynamicProps(n, version) ==
  props' = [k \in Keys |->
    IF k = n[2] /\ Rank(props[k].level) <= Rank(n[1])
    THEN [level |-> n[1], version |-> version] ELSE props[k]]

LoadEnds(l) ==
  /\ load' = [load EXCEPT ![l].state = "done"]
  /\ started' = IF l = 1 THEN "ready" ELSE started

(* A load goes on: with the next leaf, with the next tree, or it is        *)
(* through.  Without a connection what is left counts as loaded.           *)
Proceed(l, tree, leaves) ==
  \/ /\ connected
     /\ \/ \E k \in leaves :
             /\ load' = [load EXCEPT ![l] = Load("reading", tree, leaves \ {k})]
             /\ Ask(DataOf(l, <<tree, k>>))
        \/ /\ leaves = {} /\ tree = "base"
           /\ load' = [load EXCEPT ![l] = Load("reading", "service", {})]
           /\ Ask(ListOf(l, "service"))
     /\ UNCHANGED <<started, mishaps>>
  \/ /\ leaves = {} /\ tree = "service"
     /\ LoadEnds(l)
     /\ UNCHANGED <<asked, mishaps>>
  \/ /\ ~connected
     /\ leaves # {} \/ tree # "service"
     /\ LoadEnds(l)
     /\ mishaps' = IF l = 1 THEN mishaps \cup {"cut"} ELSE mishaps
     /\ UNCHANGED asked

(* The callbacks of reads that have failed.  A load of which a root cannot *)
(* be listed fails.  When another read fails, an async callback is         *)
(* rejected and nobody is told: the load stops and never settles.  (The    *)
(* rejection is logged by signalHandler, or ends a process that has not    *)
(* registered it yet, which here is to stop taking steps.)                 *)
ReadsFailed(requests) ==
  LET stopped == {request.load : request \in requests} \ {0} IN
  /\ load' = [l \in Clients |-> IF l \in stopped THEN [load[l] EXCEPT !.state = "aborted"] ELSE load[l]]
  /\ started' = IF ListOf(1, "base") \in requests \/ ListOf(1, "service") \in requests THEN "failed" ELSE started
  /\ mishaps' = IF stopped # {} THEN mishaps \cup {"aborted"} ELSE mishaps

(* Mutant: the error of a read is ignored.                                 *)
DeliverReplyUnchecked(request, found) ==
  LET l == request.load IN
  \/ /\ request.kind = "list"
     /\ Proceed(l, request.node[1], found)
     /\ UNCHANGED props
  \/ /\ request.kind = "data"
     /\ SetDynamicProps(request.node, found)
     /\ \/ l # 0 /\ Proceed(l, load[l].tree, load[l].leaves)
        \/ l = 0 /\ UNCHANGED <<asked, load, started, mishaps>>

(* The callback of a read: for a load the next one follows.                *)
DeliverReply(request, found) ==
  LET l == request.load IN
  \/ /\ request.kind = "list"
     /\ Proceed(l, request.node[1], found)
     /\ UNCHANGED props
  \/ /\ request.kind = "data" /\ found # 0
     /\ SetDynamicProps(request.node, found)
     /\ \/ l # 0 /\ Proceed(l, load[l].tree, load[l].leaves)
        \/ l = 0 /\ UNCHANGED <<asked, load, started, mishaps>>
  \/ /\ request.kind = "data" /\ found = 0
     /\ ReadsFailed({request})
     /\ UNCHANGED <<asked, props>>

(* A watch: the node of the event is read again, and watched again.  When  *)
(* the children of a tree have changed that node is its root, and neither  *)
(* the list nor a new child is read.                                       *)
DeliverEvent(n) ==
  /\ \/ connected /\ Ask(DataOf(0, n))
     \/ ~connected /\ UNCHANGED asked
  /\ UNCHANGED <<load, props, started, mishaps>>

Deliver(c) ==
  /\ status[c] = "up"
  /\ inbox[c] # <<>>
  /\ LET message == Head(inbox[c]) IN
     \/ IsReply(message) /\ DeliverReply(message.request, message.found)
     \/ ~IsReply(message) /\ DeliverEvent(message.node)
  /\ inbox' = [inbox EXCEPT ![c] = Tail(@)]
  /\ UNCHANGED <<zkVars, status, losses, current, connected>>
-----------------------------------------------------------------------------
(* Mutant: the loads are not awaited.                                      *)
ConnectUnawaited(c) ==
  /\ status[c] = "connecting"
  /\ status' = [status EXCEPT ![c] = "up"]
  /\ connected' = TRUE
  /\ load' = [load EXCEPT ![c] = Load("reading", "base", {})]
  /\ Ask(ListOf(c, "base"))
  /\ started' = IF c = 1 THEN "ready" ELSE started
  /\ UNCHANGED <<zkVars, inbox, losses, current, props, mishaps>>

(* A client connects for the first time and starts a load.                 *)
Connect(c) ==
  /\ status[c] = "connecting"
  /\ status' = [status EXCEPT ![c] = "up"]
  /\ connected' = TRUE
  /\ load' = [load EXCEPT ![c] = Load("reading", "base", {})]
  /\ Ask(ListOf(c, "base"))
  /\ UNCHANGED <<zkVars, inbox, losses, current, props, started, mishaps>>

(* Later connections of the same session are made by the library.          *)
Reconnect(c) ==
  /\ status[c] = "down"
  /\ status' = [status EXCEPT ![c] = "up"]
  /\ UNCHANGED <<zkVars, asked, inbox, losses, processVars, mishaps>>

(* The handler of DISCONNECTED and EXPIRED: a client is lost, another is   *)
(* created.                                                                *)
Replace(c, lost) ==
  /\ current' = current + 1
  /\ status' = [status EXCEPT ![c] = lost, ![current + 1] = "connecting"]
  /\ connected' = FALSE

(* The elements of s at these positions, in their order.                   *)
Picked(s, positions) ==
  LET first[n \in 0..Len(s)] ==
        IF n = 0 THEN <<>>
        ELSE IF n \in positions THEN Append(first[n - 1], s[n]) ELSE first[n - 1]
  IN first[Len(s)]

(* A connection is lost: replies on their way will be asked for again.     *)
Disconnected(c) ==
  /\ status[c] = "up"
  /\ losses < MaxLosses
  /\ losses' = losses + 1
  /\ Replace(c, "down")
  /\ LET lost == {i \in DOMAIN inbox[c] : IsReply(inbox[c][i])}
         again == Picked(inbox[c], lost)
     IN /\ asked' = [asked EXCEPT ![c] = [i \in DOMAIN again |-> again[i].request] \o @]
        /\ inbox' = [inbox EXCEPT ![c] = Picked(@, DOMAIN @ \ lost)]
  /\ UNCHANGED <<zkVars, load, props, started, mishaps>>

(* A request has been retried often enough.                                *)
GiveUp(c) ==
  /\ status[c] = "down"
  /\ asked[c] # <<>>
  /\ ReadsFailed({Head(asked[c])})
  /\ asked' = [asked EXCEPT ![c] = Tail(@)]
  /\ UNCHANGED <<zkVars, status, inbox, losses, current, connected, props>>

(* A session expires, with its watches and its requests.                   *)
Expired(c) ==
  /\ status[c] = "down"
  /\ current < 1 + losses + MaxExpiries
  /\ Replace(c, "expired")
  /\ ReadsFailed({asked[c][i] : i \in DOMAIN asked[c]})
  /\ asked' = [asked EXCEPT ![c] = <<>>]
  /\ inbox' = [inbox EXCEPT ![c] = <<>>]
  /\ watches' = [watches EXCEPT ![c] = {}]
  /\ lists' = [lists EXCEPT ![c] = {}]
  /\ UNCHANGED <<node, writes, alterations, altered, losses, props>>
-----------------------------------------------------------------------------
ClientStep(c) ==
  \/ Serve(c)
  \/ Deliver(c)
  \/ Connect(c)
  \/ Reconnect(c)

OdinNext ==
  \/ \E n \in Writable \cup Alterable : Write(n)
  \/ \E c \in Clients : ClientStep(c) \/ Disconnected(c) \/ GiveUp(c) \/ Expired(c)

OdinSpec == OdinInit /\ [][OdinNext]_odinVars

(* Fairness: Zookeeper is reachable again and answers, and the event loop  *)
(* runs the callbacks.  Nodes need not change, and no loss is forced.      *)
OdinFairSpec == OdinSpec /\ \A c \in Clients : WF_odinVars(ClientStep(c))
-----------------------------------------------------------------------------
Requests ==
  [kind: {"list"}, node: Trees \X {Root}, load: Clients]
    \cup [kind: {"data"}, node: Nodes, load: {0} \cup Clients]

OdinTypeOK ==
  /\ node \in [Nodes -> 0..(MaxWrites + 1)]
  /\ watches \in [Clients -> SUBSET Nodes]
  /\ lists \in [Clients -> SUBSET Trees]
  /\ status \in [Clients -> {"none", "connecting", "up", "down", "expired"}]
  /\ \A c \in Clients : \A i \in DOMAIN asked[c] : asked[c][i] \in Requests
  /\ \A c \in Clients : \A i \in DOMAIN inbox[c] :
       IF IsReply(inbox[c][i]) THEN inbox[c][i].request \in Requests ELSE inbox[c][i].node \in Nodes
  /\ current \in Clients
  /\ connected \in BOOLEAN
  /\ load \in [Clients -> [state: {"none", "reading", "done", "aborted"}, tree: Trees, leaves: SUBSET Keys]]
  /\ props \in [Keys -> [level: Levels, version: 0..(MaxWrites + 1)]]
  /\ \A k \in Keys : props[k].level = "local" <=> props[k].version = 0
  /\ started \in {"no", "ready", "failed"}
  /\ writes \in 0..MaxWrites /\ alterations \in 0..MaxAltered /\ losses \in 0..MaxLosses
  /\ mishaps \subseteq Mishaps /\ altered \subseteq Keys

(* What a key should be: its node in the service's tree, or else in the    *)
(* shared one, or else what the service itself was configured with.        *)
Wanted(k) ==
  CASE node[<<"service", k>>] # 0 -> [level |-> "service", version |-> node[<<"service", k>>]]
    [] node[<<"service", k>>] = 0 /\ node[<<"base", k>>] # 0 -> [level |-> "base", version |-> node[<<"base", k>>]]
    [] OTHER -> [level |-> "local", version |-> 0]

Synced == \A k \in Keys \ altered : props[k] = Wanted(k)

Quiet ==
  \A c \in Clients :
    /\ asked[c] = <<>> /\ inbox[c] = <<>>
    /\ status[c] # "connecting"
    /\ load[c].state # "reading"

(* When nothing is on its way, every key has the value and the level that  *)
(* Zookeeper gives it, whatever clients were lost at whatever moment and   *)
(* in whatever order replies and events of several clients arrived; unless *)
(* its own nodes appeared or went, or a load was aborted                   *)
(* (ZkClient.ts:70-83, 208-255, Odin.ts:108-131).                          *)
QuietIsCurrent == Quiet /\ "aborted" \notin mishaps => Synced

(* loadDynamicProps succeeds only when every node that existed was read,   *)
(* unless the connection was lost meanwhile: then it succeeds with what it *)
(* has (ZkClient.ts:144-153, 222-231).                                     *)
StartedIsLoaded ==
  started = "ready" /\ "cut" \notin mishaps =>
    \A n \in Initial : n[2] \notin altered => Rank(props[n[2]].level) >= Rank(n[1])

(* In the end every change of a node arrives, with the same exceptions.    *)
ChangesArrive == <>[]("aborted" \in mishaps \/ Synced)
=============================================================================
