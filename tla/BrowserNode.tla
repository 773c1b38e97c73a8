---------------------------- MODULE BrowserNode ----------------------------
(* The life of the node that a browser page runs, and the proxy that gives   *)
(* it a UDP socket.  Every load of the page makes a node: from the identity   *)
(* that an earlier load left in the browser's database if it can, from        *)
(* scratch otherwise, opens one websocket to the proxy, and stores its        *)
(* identity and then its peers.  All loads share one database, a load can be   *)
(* closed at any time, and the proxy hears of that later.                      *)
(*   init, createNodeFrom... (App.tsx), create, start, storeNodeDetails       *)
(*   (client.ts), start (websockets.ts, capacitorUdp.ts), proxy/src/index.ts. *)
(* Left out: builds with BINDADDRESS, which never read the database, and the   *)
(* listener for 'multiaddrUpdated', whose `portal` is still the undefined of    *)
(* the first rendering: it stores nothing.                                     *)
(* The identity made from scratch by a load is named by the load.              *)
EXTENDS FiniteSets, Naturals

CONSTANTS Load,    \* the loads of the page, reloads and second tabs alike
          None     \* no value under a key

ASSUME LoadAssumption == None \notin Load

VARIABLES mode,        \* how packets travel: "ports", "persistent" or "mobile"
          restorable,  \* whether discv5 makes a key pair of a stored peer id
          disk,        \* the browser's database: enr, peerid, peers
          page,        \* what each load of the page is doing
          proxy,       \* "up", "stopped" or "crashed"
          clients,     \* the websockets the proxy counts
          udp,         \* the websockets with an open UDP socket
          together,    \* two loads have been open at the same time
          crossed,     \* an identity was stored between the reads of a load
          refused      \* the loads turned away, with the clients then counted

vars == <<mode, restorable, disk, page, proxy, clients, udp, together,
          crossed, refused>>

Id == Load \cup {None}

Pc == {"unused", "enr", "peerid", "peers", "start", "dialing", "open",
       "batch", "put", "up", "failed", "closed"}

(* A load of the page: where init() is, the identity of its node as two       *)
(* values, and the address message of the proxy, sent and then handled.       *)
Page == [pc: Pc, enr: Id, key: Id, address: {"none", "sent", "heard"}]

NewPage == [pc |-> "unused", enr |-> None, key |-> None, address |-> "none"]

Alive(l) == page[l].pc \notin {"unused", "closed"}

Init ==
  /\ mode \in {"ports", "persistent", "mobile"}
  /\ restorable \in BOOLEAN
  /\ disk = [enr |-> None, peerid |-> None, peers |-> FALSE]
  /\ page = [l \in Load |-> NewPage]
  /\ proxy = "up"
  /\ clients = {} /\ udp = {}
  /\ together = FALSE /\ crossed = FALSE
  /\ refused = {}

proxyVars == <<proxy, clients, udp, refused>>
fixed == <<mode, restorable>>

----------------------------------------------------------------------------
(* The page.                                                                 *)

Open(l) ==
  /\ page[l].pc = "unused"
  /\ page' = [page EXCEPT ![l].pc = "enr"]
  /\ together' = (together \/ \E k \in Load : Alive(k))
  /\ UNCHANGED <<fixed, disk, crossed, proxyVars>>

(* createNodeFromStorage rejected: init() goes on with a fresh identity.      *)
FromScratch(l) ==
  page' = [page EXCEPT ![l].pc = "start", ![l].enr = l, ![l].key = l]

(* create() awaits one value of the database after another; a missing one      *)
(* rejects.                                                                    *)
ReadEnr(l) ==
  /\ page[l].pc = "enr"
  /\ \/ /\ disk.enr = None
        /\ FromScratch(l)
     \/ /\ disk.enr # None
        /\ page' = [page EXCEPT ![l].pc = "peerid", ![l].enr = disk.enr]
  /\ UNCHANGED <<fixed, disk, together, crossed, proxyVars>>

ReadPeerid(l) ==
  /\ page[l].pc = "peerid"
  /\ \/ /\ disk.peerid = None
        /\ FromScratch(l)
     \/ /\ disk.peerid # None
        /\ page' = [page EXCEPT ![l].pc = "peers", ![l].key = disk.peerid]
  /\ UNCHANGED <<fixed, disk, together, crossed, proxyVars>>

(* A slip of ReadPeers: a list without peers counts as missing, as it is at        *)
(* first.                                                                       *)
ReadPeersNoneYet(l) ==
  /\ page[l].pc = "peers"
  /\ FromScratch(l)
  /\ UNCHANGED <<fixed, disk, together, crossed, proxyVars>>

(* With all three values the node is made, unless the library finds no         *)
(* private key in a peer id read back, or refuses a record signed by another    *)
(* key; what it does with such a record is left open.                          *)
ReadPeers(l) ==
  /\ page[l].pc = "peers"
  /\ \/ /\ ~disk.peers \/ ~restorable \/ page[l].enr # page[l].key
        /\ FromScratch(l)
     \/ /\ disk.peers /\ restorable
        /\ page' = [page EXCEPT ![l].pc = "start"]
  /\ UNCHANGED <<fixed, disk, together, crossed, proxyVars>>

(* start() of the transport opens the websocket; in the mobile shells it binds   *)
(* a UDP socket, which may fail.                                                *)
Dial(l) ==
  /\ page[l].pc = "start"
  /\ \/ /\ mode # "mobile"
        /\ page' = [page EXCEPT ![l].pc = "dialing"]
     \/ /\ mode = "mobile"
        /\ \E pc \in {"batch", "failed"} : page' = [page EXCEPT ![l].pc = pc]
  /\ UNCHANGED <<fixed, disk, together, crossed, proxyVars>>

(* No proxy answers: start() rejects, so does init(), and nothing is stored.     *)
DialFails(l) ==
  /\ page[l].pc = "dialing" /\ proxy # "up"
  /\ page' = [page EXCEPT ![l] = [NewPage EXCEPT !.pc = "failed"]]
  /\ UNCHANGED <<fixed, disk, together, crossed, proxyVars>>

(* The websocket is open, for a rejected client too: start() returns and          *)
(* storeNodeDetails is called.                                                  *)
Started(l) ==
  /\ page[l].pc = "open"
  /\ page' = [page EXCEPT ![l].pc = "batch"]
  /\ UNCHANGED <<fixed, disk, together, crossed, proxyVars>>

(* A slip of Batch: two operations, of which the page lives to see the first.     *)
BatchHalf(d, p) == [d EXCEPT !.enr = p.enr]

(* storeNodeDetails: both halves of the identity in one batch, ...               *)
Batch(d, p) == [d EXCEPT !.enr = p.enr, !.peerid = p.key]

StoreIdentity(l) ==
  /\ page[l].pc = "batch"
  /\ disk' = Batch(disk, page[l])
  /\ page' = [page EXCEPT ![l].pc = "put"]
  /\ crossed' = (crossed \/ \E k \in Load : page[k].pc = "peerid")
  /\ UNCHANGED <<fixed, together, proxyVars>>

(* ... then the peers, with an operation of their own.                           *)
StorePeers(l) ==
  /\ page[l].pc = "put"
  /\ disk' = [disk EXCEPT !.peers = TRUE]
  /\ page' = [page EXCEPT ![l].pc = "up"]
  /\ UNCHANGED <<fixed, together, crossed, proxyVars>>

(* The 6 bytes the proxy sends first.                                          *)
HearAddress(l) ==
  /\ page[l].pc \in {"batch", "put", "up"} /\ page[l].address = "sent"
  /\ page' = [page EXCEPT ![l].address = "heard"]
  /\ UNCHANGED <<fixed, disk, together, crossed, proxyVars>>

(* The page is closed or reloaded, in the middle of anything.                    *)
Close(l) ==
  /\ Alive(l)
  /\ page' = [page EXCEPT ![l] = [NewPage EXCEPT !.pc = "closed"]]
  /\ UNCHANGED <<fixed, disk, together, crossed, proxyVars>>

----------------------------------------------------------------------------
(* The proxy.                                                                *)

(* The UDP port of a client: the persistent one, or one the system finds free.    *)
Port(l) == IF mode = "persistent" THEN None ELSE l

InUse(port) == \E k \in udp : Port(k) = port

(* Slips of TurnedAway: off by one on either side.                               *)
TurnedAwayLate(counted) == mode = "persistent" /\ Cardinality(counted) > 2
TurnedAwayAlone(counted) == mode = "persistent" /\ Cardinality(counted) > 0

(* With --persistentPort a second client is turned away; a client counts        *)
(* from its arrival to its close event, the rejected ones included.              *)
TurnedAway(counted) == mode = "persistent" /\ Cardinality(counted) > 1

(* A port that is in use raises an 'error' event nobody listens to: the           *)
(* process ends.                                                               *)
Bind(l, counted) ==
  \/ /\ ~InUse(Port(l))
     /\ clients' = counted /\ udp' = udp \cup {l}
     /\ UNCHANGED proxy
  \/ /\ InUse(Port(l))
     /\ proxy' = "crashed" /\ clients' = {} /\ udp' = {}

(* The 'connection' handler; the upgrade has opened the page's websocket.          *)
Connect(l) ==
  /\ page[l].pc = "dialing" /\ proxy = "up"
  /\ LET counted == clients \cup {l} IN
     \/ /\ TurnedAway(counted)
        /\ clients' = counted
        /\ refused' = refused \cup {<<l, clients>>}
        /\ page' = [page EXCEPT ![l].pc = "open"]
        /\ UNCHANGED <<proxy, udp>>
     \/ /\ ~TurnedAway(counted)
        /\ Bind(l, counted)
        /\ page' = [page EXCEPT ![l].pc = "open",
                                ![l].address = IF l \in udp' THEN "sent" ELSE @]
        /\ UNCHANGED refused
  /\ UNCHANGED <<fixed, disk, together, crossed>>

(* The 'close' event of a websocket: of one whose page is gone, or of a rejected     *)
(* one whose page has answered the close.                                       *)
ClientGone(l) ==
  /\ l \in clients
  /\ page[l].pc = "closed" \/ l \notin udp
  /\ clients' = clients \ {l}
  /\ udp' = udp \ {l}
  /\ UNCHANGED <<fixed, disk, page, together, crossed, proxy, refused>>

(* SIGTERM or SIGINT, and the operator's next start.                             *)
Stop ==
  /\ proxy = "up"
  /\ proxy' = "stopped" /\ clients' = {} /\ udp' = {}
  /\ UNCHANGED <<fixed, disk, page, together, crossed, refused>>

Restart ==
  /\ proxy # "up"
  /\ proxy' = "up"
  /\ UNCHANGED <<fixed, disk, page, together, crossed, clients, udp, refused>>

----------------------------------------------------------------------------
PageStep(l) ==
  \/ ReadEnr(l) \/ ReadPeerid(l) \/ ReadPeers(l)
  \/ Dial(l) \/ DialFails(l) \/ Connect(l) \/ Started(l)
  \/ StoreIdentity(l) \/ StorePeers(l)

Next ==
  \/ \E l \in Load : \/ Open(l) \/ PageStep(l) \/ HearAddress(l) \/ Close(l)
                     \/ ClientGone(l)
  \/ Stop \/ Restart

Spec == Init /\ [][Next]_vars

(* The event loops of the page and of the proxy run what is due; what a proxy    *)
(* sent before it ended may be lost.                                            *)
FairSpec ==
  Spec /\ \A l \in Load : /\ WF_vars(PageStep(l))
                          /\ WF_vars(l \in udp /\ HearAddress(l))
                          /\ WF_vars(ClientGone(l))

----------------------------------------------------------------------------
TypeOK ==
  /\ mode \in {"ports", "persistent", "mobile"} /\ restorable \in BOOLEAN
  /\ disk \in [enr: Id, peerid: Id, peers: BOOLEAN]
  /\ page \in [Load -> Page]
  /\ proxy \in {"up", "stopped", "crashed"}
  /\ clients \in SUBSET Load /\ udp \in SUBSET clients
  /\ together \in BOOLEAN /\ crossed \in BOOLEAN
  /\ refused \in SUBSET (Load \X SUBSET Load)

(* The proxy never binds a UDP port twice, which would end its process: not     *)
(* when a page is reloaded while the old websocket still closes, nor after a    *)
(* client was turned away ("accepts only a single websocket connection per      *)
(* specified port", the proxy's README).                                       *)
ProxyStaysUp == proxy # "crashed"

(* The halves of the identity belong together, in the database and in every      *)
(* node that runs, wherever a page was closed; unless one load stored its        *)
(* identity between the two reads of another.                                   *)
IdentityIsWhole ==
  \/ crossed
  \/ /\ disk.enr = disk.peerid
     /\ \A l \in Load :
          page[l].pc \in {"start", "dialing", "open", "batch", "put", "up"} =>
            page[l].enr # None /\ page[l].enr = page[l].key

(* A browser with one page open at a time keeps its identity from the first       *)
(* load whose peers were stored: whatever load is closed where, a later one       *)
(* does not put another identity in its place.                                  *)
IdentityKept ==
  [][restorable /\ ~together /\ disk.peers => disk'.enr = disk.enr]_vars

(* The websocket of a load that was served is gone: closed, or its proxy ended.   *)
Cut(l) == page[l].address = "sent" /\ l \notin udp

(* A load of the page comes to hear its address, unless it is closed, its          *)
(* transport cannot start, it lost its proxy, or another client was still          *)
(* counted when it came: whatever the database holds, and whoever else comes        *)
(* and goes.                                                                     *)
ComesUp ==
  \A l \in Load :
    page[l].pc = "enr" ~>
      \/ page[l].address = "heard" \/ Cut(l)
      \/ page[l].pc \in {"closed", "failed"}
      \/ mode = "mobile" /\ page[l].pc = "up"
      \/ \E others \in SUBSET Load \ {{}} : <<l, others>> \in refused
=============================================================================
