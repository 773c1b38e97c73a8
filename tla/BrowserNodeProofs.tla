--------------------------- MODULE BrowserNodeProofs ---------------------------
(***************************************************************************)
(* Proofs about BrowserNode, for any set of loads, finite or not: the types,*)
(* that the proxy never binds a UDP port twice, and that the identity in    *)
(* the browser's database is whole and is kept.                            *)
(***************************************************************************)
EXTENDS BrowserNode, FiniteSetTheorems, TLAPS

----------------------------------------------------------------------------
(* Types.                                                                  *)

\* The steps of a load that leave the database and the proxy alone.
PageOnly(l) ==
  \/ Open(l) \/ ReadEnr(l) \/ ReadPeerid(l) \/ ReadPeers(l) \/ Dial(l)
  \/ DialFails(l) \/ Started(l) \/ HearAddress(l) \/ Close(l)

LEMMA TypePageOnly ==
  ASSUME TypeOK, NEW l \in Load, PageOnly(l) PROVE TypeOK'
  <1>1. page' \in [Load -> Page]
    <2>1. CASE Open(l)
      BY <2>1 DEF TypeOK, Open, Page, Pc
    <2>2. CASE ReadEnr(l)
      BY <2>2 DEF TypeOK, ReadEnr, FromScratch, Page, Pc, Id
    <2>3. CASE ReadPeerid(l)
      BY <2>3 DEF TypeOK, ReadPeerid, FromScratch, Page, Pc, Id
    <2>4. CASE ReadPeers(l)
      BY <2>4 DEF TypeOK, ReadPeers, FromScratch, Page, Pc, Id
    <2>5. CASE Dial(l)
      BY <2>5 DEF TypeOK, Dial, Page, Pc
    <2>6. CASE DialFails(l)
      BY <2>6 DEF TypeOK, DialFails, NewPage, Page, Pc, Id
    <2>7. CASE Started(l)
      BY <2>7 DEF TypeOK, Started, Page, Pc
    <2>8. CASE HearAddress(l)
      BY <2>8 DEF TypeOK, HearAddress, Page
    <2>9. CASE Close(l)
      BY <2>9 DEF TypeOK, Close, NewPage, Page, Pc, Id
    <2> QED  BY <2>1, <2>2, <2>3, <2>4, <2>5, <2>6, <2>7, <2>8, <2>9 DEF PageOnly
  <1>2. /\ UNCHANGED <<mode, restorable, disk, crossed, proxy, clients, udp, refused>>
        /\ together' \in BOOLEAN
    BY DEF PageOnly, Open, ReadEnr, ReadPeerid, ReadPeers, Dial, DialFails, Started,
           HearAddress, Close, fixed, proxyVars, TypeOK
  <1> QED  BY <1>1, <1>2 DEF TypeOK

\* The steps that touch the database or the proxy, all but a restart.
LEMMA TypeRest ==
  ASSUME TypeOK, NEW l \in Load,
         StoreIdentity(l) \/ StorePeers(l) \/ Connect(l) \/ ClientGone(l) \/ Stop \/ Restart
  PROVE  TypeOK'
  <1>1. page[l] \in Page
    BY DEF TypeOK
  <1>2. CASE StoreIdentity(l)
    <2>1. disk' \in [enr: Id, peerid: Id, peers: BOOLEAN]
      BY <1>1, <1>2 DEF TypeOK, StoreIdentity, Batch, Page
    <2>2. page' \in [Load -> Page]
      BY <1>2 DEF TypeOK, StoreIdentity, Page, Pc
    <2>3. crossed' \in BOOLEAN
      BY <1>2 DEF TypeOK, StoreIdentity
    <2> QED  BY <1>2, <2>1, <2>2, <2>3 DEF TypeOK, StoreIdentity, fixed, proxyVars
  <1>3. CASE StorePeers(l)
    <2>1. disk' \in [enr: Id, peerid: Id, peers: BOOLEAN]
      BY <1>3 DEF TypeOK, StorePeers
    <2>2. page' \in [Load -> Page]
      BY <1>3 DEF TypeOK, StorePeers, Page, Pc
    <2> QED  BY <1>3, <2>1, <2>2 DEF TypeOK, StorePeers, fixed, proxyVars
  <1>4. CASE Connect(l)
    <2>1. page' \in [Load -> Page]
      BY <1>4 DEF TypeOK, Connect, Page, Pc
    <2>2. clients' \in SUBSET Load /\ udp' \in SUBSET clients'
          /\ proxy' \in {"up", "stopped", "crashed"}
      BY <1>4 DEF TypeOK, Connect, Bind
    <2>3. refused' \in SUBSET (Load \X SUBSET Load)
      BY <1>4 DEF TypeOK, Connect
    <2> QED  BY <1>4, <2>1, <2>2, <2>3 DEF TypeOK, Connect, fixed
  <1>5. CASE ClientGone(l)
    BY <1>5 DEF TypeOK, ClientGone, fixed
  <1>6. CASE Stop
    BY <1>6 DEF TypeOK, Stop, fixed
  <1>7. CASE Restart
    BY <1>7 DEF TypeOK, Restart, fixed
  <1> QED  BY <1>2, <1>3, <1>4, <1>5, <1>6, <1>7

\* A step is one of a load's, or the proxy's own.
LEMMA Steps ==
  ASSUME [Next]_vars
  PROVE  \/ \E l \in Load : \/ PageOnly(l) \/ StoreIdentity(l) \/ StorePeers(l)
                            \/ Connect(l) \/ ClientGone(l)
         \/ Stop \/ Restart \/ UNCHANGED vars
  BY DEF Next, PageStep, PageOnly

\* The page, the database and the proxy keep their types, for any set of loads
\* in any of the three ways for packets to travel.
THEOREM TypeInvariant == Spec => []TypeOK
  <1>1. Init => TypeOK
    <2>1. NewPage \in Page
      BY DEF NewPage, Page, Pc, Id
    <2>2. [enr |-> None, peerid |-> None, peers |-> FALSE] \in [enr: Id, peerid: Id, peers: BOOLEAN]
      BY DEF Id
    <2> QED  BY <2>1, <2>2 DEF Init, TypeOK
  <1>2. TypeOK /\ [Next]_vars => TypeOK'
    <2> SUFFICES ASSUME TypeOK, [Next]_vars PROVE TypeOK'
      OBVIOUS
    <2>1. CASE \E l \in Load : \/ PageOnly(l) \/ StoreIdentity(l) \/ StorePeers(l)
                               \/ Connect(l) \/ ClientGone(l)
      BY <2>1, TypePageOnly, TypeRest
    <2>2. CASE Stop
      BY <2>2 DEF TypeOK, Stop, fixed
    <2>3. CASE Restart
      BY <2>3 DEF TypeOK, Restart, fixed
    <2>4. CASE UNCHANGED vars
      BY <2>4 DEF TypeOK, vars
    <2> QED  BY <2>1, <2>2, <2>3, <2>4, Steps
  <1> QED  BY <1>1, <1>2, PTL DEF Spec

----------------------------------------------------------------------------
(* The proxy stays up.                                                     *)

\* A counted websocket is that of a load past its dialing, and the count is
\* finite: what every step preserves.
Connected == {"open", "batch", "put", "up", "closed"}

ProxyInv ==
  /\ ProxyStaysUp
  /\ IsFiniteSet(clients)
  /\ \A l \in clients : page[l].pc \in Connected

\* A set with two members counts as more than one.
LEMMA TwoCounted ==
  ASSUME NEW S, IsFiniteSet(S), NEW k \in S, NEW l, l \notin S
  PROVE  Cardinality(S \cup {l}) > 1
  <1>1. Cardinality(S \cup {l}) = Cardinality(S) + 1
    BY FS_AddElement
  <1>2. Cardinality(S) \in Nat /\ Cardinality(S) # 0
    BY FS_CardinalityType, FS_EmptySet
  <1> QED  BY <1>1, <1>2

\* Nobody comes to a port in use: with ports of their own, no load comes
\* twice; with the persistent one, it is turned away.
LEMMA NotInUse ==
  ASSUME TypeOK, ProxyInv, NEW l \in Load, page[l].pc = "dialing",
         ~ TurnedAway(clients \cup {l})
  PROVE  ~ InUse(Port(l))
  <1>1. l \notin clients
    BY DEF ProxyInv, Connected
  <1>2. SUFFICES ASSUME NEW k \in udp, Port(k) = Port(l) PROVE FALSE
    BY DEF InUse
  <1>3. k \in clients /\ k \in Load
    BY DEF TypeOK
  <1>4. mode = "persistent"
    BY <1>1, <1>2, <1>3, LoadAssumption DEF Port
  <1>5. Cardinality(clients \cup {l}) > 1
    BY <1>1, <1>3, TwoCounted DEF ProxyInv
  <1> QED  BY <1>4, <1>5 DEF TurnedAway

LEMMA ProxyInvPage ==
  ASSUME TypeOK, ProxyInv, NEW l \in Load,
         PageOnly(l) \/ StoreIdentity(l) \/ StorePeers(l)
  PROVE  ProxyInv'
  <1>1. UNCHANGED <<proxy, clients>>
    BY DEF PageOnly, Open, ReadEnr, ReadPeerid, ReadPeers, Dial, DialFails, Started,
           HearAddress, Close, StoreIdentity, StorePeers, proxyVars
  <1>2. \A k \in Load : k # l => page'[k] = page[k]
    BY DEF TypeOK, PageOnly, Open, ReadEnr, ReadPeerid, ReadPeers, FromScratch, Dial, DialFails,
           Started, HearAddress, Close, StoreIdentity, StorePeers
  <1>3. page[l].pc \in Connected => page'[l].pc \in Connected
    <2>1. l \in DOMAIN page /\ page[l] \in Page
      BY DEF TypeOK
    <2>2. ASSUME page[l].pc \in Connected, PageOnly(l) PROVE page'[l].pc \in Connected
      BY <2>1, <2>2 DEF Connected, PageOnly, Open, ReadEnr, ReadPeerid, ReadPeers, FromScratch,
           Dial, DialFails, Started, HearAddress, Close, NewPage, Page
    <2>3. ASSUME StoreIdentity(l) \/ StorePeers(l) PROVE page'[l].pc \in Connected
      BY <2>1, <2>3 DEF Connected, StoreIdentity, StorePeers, Page
    <2> QED  BY <2>2, <2>3
  <1> QED  BY <1>1, <1>2, <1>3 DEF ProxyInv, ProxyStaysUp, TypeOK

LEMMA ProxyInvConnect ==
  ASSUME TypeOK, ProxyInv, NEW l \in Load, Connect(l) PROVE ProxyInv'
  <1>1. proxy' # "crashed" /\ clients' = clients \cup {l}
    BY NotInUse DEF Connect, Bind, ProxyInv, ProxyStaysUp
  <1>2. IsFiniteSet(clients')
    BY <1>1, FS_AddElement DEF ProxyInv
  <1>3. page'[l].pc = "open" /\ \A k \in Load : k # l => page'[k] = page[k]
    BY DEF Connect, TypeOK, Page
  <1> QED  BY <1>1, <1>2, <1>3 DEF ProxyInv, ProxyStaysUp, Connected, TypeOK

\* The proxy never binds a UDP port twice, which would end its process, in
\* whatever order websockets come, are turned away, and go.
THEOREM ProxyStaysUpAlways == Spec => []ProxyStaysUp
  <1>1. Init => ProxyInv
    BY FS_EmptySet DEF Init, ProxyInv, ProxyStaysUp
  <1>2. TypeOK /\ ProxyInv /\ [Next]_vars => ProxyInv'
    <2> SUFFICES ASSUME TypeOK, ProxyInv, [Next]_vars PROVE ProxyInv'
      OBVIOUS
    <2>1. ASSUME NEW l \in Load, PageOnly(l) \/ StoreIdentity(l) \/ StorePeers(l) \/ Connect(l)
          PROVE  ProxyInv'
      BY <2>1, ProxyInvPage, ProxyInvConnect
    <2>2. ASSUME NEW l \in Load, ClientGone(l) PROVE ProxyInv'
      BY <2>2, FS_RemoveElement DEF ProxyInv, ProxyStaysUp, ClientGone
    <2>3. CASE Stop
      BY <2>3, FS_EmptySet DEF ProxyInv, ProxyStaysUp, Stop
    <2>4. CASE Restart
      BY <2>4 DEF ProxyInv, ProxyStaysUp, Restart
    <2>5. CASE UNCHANGED vars
      BY <2>5 DEF ProxyInv, ProxyStaysUp, vars
    <2> QED  BY <2>1, <2>2, <2>3, <2>4, <2>5, Steps
  <1>3. ProxyInv => ProxyStaysUp
    BY DEF ProxyInv
  <1> QED  BY <1>1, <1>2, <1>3, TypeInvariant, PTL DEF Spec

----------------------------------------------------------------------------
(* The identity.                                                           *)

\* The loads past their reads.
HasIdentity == {"start", "dialing", "open", "batch", "put", "up"}

\* What one load has read so far is whole.
WholeAt(l) ==
  /\ page[l].pc \in HasIdentity => page[l].enr # None /\ page[l].enr = page[l].key
  /\ page[l].pc = "peerid" => page[l].enr = disk.enr /\ page[l].enr # None
  /\ page[l].pc = "peers"  => page[l].enr = page[l].key /\ page[l].enr # None

\* IdentityIsWhole with what the reads have got: what every step preserves.
WholeInv == crossed \/ (disk.enr = disk.peerid /\ \A l \in Load : WholeAt(l))

\* A load's own steps before it stores: its identity is read whole, or made so.
LEMMA WholePageOnly ==
  ASSUME TypeOK, WholeInv, NEW l \in Load, PageOnly(l) PROVE WholeInv'
  <1>1. UNCHANGED <<disk, crossed>> /\ \A k \in Load : k # l => page'[k] = page[k]
    BY DEF TypeOK, PageOnly, Open, ReadEnr, ReadPeerid, ReadPeers, FromScratch, Dial,
           DialFails, Started, HearAddress, Close, proxyVars
  <1>2. SUFFICES ASSUME ~ crossed PROVE WholeAt(l)'
    <2>1. ASSUME ~ crossed PROVE disk'.enr = disk'.peerid /\ \A k \in Load : k # l => WholeAt(k)'
      BY <1>1, <2>1 DEF WholeInv, WholeAt
    <2> QED  BY <1>1, <1>2, <2>1 DEF WholeInv
  <1>3. page[l] \in Page /\ page \in [Load -> Page] /\ WholeAt(l) /\ disk.enr = disk.peerid
    BY <1>2 DEF TypeOK, WholeInv
  <1>4. l # None
    BY LoadAssumption
  <1>5. CASE Open(l)
    BY <1>3, <1>5 DEF WholeAt, Open, HasIdentity, Page
  <1>6. CASE ReadEnr(l)
    BY <1>1, <1>3, <1>4, <1>6 DEF WholeAt, ReadEnr, FromScratch, HasIdentity, Page
  <1>7. CASE ReadPeerid(l)
    BY <1>1, <1>3, <1>4, <1>7 DEF WholeAt, ReadPeerid, FromScratch, HasIdentity, Page
  <1>8. CASE ReadPeers(l)
    BY <1>1, <1>3, <1>4, <1>8 DEF WholeAt, ReadPeers, FromScratch, HasIdentity, Page
  <1>9. CASE Dial(l)
    BY <1>3, <1>9 DEF WholeAt, Dial, HasIdentity, Page
  <1>10. CASE DialFails(l)
    BY <1>3, <1>10 DEF WholeAt, DialFails, HasIdentity, NewPage
  <1>11. CASE Started(l)
    BY <1>3, <1>11 DEF WholeAt, Started, HasIdentity, Page
  <1>12. CASE HearAddress(l)
    BY <1>1, <1>3, <1>12 DEF WholeAt, HearAddress, HasIdentity, Page
  <1>13. CASE Close(l)
    BY <1>3, <1>13 DEF WholeAt, Close, HasIdentity, NewPage
  <1> QED
    BY <1>5, <1>6, <1>7, <1>8, <1>9, <1>10, <1>11, <1>12, <1>13 DEF PageOnly

\* Storing: whoever is between its reads makes it a crossing.
LEMMA WholeStore ==
  ASSUME TypeOK, WholeInv, NEW l \in Load, StoreIdentity(l) \/ StorePeers(l) \/ Connect(l)
  PROVE  WholeInv'
  <1>1. SUFFICES ASSUME ~ crossed' PROVE disk'.enr = disk'.peerid /\ \A k \in Load : WholeAt(k)'
    BY DEF WholeInv
  <1>2. ~ crossed
    BY <1>1 DEF StoreIdentity, StorePeers, Connect
  <1>3. /\ page \in [Load -> Page] /\ page[l] \in Page
        /\ disk \in [enr: Id, peerid: Id, peers: BOOLEAN]
        /\ disk.enr = disk.peerid /\ \A k \in Load : WholeAt(k)
    BY <1>2 DEF TypeOK, WholeInv
  <1>4. CASE StoreIdentity(l)
    <2>1. \A k \in Load : page[k].pc # "peerid"
      BY <1>1, <1>4 DEF StoreIdentity
    <2>2. disk'.enr = page[l].enr /\ disk'.peerid = page[l].key /\ page[l].enr = page[l].key
      BY <1>3, <1>4 DEF StoreIdentity, Batch, WholeAt, HasIdentity
    <2>3. WholeAt(l)'
      BY <1>3, <1>4 DEF StoreIdentity, WholeAt, HasIdentity, Page
    <2>4. ASSUME NEW k \in Load, k # l PROVE WholeAt(k)'
      BY <1>3, <1>4, <2>1, <2>4 DEF StoreIdentity, WholeAt
    <2> QED  BY <2>2, <2>3, <2>4
  <1>5. CASE StorePeers(l)
    <2>1. disk'.enr = disk.enr /\ disk'.peerid = disk.peerid
      BY <1>3, <1>5 DEF StorePeers
    <2>2. WholeAt(l)'
      BY <1>3, <1>5 DEF StorePeers, WholeAt, HasIdentity, Page
    <2>3. ASSUME NEW k \in Load, k # l PROVE WholeAt(k)'
      BY <1>3, <1>5, <2>1, <2>3 DEF StorePeers, WholeAt
    <2> QED  BY <1>3, <2>1, <2>2, <2>3
  <1>6. CASE Connect(l)
    <2>1. disk' = disk
      BY <1>6 DEF Connect
    <2>2. WholeAt(l)'
      BY <1>3, <1>6 DEF Connect, WholeAt, HasIdentity, Page
    <2>3. ASSUME NEW k \in Load, k # l PROVE WholeAt(k)'
      BY <1>3, <1>6, <2>1, <2>3 DEF Connect, WholeAt
    <2> QED  BY <1>3, <2>1, <2>2, <2>3
  <1> QED  BY <1>4, <1>5, <1>6

LEMMA WholeInductive ==
  ASSUME TypeOK, WholeInv, [Next]_vars PROVE WholeInv'
  <1>1. ASSUME NEW l \in Load,
               PageOnly(l) \/ StoreIdentity(l) \/ StorePeers(l) \/ Connect(l)
        PROVE  WholeInv'
    BY <1>1, WholePageOnly, WholeStore
  <1>2. ASSUME NEW l \in Load, ClientGone(l) PROVE WholeInv'
    BY <1>2 DEF WholeInv, WholeAt, ClientGone
  <1>3. CASE Stop \/ Restart \/ UNCHANGED vars
    BY <1>3 DEF WholeInv, WholeAt, Stop, Restart, vars
  <1> QED  BY <1>1, <1>2, <1>3, Steps

THEOREM WholeInvariant == Spec => []WholeInv
  <1>1. Init => WholeInv
    BY DEF Init, WholeInv, WholeAt, HasIdentity, NewPage
  <1> QED  BY <1>1, WholeInductive, TypeInvariant, PTL DEF Spec

\* The two halves of the identity belong together in the database and in every
\* node that runs, unless a load stored its own between another's reads.
THEOREM IdentityIsWholeAlways == Spec => []IdentityIsWhole
  <1>1. WholeInv => IdentityIsWhole
    BY DEF WholeInv, WholeAt, HasIdentity, IdentityIsWhole
  <1> QED  BY <1>1, WholeInvariant, PTL

----------------------------------------------------------------------------
(* The identity is kept.                                                   *)

\* Until two loads have been open together, no two are, and nothing has
\* crossed.
AloneInv ==
  ~ together => ~ crossed /\ \A l, k \in Load : Alive(l) /\ Alive(k) => l = k

\* Whose identity a load has when there are peers in the database, or its own
\* has been stored.
KeptAt(l) ==
  /\ page[l].pc \in {"put", "up"} => page[l].enr = disk.enr
  /\ disk.peers /\ page[l].pc \in HasIdentity \cup {"peers"} => page[l].enr = disk.enr

KeptInv ==
  restorable /\ ~ together =>
    /\ disk.peers => disk.enr # None
    /\ \A l \in Load : KeptAt(l)

\* No step of a load brings one to life, but for Open, which notes the others.
LEMMA AloneInductive ==
  ASSUME TypeOK, AloneInv, [Next]_vars PROVE AloneInv'
  <1>1. ASSUME NEW l \in Load, PageOnly(l) \/ StoreIdentity(l) \/ StorePeers(l) \/ Connect(l)
        PROVE  AloneInv'
    <2>1. SUFFICES ASSUME ~ together'
                   PROVE  ~ crossed' /\ \A j, k \in Load : Alive(j)' /\ Alive(k)' => j = k
      BY DEF AloneInv
    <2>2. ~ together
      BY <1>1, <2>1 DEF PageOnly, Open, ReadEnr, ReadPeerid, ReadPeers, Dial, DialFails, Started,
           HearAddress, Close, StoreIdentity, StorePeers, Connect
    <2>3. ~ crossed /\ \A j, k \in Load : Alive(j) /\ Alive(k) => j = k
      BY <2>2 DEF AloneInv
    <2>4. \A k \in Load : k # l => page'[k] = page[k]
      BY <1>1 DEF TypeOK, PageOnly, Open, ReadEnr, ReadPeerid, ReadPeers, FromScratch, Dial, DialFails,
           Started, HearAddress, Close, StoreIdentity, StorePeers, Connect
    <2>5. CASE Open(l)
      <3>1. \A k \in Load : ~ Alive(k)
        BY <2>1, <2>5 DEF Open
      <3> QED  BY <2>3, <2>4, <2>5, <3>1 DEF Open, Alive
    <2>6. CASE ~ Open(l)
      <3>1. Alive(l)
        BY <1>1, <2>6 DEF PageOnly, ReadEnr, ReadPeerid, ReadPeers, Dial, DialFails, Started,
             HearAddress, Close, StoreIdentity, StorePeers, Connect, Alive
      <3>2. \A k \in Load : k # l => ~ Alive(k)'
        BY <2>3, <2>4, <3>1 DEF Alive
      <3>3. \A k \in Load : page[k].pc = "peerid" => k = l
        BY <2>3, <3>1 DEF Alive
      <3>4. ~ crossed'
        BY <1>1, <2>3, <3>3 DEF PageOnly, Open, ReadEnr, ReadPeerid, ReadPeers, Dial, DialFails,
             Started, HearAddress, Close, StoreIdentity, StorePeers, Connect
      <3> QED  BY <3>2, <3>4
    <2> QED  BY <2>5, <2>6
  <1>2. ASSUME NEW l \in Load, ClientGone(l) PROVE AloneInv'
    BY <1>2 DEF AloneInv, Alive, ClientGone
  <1>3. CASE Stop \/ Restart \/ UNCHANGED vars
    BY <1>3 DEF AloneInv, Alive, Stop, Restart, vars
  <1> QED  BY <1>1, <1>2, <1>3, Steps

\* With peers in the database, the reads get the identity that is there: none
\* of them takes the way to one from scratch.
LEMMA KeptPageOnly ==
  ASSUME TypeOK, WholeInv, AloneInv, KeptInv, NEW l \in Load, PageOnly(l) PROVE KeptInv'
  <1>1. /\ UNCHANGED <<restorable, disk>>
        /\ \A k \in Load : k # l => page'[k] = page[k]
    BY DEF TypeOK, PageOnly, Open, ReadEnr, ReadPeerid, ReadPeers, FromScratch, Dial,
           DialFails, Started, HearAddress, Close, fixed, proxyVars
  <1>2. together => together'
    BY DEF PageOnly, Open, ReadEnr, ReadPeerid, ReadPeers, Dial, DialFails, Started,
           HearAddress, Close
  <1>3. SUFFICES ASSUME restorable, ~ together, ~ crossed, KeptAt(l), WholeAt(l),
                        disk.enr = disk.peerid, disk.peers => disk.enr # None
                 PROVE  KeptAt(l)'
    BY <1>1, <1>2 DEF KeptInv, KeptAt, AloneInv, WholeInv
  <1>4. page[l] \in Page /\ page \in [Load -> Page]
    BY DEF TypeOK
  <1>5. CASE Open(l)
    BY <1>4, <1>5 DEF KeptAt, Open, HasIdentity, Page
  <1>6. CASE ReadEnr(l)
    BY <1>1, <1>3, <1>4, <1>6 DEF KeptAt, ReadEnr, FromScratch, HasIdentity, Page
  <1>7. CASE ReadPeerid(l)
    BY <1>1, <1>3, <1>4, <1>7 DEF KeptAt, WholeAt, ReadPeerid, FromScratch, HasIdentity, Page
  <1>8. CASE ReadPeers(l)
    BY <1>1, <1>3, <1>4, <1>8 DEF KeptAt, WholeAt, ReadPeers, FromScratch, HasIdentity, Page
  <1>9. CASE Dial(l)
    BY <1>1, <1>3, <1>4, <1>9 DEF KeptAt, Dial, HasIdentity, Page
  <1>10. CASE DialFails(l)
    BY <1>4, <1>10 DEF KeptAt, DialFails, HasIdentity, NewPage
  <1>11. CASE Started(l)
    BY <1>1, <1>3, <1>4, <1>11 DEF KeptAt, Started, HasIdentity, Page
  <1>12. CASE HearAddress(l)
    BY <1>1, <1>3, <1>4, <1>12 DEF KeptAt, HearAddress, HasIdentity, Page
  <1>13. CASE Close(l)
    BY <1>4, <1>13 DEF KeptAt, Close, HasIdentity, NewPage
  <1> QED
    BY <1>5, <1>6, <1>7, <1>8, <1>9, <1>10, <1>11, <1>12, <1>13 DEF PageOnly

LEMMA KeptStore ==
  ASSUME TypeOK, WholeInv, AloneInv, KeptInv, NEW l \in Load,
         StoreIdentity(l) \/ StorePeers(l) \/ Connect(l)
  PROVE  KeptInv'
  <1>1. SUFFICES ASSUME restorable, ~ together
                 PROVE  /\ disk'.peers => disk'.enr # None
                        /\ \A k \in Load : KeptAt(k)'
    <2>1. UNCHANGED <<restorable, together>>
      BY DEF StoreIdentity, StorePeers, Connect, fixed
    <2> QED  BY <1>1, <2>1 DEF KeptInv
  <1>2. /\ page \in [Load -> Page] /\ page[l] \in Page
        /\ disk \in [enr: Id, peerid: Id, peers: BOOLEAN]
        /\ WholeAt(l)
        /\ disk.peers => disk.enr # None
    BY <1>1 DEF TypeOK, KeptInv, AloneInv, WholeInv
  <1>3. \A k \in Load : KeptAt(k)
    BY <1>1 DEF KeptInv
  <1>4. Alive(l)
    BY DEF StoreIdentity, StorePeers, Connect, Alive
  <1>5. \A k \in Load : k # l => page[k].pc \in {"unused", "closed"}
    BY <1>1, <1>4 DEF AloneInv, Alive
  <1>6. \A k \in Load : k # l => page'[k] = page[k]
    BY <1>2 DEF StoreIdentity, StorePeers, Connect
  <1>7. \A k \in Load : k # l => KeptAt(k)'
    BY <1>5, <1>6 DEF KeptAt, HasIdentity
  <1>8. CASE StoreIdentity(l)
    <2>1. disk'.enr = page[l].enr /\ page[l].enr # None
      BY <1>2, <1>8 DEF StoreIdentity, Batch, WholeAt, HasIdentity
    <2>2. page'[l].enr = page[l].enr
      BY <1>2, <1>8 DEF StoreIdentity
    <2> QED  BY <1>7, <2>1, <2>2 DEF KeptAt
  <1>9. CASE StorePeers(l)
    <2>1. disk'.enr = disk.enr /\ page[l].enr = disk.enr /\ page[l].enr # None
      BY <1>2, <1>3, <1>9 DEF StorePeers, KeptAt, WholeAt, HasIdentity
    <2>2. page'[l].enr = page[l].enr
      BY <1>2, <1>9 DEF StorePeers
    <2> QED  BY <1>7, <2>1, <2>2 DEF KeptAt
  <1>10. CASE Connect(l)
    <2>1. disk' = disk
      BY <1>10 DEF Connect
    <2>2. page'[l].enr = page[l].enr /\ page[l].pc = "dialing" /\ page'[l].pc = "open"
      BY <1>2, <1>10 DEF Connect, Page
    <2> QED  BY <1>2, <1>3, <1>7, <2>1, <2>2 DEF KeptAt, HasIdentity
  <1> QED  BY <1>8, <1>9, <1>10

LEMMA KeptInductive ==
  ASSUME TypeOK, WholeInv, AloneInv, KeptInv, [Next]_vars PROVE KeptInv'
  <1>1. ASSUME NEW l \in Load,
               PageOnly(l) \/ StoreIdentity(l) \/ StorePeers(l) \/ Connect(l)
        PROVE  KeptInv'
    BY <1>1, KeptPageOnly, KeptStore
  <1>2. ASSUME NEW l \in Load, ClientGone(l) PROVE KeptInv'
    BY <1>2 DEF KeptInv, KeptAt, ClientGone, fixed
  <1>3. CASE Stop \/ Restart \/ UNCHANGED vars
    BY <1>3 DEF KeptInv, KeptAt, Stop, Restart, vars, fixed
  <1> QED  BY <1>1, <1>2, <1>3, Steps

\* A browser with one page open at a time keeps its identity once its peers are
\* stored, whatever load is closed where.
THEOREM IdentityKeptAlways == Spec => IdentityKept
  <1>1. Init => AloneInv /\ KeptInv
    BY DEF Init, AloneInv, KeptInv, KeptAt, HasIdentity, NewPage, Alive
  <1>2. TypeOK /\ WholeInv /\ AloneInv /\ KeptInv /\ [Next]_vars => AloneInv' /\ KeptInv'
    BY AloneInductive, KeptInductive
  <1>3. TypeOK /\ KeptInv /\ [Next]_vars =>
          (restorable /\ ~ together /\ disk.peers => disk'.enr = disk.enr)
    <2> SUFFICES ASSUME TypeOK, KeptInv, [Next]_vars, restorable, ~ together, disk.peers
                 PROVE  disk'.enr = disk.enr
      OBVIOUS
    <2>1. ASSUME NEW l \in Load, StoreIdentity(l) PROVE disk'.enr = disk.enr
      <3>1. page[l].enr = disk.enr /\ disk \in [enr: Id, peerid: Id, peers: BOOLEAN]
        BY <2>1 DEF StoreIdentity, KeptInv, KeptAt, HasIdentity, TypeOK
      <3> QED  BY <2>1, <3>1 DEF StoreIdentity, Batch
    <2>2. ASSUME NEW l \in Load, StorePeers(l) PROVE disk'.enr = disk.enr
      BY <2>2 DEF StorePeers, TypeOK
    <2>3. ASSUME NEW l \in Load, PageOnly(l) \/ Connect(l) \/ ClientGone(l) PROVE disk' = disk
      BY <2>3 DEF PageOnly, Open, ReadEnr, ReadPeerid, ReadPeers, Dial, DialFails, Started,
           HearAddress, Close, Connect, ClientGone
    <2>4. CASE Stop \/ Restart \/ UNCHANGED vars
      BY <2>4 DEF Stop, Restart, vars
    <2> QED  BY <2>1, <2>2, <2>3, <2>4, Steps
  <1> QED  BY <1>1, <1>2, <1>3, TypeInvariant, WholeInvariant, PTL DEF Spec, IdentityKept
=============================================================================
