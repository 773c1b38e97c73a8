------------------------------ MODULE MCRpcServer ------------------------------
(* RpcServer over a chain g, h1, h2, h3 in epochs of two, and a header f3 beside   *)
(* h3 that a snapshot brings.                                                    *)
EXTENDS RpcServer

CONSTANTS g, h1, h2, h3, f3

MCNumber ==
  [h \in Headers |-> CASE h = g -> 0 [] h = h1 -> 1 [] h = h2 -> 2 [] h \in {h3, f3} -> 3]
MCParent ==
  [h \in Headers |-> CASE h \in {g, h1} -> g [] h = h2 -> h1 [] h \in {h3, f3} -> h2]
MCDifficulty == [h \in Headers |-> 1]

MCTxCount    == [h \in Headers |-> MCNumber[h] + 1]
MCUncleCount == [h \in Headers |-> IF h = h3 THEN 2 ELSE 1]

MCLogs ==
  [h \in Headers |->
     IF h # f3 THEN {}
     ELSE {[address |-> "a", topics |-> <<"t", "u">>], [address |-> "b", topics |-> <<>>]}]

FullEpoch == <<[hash |-> g, td |-> 1], [hash |-> h1, td |-> 2]>>

Second    == [hash |-> h2, td |-> 3]

MCSnapshots ==
  {[epochs |-> <<FullEpoch>>, current |-> <<Second>>],
   [epochs |-> <<FullEpoch>>, current |-> <<Second, [hash |-> f3, td |-> 4]>>]}

MCUnverified == {<<"receipt", f3>>}

Logs1(fields) == <<"eth_getLogs", <<Obj(fields)>>>>
OfHash(h)     == [blockHash |-> HexHash(h)]
Enr1          == Text("enr", "any", 99, "peer")
BadEnr        == Text("enr", "any", 3, "nothing")
History       == Text("0x", "hex", 4, "history")
Other         == Text("0x", "hex", 4, "another network")

\* At least one call for every way through the methods.
EthRequests ==
  {<<"eth_blockNumber", <<>>>>, <<"eth_chainId", <<>>>>,
   <<"eth_getBlockByHash", <<HexHash(h3)>>>>,
   <<"eth_getBlockByHash", <<HexAddress("a"), Bool(TRUE)>>>>,
   <<"eth_getBlockByNumber", <<Word("latest"), Bool(TRUE)>>>>,
   <<"eth_getBlockByNumber", <<Word("7"), Bool(TRUE)>>>>}
  \cup {<<"eth_getBlockByHash", <<HexHash(h1), Bool(b)>>>> : b \in BOOLEAN}
  \cup {<<"eth_getBlockByNumber", <<HexNumber(n), Bool(TRUE)>>>> : n \in 0..4}
  \cup {<<"eth_getUncleCountByBlockNumber", <<v>>>> : v \in {HexNumber(1), HexNumber(3), NotHex}}
  \cup {<<"eth_getBlockTransactionCountByHash", <<HexHash(h3)>>>>}

LogRequests ==
  {<<"eth_getLogs", <<v>>>> : v \in {Null, Arr(<<>>), Num(1)}}
  \cup {Logs1([fromBlock |-> v]) : v \in {Word("latest"), Word("pending"), HexNumber(1)}}
  \cup {Logs1([fromBlock |-> HexNumber(1), blockHash |-> HexHash(h1)]),
        Logs1([blockHash |-> Null]), Logs1([blockHash |-> HexNumber(1)])}
  \cup {Logs1(OfHash(h)) : h \in {h1, h3}}
  \cup {Logs1([blockHash |-> HexHash(f3), topics |-> t]) :
          t \in {EmptyText, Arr(<<EmptyText>>), Arr(<<NotHex>>), Arr(<<HexBytes("t")>>)}}
  \cup {Logs1([blockHash |-> HexHash(f3), address |-> HexAddress("a"),
                topics |-> Arr(<<Arr(<<HexBytes("t")>>)>>)])}

PortalRequests ==
  {<<"portal_nodeEnr", <<>>>>, <<"portal_headerAccumulatorRoot", <<>>>>,
   <<"portal_history_findContent", <<Enr1, HexBytes("key")>>>>}
  \cup {<<m, <<e, p>>>> : m \in {"portal_addBootNode", "portal_ping"},
                         e \in {Enr1, BadEnr}, p \in {History, Other}}
  \cup {<<"portal_nodeLookup", <<p, Enr1>>>> : p \in {History, Other, HexBytes("none")}}
  \cup {<<"portal_history_getSnapshot", <<e>>>> : e \in {Enr1, Word("peer")}}
  \cup {<<"portal_findNodes", <<NodeId("n"), Arr(<<Num(d)>>), History>>>> : d \in {255, 256}}
  \cup {<<"portal_history_offer", <<NodeId("n"), Arr(hs), Arr(<<Num(t)>>)>>>> :
          hs \in {<<>>, <<HexHash(h1)>>}, t \in {0, 7}}
  \cup {<<m, <<HexHash(h1), b>>>> :
          m \in Adding, b \in {HexBytes(h1), HexBytes(h2), HexBytes("nothing"), Word("none")}}

MCRequests == EthRequests \cup LogRequests \cup PortalRequests
=============================================================================
