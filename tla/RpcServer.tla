------------------------------ MODULE RpcServer ------------------------------
(* The JSON-RPC server of the command line client, on top of the history       *)
(* store: one call, from its parameters to its answer, while headers and        *)
(* snapshots change the accumulator and the database is filled.                 *)
(*   eth.ts, portal.ts, rpc.ts; getBlockByHash, getBlockByNumber (history.ts);  *)
(*   getLogs, getReceipts (receiptManager.ts).                                 *)
(* A call runs in one step from one await to the next.  What a lookup in the     *)
(* network gives is open; ContentLookup shows that it ends.                     *)
EXTENDS HistoryStore, Validators

CONSTANTS Requests,     \* the calls made, <<method, params>>
          TxCount,      \* TxCount[h], UncleCount[h]: how many transactions and
          UncleCount,   \* uncles the body of h has
          Logs,         \* Logs[h]: the logs in the receipts of h
          Stray         \* headers a lookup may give in place of another

(* parseInt of a block option.  A hash is too large a number, a word is none.              *)
IsNumber(v) == IsText(v) /\ v.word = "0x" /\ v.rest = "hex" /\ v.size = 1

PortalMethods ==
  {"portal_addBlockHeaderToHistory", "portal_addBlockToHistory", "portal_addBootNode",
   "portal_findNodes", "portal_headerAccumulatorRoot", "portal_history_findContent",
   "portal_history_getSnapshot", "portal_history_offer", "portal_nodeEnr",
   "portal_nodeLookup", "portal_ping"}

(* What has the form of a block hash names a header, what has that of a number a          *)
(* number.  The router gives no other method to this code.                               *)
ASSUME RequestsAssumption ==
  \A r \in Requests :
    /\ r[1] \in EthMethods \cup PortalMethods
    /\ BlockHash(Param(r[2], 1)) => Param(r[2], 1).means \in Headers
    /\ IsNumber(Param(r[2], 1)) => Param(r[2], 1).means \in Nat
    /\ LET hash == Field(Param(r[2], 1), "blockHash") IN
       BlockHash(hash) => hash.means \in Headers

VARIABLE call

rpcVars == <<vars, call>>

(* `seeks' is the hash a search is for, by way of `epoch' if that is not <<>>;     *)
(* `found' is the block it ends with, <<>> for none; `first' is the block getLogs   *)
(* starts from.  The rest remembers for the properties: the accumulator in which a  *)
(* number was looked up, and a lookup that gave nothing or what was not asked for.  *)
NoCall ==
  [method |-> "none", params |-> <<>>, pc |-> "idle",
   number |-> 0, seeks |-> Genesis, epoch |-> <<>>, full |-> TRUE,
   header |-> Genesis, found |-> <<>>, first |-> <<>>,
   answer |-> "none", value |-> {},
   consulted |-> Empty, gap |-> FALSE, astray |-> FALSE]

NewCall(r) == [NoCall EXCEPT !.method = r[1], !.params = r[2], !.pc = "received"]

RpcInit == Init /\ call = NoCall

Answer(c, answer, value) == [c EXCEPT !.pc = "answered", !.answer = answer, !.value = value]

Fails(c, answer) == Answer(c, answer, {})

----------------------------------------------------------------------------
(* getBlockByHash and getBlockByNumber.                                      *)

FindByHash(c, h, full) == [c EXCEPT !.pc = "header", !.seeks = h, !.full = full]

(* getBlockByNumber compares the number only if it went by a sealed epoch.         *)
Returned(c, b) ==
  [c EXCEPT !.pc = "returned",
            !.found = IF c.epoch # <<>> /\ b # <<>> /\ Number[b[1].hash] # c.number
                      THEN <<>> ELSE b]

(* A slip of FindByNumber: the index in the epoch is taken for the current one,     *)
(* whichever the number is in.                                                  *)
FindByNumberHere(c, n, full) ==
  LET named == [c EXCEPT !.number = n, !.consulted = acc, !.epoch = <<>>] IN
  IF n > Height(acc) \/ BlockIndex(n) > Len(acc.current) THEN Returned(named, <<>>)
  ELSE FindByHash(named, acc.current[BlockIndex(n)].hash, full)

(* The hash of the number, or the epoch it is in, is read from the accumulator        *)
(* before anything is awaited.                                                  *)
FindByNumber(c, n, full) ==
  LET named == [c EXCEPT !.number = n, !.consulted = acc, !.epoch = <<>>]
      hash  == HashOfNumber(acc, n) IN
  IF hash = <<>> THEN Returned(named, <<>>)
  ELSE IF n > EpochSize * Len(acc.epochs) THEN FindByHash(named, hash[1], full)
  ELSE [named EXCEPT !.pc = "epoch", !.seeks = hash[1], !.full = full,
                     !.epoch = acc.epochs[EpochIndex(n)]]

(* What a lookup gives: what the database has, or else the content, nothing, or      *)
(* the content that a stream has just brought under another key.                  *)
Gives(content) == IF content \in stored THEN {"it"} ELSE {"it", "nothing", "other"}

(* Other content does not decode as an epoch.                                       *)
EpochLookedUp ==
  /\ call.pc = "epoch"
  /\ \E given \in Gives(<<"epoch", call.epoch>>) :
       call' = IF given = "it" THEN FindByHash(call, call.seeks, call.full)
               ELSE [Returned(call, <<>>) EXCEPT !.gap = TRUE]
  /\ UNCHANGED vars

(* Without transactions, reassembleBlock is given an RLP list for a body, which        *)
(* does not decode: there is no block whatever was found.                          *)
HeaderLookedUp ==
  /\ call.pc = "header"
  /\ \E given \in Gives(<<"header", call.seeks>>) :
       \/ /\ given = "nothing" \/ ~call.full
          /\ call' = [Returned(call, <<>>) EXCEPT !.gap = TRUE]
       \/ /\ given = "it" /\ call.full
          /\ call' = [call EXCEPT !.pc = "body", !.header = call.seeks]
       \/ /\ given = "other" /\ call.full
          /\ \E h \in Stray \ {call.seeks} :
               call' = [call EXCEPT !.pc = "body", !.header = h, !.astray = TRUE]
  /\ UNCHANGED vars

(* A slip of BodyLookedUp: nothing resolves the promise without a body.                     *)
BodyAwaited ==
  /\ call.pc = "body"
  /\ \E given \in Gives(<<"body", call.seeks>>) :
       call' = IF given = "it"
               THEN Returned(call, <<[hash |-> call.header, body |-> <<call.seeks>>]>>)
               ELSE [call EXCEPT !.pc = "pending"]
  /\ UNCHANGED vars

(* A header without a body is made a block without transactions.  The body of          *)
(* another block decodes; what does not decode rejects.                            *)
BodyLookedUp ==
  /\ call.pc = "body"
  /\ \E given \in Gives(<<"body", call.seeks>>) :
       \/ /\ given = "it"
          /\ call' = Returned(call, <<[hash |-> call.header, body |-> <<call.seeks>>]>>)
       \/ /\ given = "nothing"
          /\ call' = [Returned(call, <<[hash |-> call.header, body |-> <<>>]>>)
                        EXCEPT !.gap = TRUE]
       \/ /\ given = "other"
          /\ call' \in {[Returned(call, <<>>) EXCEPT !.gap = TRUE]} \cup
               {[Returned(call, <<[hash |-> call.header, body |-> <<h>>]>>) EXCEPT !.astray = TRUE] :
                  h \in Stray \ {call.seeks}}
  /\ UNCHANGED vars

----------------------------------------------------------------------------
(* eth_getLogs.                                                              *)

FilterField(key) == Field(Param(call.params, 1), key)

(* toBuffer takes hex strings and numbers; null is passed over.                        *)
IsBytes(v) == v = Null \/ v.is = "number" \/ (Hex(v) /\ v.rest = "hex")

(* topics?.map: what is neither undefined, null nor an array has no map.                *)
TopicsConvert(topics) ==
  \/ topics \in {Undefined, Null}
  \/ /\ topics.is = "array"
     /\ \A i \in DOMAIN topics.items :
          \/ IsBytes(topics.items[i])
          \/ topics.items[i].is = "array" /\ \A j \in DOMAIN topics.items[i].items :
               IsBytes(topics.items[i].items[j])

Among(v) == IF v.is = "array" THEN {v.items[i].means : i \in DOMAIN v.items} ELSE {v.means}

FromAddress(log) ==
  LET address == FilterField("address") IN
  IsFalsy(address) \/ address = Arr(<<>>) \/ log.address \in Among(address)

(* The filter returns inside its loop: only the first topic is ever compared.           *)
FirstTopic ==
  LET topics == FilterField("topics") IN
  IF topics.is = "array" /\ topics.items # <<>> THEN topics.items[1] ELSE Null

Matches(log) ==
  FirstTopic = Null \/ (log.topics # <<>> /\ log.topics[1] \in Among(FirstTopic))

(* equals() is given undefined for a log that has no topics.                            *)
CannotCompare(logs) ==
  /\ FirstTopic \notin {Null, Arr(<<>>)}
  /\ \E log \in logs : FromAddress(log) /\ log.topics = <<>>

(* The start of getLogs.  Only a block hash gets it going: a block named by               *)
(* 'earliest' or 'latest', or not at all, is asked for with a decimal number, which        *)
(* the wrapped getBlockByNumber refuses, and a number is compared with the height of     *)
(* a protocol the client does not run.                                             *)
StartLogs(c) ==
  LET hash == Field(Param(c.params, 1), "blockHash")
      from == Field(Param(c.params, 1), "fromBlock")
      to   == Field(Param(c.params, 1), "toBlock") IN
  IF hash # Undefined /\ (from # Undefined \/ to # Undefined) THEN Fails(c, "invalid")
  ELSE IF ~IsFalsy(hash) THEN FindByHash(c, hash.means, TRUE)
  ELSE IF from \in {Undefined, Word("earliest"), Word("latest")} THEN Fails(c, "invalid")
  ELSE Fails(c, "raw")

(* The block is there: the numbers from its own to its own are looked up.                 *)
FirstFound(c) ==
  IF c.found = <<>> THEN Fails(c, "raw")
  ELSE IF ~TopicsConvert(FilterField("topics")) THEN Fails(c, "internal")
  ELSE FindByNumber([c EXCEPT !.first = c.found], Number[c.found[1].hash], TRUE)

(* getReceipts rejects if the database has none.                                       *)
ReadReceipts ==
  /\ call.pc = "receipts"
  /\ LET h == call.found[1].hash IN
     call' = IF <<"receipt", h>> \notin stored \/ CannotCompare(Logs[h])
             THEN Fails(call, "internal")
             ELSE Answer(call, "logs", {log \in Logs[h] : FromAddress(log) /\ Matches(log)})
  /\ UNCHANGED vars

----------------------------------------------------------------------------
(* From the request to the answer.                                            *)

StartNumber(c, v, full) ==
  IF IsNumber(v) THEN FindByNumber(c, v.means, full) ELSE Returned(c, <<>>)

StartEth(c) ==
  LET p1 == Param(c.params, 1)
      p2 == Param(c.params, 2) IN
  CASE c.method = "eth_blockNumber" -> Answer(c, "number", {Height(acc)})
    [] c.method = "eth_chainId" -> Answer(c, "number", {1})
    [] c.method = "eth_getBlockByHash" -> FindByHash(c, p1.means, p2.value)
    [] c.method = "eth_getBlockByNumber" -> StartNumber(c, p1, p2.value)
    [] c.method = "eth_getBlockTransactionCountByHash" -> FindByHash(c, p1.means, TRUE)
    [] c.method = "eth_getUncleCountByBlockNumber" -> StartNumber(c, p1, TRUE)
    [] c.method = "eth_getLogs" -> StartLogs(c)

Count(counts, b) == IF b.body = <<>> THEN 0 ELSE counts[b.body[1]]

(* The method is given a block, or none: then `getBlockByHash' and `getBlockByNumber'      *)
(* answer 'Block not found', in which callers look for the fields of a block.             *)
Resume ==
  /\ call.pc = "returned"
  /\ call' =
       CASE call.method \in {"eth_getBlockByHash", "eth_getBlockByNumber"} ->
              IF call.found = <<>> THEN Fails(call, "not found")
              ELSE Answer(call, "block", {call.found[1].hash})
         [] call.method = "eth_getBlockTransactionCountByHash" ->
              IF call.found = <<>> THEN Fails(call, "invalid")
              ELSE Answer(call, "number", {Count(TxCount, call.found[1])})
         [] call.method = "eth_getUncleCountByBlockNumber" ->
              IF call.found = <<>> THEN Fails(call, "raw")
              ELSE Answer(call, "number", {Count(UncleCount, call.found[1])})
         [] call.method = "eth_getLogs" /\ call.first = <<>> -> FirstFound(call)
         [] call.method = "eth_getLogs" /\ call.first # <<>> ->
              IF call.found = <<>> THEN Fails(call, "internal")
              ELSE [call EXCEPT !.pc = "receipts"]
  /\ UNCHANGED vars

(* The methods that talk to a peer, up to the await of its answer.  A text that is not       *)
(* an ENR throws; nodeLookup looks up in a protocol that is not there.                     *)
Unreadable(enr) == enr.means = "nothing"
Unsupported(id) == id.means # "history"

(* The content keys of an offer: each hash needs a type the union of keys has.                 *)
Serializable(hashes, types) ==
  \A i \in DOMAIN hashes : i \in DOMAIN types /\ types[i].value \in ContentTypes

StartPortal(c) ==
  LET p1 == Param(c.params, 1)
      p2 == Param(c.params, 2)
      waits == [c EXCEPT !.pc = "network"] IN
  CASE c.method \in {"portal_nodeEnr", "portal_headerAccumulatorRoot",
                     "portal_history_findContent"} -> Fails(c, "text")
    [] c.method = "portal_addBootNode" ->
         IF Unreadable(p1) THEN Fails(c, "raw")
         ELSE IF Unsupported(p2) THEN Fails(c, "text") ELSE waits
    [] c.method = "portal_ping" ->
         IF Unsupported(p2) THEN Fails(c, "text")
         ELSE IF Unreadable(p1) THEN Fails(c, "raw") ELSE waits
    [] c.method = "portal_findNodes" ->
         IF Unsupported(Param(c.params, 3)) THEN Fails(c, "text") ELSE waits
    [] c.method = "portal_history_getSnapshot" ->
         IF Unreadable(p1) THEN Fails(c, "raw") ELSE waits
    [] c.method = "portal_nodeLookup" ->
         IF Unreadable(p2) \/ Unsupported(p1) THEN Fails(c, "raw") ELSE waits
    [] c.method = "portal_history_offer" ->
         IF p2.items = <<>> THEN Fails(c, "text")
         ELSE IF Serializable(p2.items, Param(c.params, 3).items) THEN waits
         ELSE Fails(c, "raw")

Adding == {"portal_addBlockHeaderToHistory", "portal_addBlockToHistory"}

Handled(c) ==
  LET checked == Middleware(c.method, c.params) IN
  CASE checked = "invalid" -> Fails(c, "invalid")
    [] checked = "exception" -> Fails(c, "raw")
    [] checked = "passes" -> IF c.method \in EthMethods THEN StartEth(c) ELSE StartPortal(c)

Receive(r) ==
  /\ call = NoCall /\ r[1] \notin Adding
  /\ call' = Handled(NewCall(r))
  /\ UNCHANGED vars

(* The peer's answer, or its absence: the texts differ.                                    *)
NetworkAnswers ==
  /\ call.pc = "network"
  /\ call' = Fails(call, "text")
  /\ UNCHANGED vars

(* A header, or a block whose header comes first, is added as if a peer had sent it;          *)
(* the call does not wait and answers "added" whatever becomes of it.  The rejection of a      *)
(* block that does not decode is nobody's, and ends the process.                              *)
ReceiveContent(r) ==
  /\ call = NoCall /\ r[1] \in Adding
  /\ LET k == Param(r[2], 1).means
         h == Param(r[2], 2).means
         passes == Middleware(r[1], r[2]) = "passes"
         ends   == h = "nothing" /\ r[1] = "portal_addBlockToHistory" IN
     /\ call' = Fails(NewCall(r), IF ~passes THEN "invalid" ELSE IF ends THEN "lost" ELSE "text")
     /\ \/ passes /\ k = h /\ AddHeader(k, h)
        \/ passes /\ ends /\ Crash
        \/ (passes => ~ends /\ (k = h => acc.current = <<>>)) /\ UNCHANGED vars

----------------------------------------------------------------------------
(* The store goes on below the call.  (HistoryStore shows what a crash leaves.)                  *)
StoreStep ==
  /\ call.pc # "answered"
  /\ Next /\ crashes' = crashes
  /\ UNCHANGED call

CallStep ==
  \/ NetworkAnswers \/ Resume
  \/ EpochLookedUp \/ HeaderLookedUp \/ BodyLookedUp \/ ReadReceipts

RpcNext ==
  \/ \E r \in Requests : Receive(r) \/ ReceiveContent(r)
  \/ CallStep \/ StoreStep

(* Lookups, and what the database is asked for, end.                                            *)
RpcSpec == RpcInit /\ [][RpcNext]_rpcVars /\ WF_rpcVars(CallStep)

----------------------------------------------------------------------------
P(i) == Param(call.params, i)

OnChain(h, a) == h \in HashesOf(a)

Answered(method, answer) ==
  call.pc = "answered" /\ call.method = method /\ call.answer = answer

(* An answer is made from the block that was asked for: a block or a count of the hash or        *)
(* number in the request, or the count of a block whose body nobody gave.  Logs, which are        *)
(* looked up by number, are those of the block with the hash in the request if it was on the      *)
(* accumulator's chain when its number was looked up, and of one with the same number              *)
(* otherwise.  Snapshots may replace the chain at any time; only a lookup that resolved with       *)
(* other content can lead astray.                                                           *)
AnswerIsOfBlock ==
  ~call.astray =>
    LET asked == P(1) IN
    /\ Answered("eth_getBlockByHash", "block") => call.value = {asked.means}
    /\ Answered("eth_getBlockByNumber", "block") =>
         \A h \in call.value : Number[h] = asked.means /\ OnChain(h, call.consulted)
    /\ Answered("eth_getBlockTransactionCountByHash", "number") =>
         call.value = {TxCount[asked.means]} \/ (call.gap /\ call.value = {0})
    /\ Answered("eth_getUncleCountByBlockNumber", "number") =>
         \/ call.gap /\ call.value = {0}
         \/ \E h \in HashesOf(call.consulted) :
              Number[h] = asked.means /\ call.value = {UncleCount[h]}
    /\ Answered("eth_getLogs", "logs") =>
         LET k == FilterField("blockHash").means
             h == call.found[1].hash IN
         /\ Number[h] = Number[k] /\ call.value \subseteq Logs[h]
         /\ OnChain(k, call.consulted) => h = k

(* A block asked for by its number, with its transactions, is not found only if it is above        *)
(* the accumulator's height, the first one after the sealed epochs, or if a lookup of its epoch     *)
(* or header failed or went astray.                                                        *)
NotFoundHasReason ==
  Answered("eth_getBlockByNumber", "not found") \/ Answered("eth_getUncleCountByBlockNumber", "raw") =>
    \/ call.gap \/ call.astray \/ ~IsNumber(P(1))
    \/ P(1).means > Height(call.consulted)
    \/ P(1).means = EpochSize * Len(call.consulted.epochs)

(* Every call is answered, or lost in a crash, whatever its parameters are and whatever lookups       *)
(* give.                                                                                    *)
CallEnds == call # NoCall ~> call.pc = "answered"
=============================================================================
