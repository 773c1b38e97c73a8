----------------------------- MODULE Validators -----------------------------
(* What the JSON-RPC server accepts as parameters (validators.ts), and which   *)
(* checks each method is wrapped in (eth.ts, portal.ts).                       *)
(* A JSON value is a record: `is' is what typeof and Array.isArray tell of it. *)
(* A string is what the validators look at: the word it begins with, of which  *)
(* characters the rest is, how many these are, and what the string names.      *)
EXTENDS Integers, Sequences

Undefined == [is |-> "undefined"]
Null      == [is |-> "null"]
Bool(b)   == [is |-> "boolean", value |-> b]
Num(n)    == [is |-> "number", value |-> n]
Text(word, rest, size, means) ==
  [is |-> "string", word |-> word, rest |-> rest, size |-> size, means |-> means]
Arr(items)  == [is |-> "array", items |-> items]
Obj(fields) == [is |-> "object", fields |-> fields]

EmptyText     == Text("", "any", 0, "nothing")
Word(w)       == Text(w, "any", 0, w)
HexHash(h)    == Text("0x", "hex", 64, h)
HexAddress(a) == Text("0x", "hex", 40, a)
HexNumber(n)  == Text("0x", "hex", 1, n)
HexBytes(b)   == Text("0x", "hex", 8, b)
NotHex        == Text("0x", "any", 2, "nothing")
NodeId(n)     == Text("", "hex", 64, n)

IsText(v) == v.is = "string"

\* A property of a value: an array has none of the names that are asked for.
Field(v, key) ==
  IF v.is = "object" /\ key \in DOMAIN v.fields THEN v.fields[key] ELSE Undefined

IsFalsy(v) == v \in {Undefined, Null, Bool(FALSE), Num(0), EmptyText}

----------------------------------------------------------------------------
(* The validators: does the value pass?                                      *)

Hex(v) == IsText(v) /\ v.word = "0x"

HexOfSize(v, n) == Hex(v) /\ v.rest = "hex" /\ v.size = n

Address(v)   == HexOfSize(v, 40)
BlockHash(v) == HexOfSize(v, 64)

\* isValidId: 64 small letters, digits or blanks, of which a prefix may be two.
DstId(v) ==
  /\ IsText(v) /\ v.rest \in {"hex", "letters"}
  /\ \/ v.word = "" /\ v.size = 64
     \/ v.word = "0x" /\ v.size = 62

Distance(v) == v.is = "number" /\ v.value \in 0..255

\* The content types of the history network.
ContentTypes == {0, 1, 2, 3, 4}

\* It refuses the supported types and lets all others pass.
HistoryContentType(v) == v.is = "number" /\ v.value \notin ContentTypes

Enr(v) == IsText(v) /\ v.word = "enr"

\* The ids of the ProtocolId enum: the one this client runs, and the others.
IsProtocolId(v) == Hex(v) /\ v.means \in {"history", "another network"}

\* A block hash or a number, which is to say anything with the prefix.
BlockOption(v) ==
  IsText(v) /\ (v.word \in {"latest", "earliest", "pending"} \/ BlockHash(v) \/ Hex(v))

Boolean(v) == v.is = "boolean"

\* `array' with the validator of its items.
Addresses(v)   == v.is = "array" /\ \A i \in DOMAIN v.items : Address(v.items[i])
BlockHashes(v) == v.is = "array" /\ \A i \in DOMAIN v.items : BlockHash(v.items[i])
Distances(v)   == v.is = "array" /\ \A i \in DOMAIN v.items : Distance(v.items[i])
HexStrings(v)  == v.is = "array" /\ \A i \in DOMAIN v.items : Hex(v.items[i])
HistoryContentTypes(v) ==
  v.is = "array" /\ \A i \in DOMAIN v.items : HistoryContentType(v.items[i])

\* `optional' and `either' let pass what is falsy.
AddressOrAddresses(v) == IsFalsy(v) \/ Addresses(v) \/ Address(v)
Topic(v) == IsFalsy(v) \/ Hex(v) \/ HexStrings(v)
Topics(v) == v.is = "array" /\ \A i \in DOMAIN v.items : Topic(v.items[i])

Given(v, key) == ~ IsFalsy(Field(v, key))

\* The filter of eth_getLogs.  An array is an object without any field.
Filter(v) ==
  /\ v.is \in {"object", "array"}
  /\ \A key \in {"fromBlock", "toBlock"} : Given(v, key) => BlockOption(Field(v, key))
  /\ Given(v, "address") => AddressOrAddresses(Field(v, "address"))
  /\ Given(v, "topics") => Topics(Field(v, "topics"))
  /\ Given(v, "blockHash") => BlockHash(Field(v, "blockHash"))

----------------------------------------------------------------------------
(* The wrapping of the methods.                                              *)

Required(method) ==
  CASE method \in {"eth_blockNumber", "eth_chainId", "portal_nodeEnr",
                   "portal_headerAccumulatorRoot"} -> 0
    [] method \in {"eth_getBlockTransactionCountByHash", "eth_getUncleCountByBlockNumber",
                   "eth_getLogs", "portal_history_getSnapshot"} -> 1
    [] method = "portal_findNodes" -> 3
    [] OTHER -> 2

Param(params, i) == IF i <= Len(params) THEN params[i] ELSE Undefined

EthValid(method, params) ==
  LET P(i) == Param(params, i) IN
  CASE method = "eth_getBlockByNumber" -> BlockOption(P(1)) /\ Boolean(P(2))
    [] method = "eth_getBlockByHash" -> Hex(P(1)) /\ BlockHash(P(1)) /\ Boolean(P(2))
    [] method = "eth_getBlockTransactionCountByHash" -> Hex(P(1)) /\ BlockHash(P(1))
    [] method = "eth_getUncleCountByBlockNumber" -> Hex(P(1))
    [] method = "eth_getLogs" -> Filter(P(1))
    [] method \in {"eth_blockNumber", "eth_chainId"} -> TRUE

PortalValid(method, params) ==
  LET P(i) == Param(params, i) IN
  CASE method = "portal_addBlockHeaderToHistory" -> BlockHash(P(1)) /\ Hex(P(2))
    [] method = "portal_addBlockToHistory" -> BlockHash(P(1)) /\ Hex(P(2))
    [] method = "portal_addBootNode" -> Enr(P(1)) /\ IsProtocolId(P(2))
    [] method = "portal_findNodes" -> DstId(P(1)) /\ Distances(P(2)) /\ IsProtocolId(P(3))
    [] method = "portal_history_findContent" -> Enr(P(1)) /\ Hex(P(2))
    [] method = "portal_history_getSnapshot" -> Enr(P(1))
    [] method = "portal_history_offer" ->
         DstId(P(1)) /\ BlockHashes(P(2)) /\ HistoryContentTypes(P(3))
    [] method = "portal_nodeLookup" -> IsProtocolId(P(1)) /\ Enr(P(2))
    [] method = "portal_ping" -> Enr(P(1)) /\ IsProtocolId(P(2))
    [] method \in {"portal_nodeEnr", "portal_headerAccumulatorRoot"} -> TRUE

EthMethods ==
  {"eth_blockNumber", "eth_chainId", "eth_getBlockByNumber", "eth_getBlockByHash",
   "eth_getBlockTransactionCountByHash", "eth_getUncleCountByBlockNumber", "eth_getLogs"}

\* middleware: too few parameters, or one that is refused, are answered with
\* INVALID_PARAMS.  typeof null is "object": asked for a field, it throws.
Middleware(method, params) ==
  IF Len(params) < Required(method) THEN "invalid"
  ELSE IF method = "eth_getLogs" /\ params[1] = Null THEN "exception"
  ELSE IF method \in EthMethods /\ EthValid(method, params) THEN "passes"
  ELSE IF method \notin EthMethods /\ PortalValid(method, params) THEN "passes"
  ELSE "invalid"
=============================================================================
