---------------------------- MODULE Ics721Metadata ----------------------------
(***************************************************************************)
(* The data that NFTs carry along a line of ICS721 contracts.              *)
(*                                                                         *)
(* Chains 1..N run ICS721, and each sends NFTs to its neighbours.  The     *)
(* module at 0 is not an ICS721 (say, an nft-transfer module): it sends    *)
(* NFTs of its class "foreign" to chain 1 in batches of any shape, its     *)
(* class may change, and it takes back what is its own.  The class "home"  *)
(* is a collection of chain 1.                                             *)
(*                                                                         *)
(* The uri of an NFT is kept by the collection's contract, its data and    *)
(* the class by ICS721.  A packet is built from the three and is taken     *)
(* apart again at the next chain.  Who may send, channels and timeouts are *)
(* left to Ics721Transfer; a packet may be refused at any time for other   *)
(* reasons than its data.                                                  *)
(*                                                                         *)
(* An Option is a sequence of length 0 or 1.                               *)
(***************************************************************************)
EXTENDS Naturals, Sequences, FiniteSets, Functions

CONSTANTS
  N,            \* number of ICS721 contracts
  Foreign,      \* NFTs of the module at 0
  Home,         \* NFTs of chain 1's own collection
  Malformed,    \* whether the module at 0 sends malformed packets
  MaxBatch,     \* bound: NFTs in a well-formed packet of the module at 0
  MaxVersion,   \* bound: versions of the foreign class
  MaxPackets    \* bound: packets ever sent

ASSUME MetadataAssumption ==
  N \in Nat \ {0} /\ MaxBatch \in Nat /\ MaxVersion \in Nat /\ MaxPackets \in Nat
  /\ Malformed \in BOOLEAN /\ Foreign \cap Home = {}

VARIABLES
  form,      \* form[k]: what the source says about class k
  version,   \* version of the foreign class at its source
  class,     \* class[c][k]: CLASS_ID_TO_CLASS, an Option
  name,      \* name[c][k]: the name of c's collection for class k, an Option
  uri,       \* uri[c][t]: the NFT in c's collection, an Option of its uri's Option
  metadata,  \* metadata[c][t]: TOKEN_METADATA, an Option of its data's Option
  place,     \* place[t]: the chain where t can be sent, or Moving
  packets,   \* packets that have not been received
  acks,      \* acknowledgements that have not been relayed
  sent,      \* number of packets sent
  given      \* given[t]: the uri and data that t had at its source

vars == <<form, version, class, name, uri, metadata, place, packets, acks, sent, given>>

None == <<>>
Some(x) == <<x>>
Chains == 1..N
Classes == {"foreign", "home"}
Nfts == Foreign \cup Home
ClassOf(t) == IF t \in Home THEN "home" ELSE "foreign"
Moving == N + 1
Empty == ""
NoBytes == [form |-> "empty", version |-> 0]    \* a Binary of no bytes

\* The source's ICS721 sends CollectionData, the one on Stargaze extends it; a
\* module may send either, data of its own, or none.
Forms == [foreign : {"none", "custom", "collection", "extended"},
          home : IF Home = {} THEN {"collection"} ELSE {"collection", "extended"}]

Init ==
  /\ form \in Forms
  /\ version = 1
  /\ class = [c \in Chains |-> [k \in Classes |-> None]]
  /\ name = [c \in Chains |-> [k \in Classes |->
               IF c = 1 /\ k = "home" THEN Some("source name") ELSE None]]
  /\ given \in {g \in [Nfts -> [uri : {None, Some(1)}, data : {None}]] :
                  \A t \in Foreign : g[t].uri = None}
  /\ uri = [c \in Chains |-> [t \in Nfts |->
              IF c = 1 /\ t \in Home THEN Some(given[t].uri) ELSE None]]
  /\ metadata = [c \in Chains |-> [t \in Nfts |-> None]]
  /\ place = [t \in Nfts |-> IF t \in Home THEN 1 ELSE 0]
  /\ packets = {} /\ acks = {} /\ sent = 0

-------------------------------------------------------------------------------
(* Operators.                                                                *)

\* zip_optional: the shorter of the two lists ends the iteration.
ZipOptional(a, b) ==
  IF b = None THEN [i \in 1..Len(a) |-> <<a[i], None>>]
  ELSE [i \in 1..(IF Len(a) <= Len(b[1]) THEN Len(a) ELSE Len(b[1])) |->
          <<a[i], Some(b[1][i])>>]

\* Mistake: the lists of uris and data are not compared with the tokens.
ValidateNoLengths(data) ==
  /\ data.class_id # Empty
  /\ data.class_uri # Some(Empty) /\ data.class_data # Some(NoBytes)
  /\ data.token_ids # <<>>

\* Mistake: an empty class uri is as good as none.
ValidateEmptyUri(data) ==
  /\ data.class_id # Empty
  /\ data.class_data # Some(NoBytes)
  /\ data.token_ids # <<>>
  /\ \A list \in {data.token_uris, data.token_data} :
       list # None => Len(list[1]) = Len(data.token_ids)

\* NonFungibleTokenPacketData::validate
Validate(data) ==
  /\ data.class_id # Empty
  /\ data.class_uri # Some(Empty) /\ data.class_data # Some(NoBytes)
  /\ data.token_ids # <<>>
  /\ \A list \in {data.token_uris, data.token_data} :
       list # None => Len(list[1]) = Len(data.token_ids)

\* The tokens of a packet as create_voucher_and_channel_messages iterates them.
Tokens(data) ==
  LET zipped == ZipOptional(ZipOptional(data.token_ids, data.token_uris), data.token_data)
  IN [i \in DOMAIN zipped |->
        [id |-> zipped[i][1][1], uri |-> zipped[i][1][2], data |-> zipped[i][2]]]

\* Mistake: CollectionData has no fields but its own (deny_unknown_fields).
ParsesStrictly(data) == data # None /\ data[1].form = "collection"

\* from_json::<CollectionData> of a class's data.
IsCollectionData(data) == data # None /\ data[1].form \in {"collection", "extended"}

\* init_msg: the name of a new collection.
NameOf(data) == IF IsCollectionData(data) THEN "source name" ELSE "class id"

\* try_get_ack_error: what cannot be parsed is an error.
TryGetAckError(ack) == ack # "result"

\* The i-th element of an optional list, if there is one.
Nth(list, i) == IF list = None \/ i > Len(list[1]) THEN None ELSE Some(list[1][i])

-------------------------------------------------------------------------------
(* Sending.                                                                  *)

NewPacket(from, to, data) ==
  /\ sent < MaxPackets
  /\ sent' = sent + 1
  /\ packets' = packets \cup {[seq |-> sent + 1, from |-> from, to |-> to, data |-> data]}
  /\ place' = [t \in Nfts |-> IF t \in Range(data.token_ids) THEN Moving ELSE place[t]]

Batches == {ids \in UNION {[1..n -> Foreign] : n \in 1..MaxBatch} : IsInjective(ids)}
ListOf(n) == Some([i \in 1..n |-> i])

\* What the module at 0 may put in a packet,
WellFormed ==
  UNION {[class_id : {"foreign"},
          class_uri : {None, Some("uri")},
          class_data : IF form.foreign = "none" THEN {None}
                       ELSE {Some([form |-> form.foreign, version |-> version])},
          token_ids : {ids},
          token_uris : {None, ListOf(Len(ids))},
          token_data : {None, ListOf(Len(ids))}] : ids \in Batches}

\* and one field of it may be wrong: empty, of another length, an NFT twice.
Spoiled(data) ==
  {[data EXCEPT !.class_id = Empty], [data EXCEPT !.class_uri = Some(Empty)],
   [data EXCEPT !.class_data = Some(NoBytes)], [data EXCEPT !.token_ids = <<>>],
   [data EXCEPT !.token_ids = @ \o @]}
  \cup {[data EXCEPT !.token_uris = ListOf(n)] : n \in 0..Len(data.token_ids) + 1}
  \cup {[data EXCEPT !.token_data = ListOf(n)] : n \in 0..Len(data.token_ids) + 1}

\* The module at 0 sends NFTs that are with it (bound: one packet at a time).
ForeignSend ==
  /\ \A p \in packets : p.from # 0
  /\ \E data \in WellFormed :
     \E sentData \in {data} \cup IF Malformed THEN Spoiled(data) ELSE {} :
       /\ \A t \in Range(sentData.token_ids) : place[t] = 0
       /\ NewPacket(0, 1, sentData)
  /\ UNCHANGED <<form, version, class, name, uri, metadata, acks, given>>

\* The class of the module at 0 gets new data.
UpdateSource ==
  /\ form.foreign # "none" /\ version < MaxVersion
  /\ version' = version + 1
  /\ UNCHANGED <<form, class, name, uri, metadata, place, packets, acks, sent, given>>

\* The class that receive_nft sends with: the stored one, or one that is made of
\* the collection's data when an NFT of it leaves for the first time.
SenderClass(c, k) ==
  IF class[c][k] # None THEN class[c][k][1]
  ELSE [uri |-> None, data |-> Some([form |-> form.home, version |-> 1])]

\* Mistake: the collection has all there is to know about an NFT.
DataWithoutMetadata(c, t) ==
  LET k == ClassOf(t) IN
  [class_id |-> k,
   class_uri |-> SenderClass(c, k).uri, class_data |-> SenderClass(c, k).data,
   token_ids |-> <<t>>,
   token_uris |-> IF uri[c][t][1] = None THEN None ELSE Some(uri[c][t][1]),
   token_data |-> None]

\* The packet data of receive_nft.
PacketData(c, t) ==
  LET k == ClassOf(t)
      stored == IF metadata[c][t] = None THEN None ELSE metadata[c][t][1]
  IN [class_id |-> k,
      class_uri |-> SenderClass(c, k).uri, class_data |-> SenderClass(c, k).data,
      token_ids |-> <<t>>,
      token_uris |-> IF uri[c][t][1] = None THEN None ELSE Some(uri[c][t][1]),
      token_data |-> IF stored = None THEN None ELSE Some(stored)]

\* receive_nft: an NFT goes on to a neighbour, or back.
Send(c, t, to) ==
  /\ place[t] = c
  /\ to = 0 => t \in Foreign
  /\ NewPacket(c, to, PacketData(c, t))
  /\ class' = [class EXCEPT ![c][ClassOf(t)] = Some(SenderClass(c, ClassOf(t)))]
  /\ UNCHANGED <<form, version, name, uri, metadata, acks, given>>

-------------------------------------------------------------------------------
(* Receiving.                                                                *)

Answer(p, ack) ==
  /\ packets' = packets \ {p}
  /\ acks' = acks \cup {[seq |-> p.seq, from |-> p.from, to |-> p.to,
                        ids |-> p.data.token_ids, ack |-> ack]}

Arrive(p, ids) == place' = [t \in Nfts |-> IF t \in ids THEN p.to ELSE place[t]]

\* The collection mints no id twice.
CanMint(c, tokens) ==
  /\ \A i \in DOMAIN tokens : uri[c][tokens[i].id] = None
  /\ \A i, j \in DOMAIN tokens : i # j => tokens[i].id # tokens[j].id

\* Vouchers are made: callback_create_vouchers and callback_mint.
ReceiveVouchers(p) ==
  LET c == p.to
      k == p.data.class_id
      tokens == Tokens(p.data)
      ids == {tokens[i].id : i \in DOMAIN tokens}
      TokenOf(t) == tokens[CHOOSE i \in DOMAIN tokens : tokens[i].id = t]
  IN /\ p.from < c
     /\ Validate(p.data) /\ tokens # <<>> /\ CanMint(c, tokens)
     /\ class' = [class EXCEPT ![c][k] =
                     Some([uri |-> p.data.class_uri, data |-> p.data.class_data])]
     /\ name' = [name EXCEPT ![c][k] =
                   IF @ # None THEN @ ELSE Some(NameOf(p.data.class_data))]
     /\ uri' = [uri EXCEPT ![c] =
                  [t \in Nfts |-> IF t \in ids THEN Some(TokenOf(t).uri) ELSE @[t]]]
     /\ metadata' = [metadata EXCEPT ![c] =
                       [t \in Nfts |-> IF t \in ids THEN Some(TokenOf(t).data) ELSE @[t]]]
     /\ Arrive(p, ids)
     /\ given' = IF p.from # 0 THEN given ELSE
                   [t \in Nfts |-> LET at(i) == p.data.token_ids[i] = t IN
                      IF \A i \in DOMAIN p.data.token_ids : ~at(i) THEN given[t] ELSE
                      LET i == CHOOSE i \in DOMAIN p.data.token_ids : at(i) IN
                      [uri |-> Nth(p.data.token_uris, i), data |-> Nth(p.data.token_data, i)]]
     /\ Answer(p, "result")
     /\ UNCHANGED <<form, version, sent>>

\* What is in escrow here is released: callback_redeem_vouchers.
ReceiveReturning(p) ==
  /\ p.from > p.to
  /\ p.to # 0 => Validate(p.data)
  /\ Arrive(p, Range(p.data.token_ids))
  /\ Answer(p, "result")
  /\ UNCHANGED <<form, version, class, name, uri, metadata, sent, given>>

\* Anything else is refused, and so may be any packet; the chain may answer on
\* its own in a form that is not the contract's.
Refuse(p) ==
  /\ Answer(p, "error") \/ Answer(p, "unparsable")
  /\ UNCHANGED <<form, version, class, name, uri, metadata, place, sent, given>>

\* ibc_packet_ack: the sender is refunded, or what has gone back is burned.
Acknowledge(a) ==
  LET failed == TryGetAckError(a.ack)
      burned == IF failed \/ a.from < a.to THEN {} ELSE Range(a.ids)
      refunded == IF failed THEN Range(a.ids) ELSE {}
  IN /\ acks' = acks \ {a}
     /\ place' = [t \in Nfts |-> IF t \in refunded THEN a.from ELSE place[t]]
     /\ IF a.from = 0 THEN UNCHANGED <<uri, metadata>>
        ELSE /\ uri' = [uri EXCEPT ![a.from] =
                          [t \in Nfts |-> IF t \in burned THEN None ELSE @[t]]]
             /\ metadata' = [metadata EXCEPT ![a.from] =
                               [t \in Nfts |-> IF t \in burned THEN None ELSE @[t]]]
     /\ UNCHANGED <<form, version, class, name, packets, sent, given>>

-------------------------------------------------------------------------------

Next ==
  \/ UpdateSource \/ ForeignSend
  \/ \E c \in Chains, t \in Nfts : \E to \in {c - 1, c + 1} \cap 0..N : Send(c, t, to)
  \/ \E p \in packets : ReceiveVouchers(p) \/ ReceiveReturning(p) \/ Refuse(p)
  \/ \E a \in acks : Acknowledge(a)

Spec == Init /\ [][Next]_vars

-------------------------------------------------------------------------------
(* Properties.                                                               *)

\* Every NFT of a packet is delivered or refunded, none is lost between the lists
\* of a packet or for an acknowledgement that cannot be parsed.
NothingLost ==
  \A t \in Nfts : place[t] = Moving =>
    \/ \E p \in packets : t \in Range(p.data.token_ids)
    \/ \E a \in acks : t \in Range(a.ids) /\ a.ack # "result"

\* However far a voucher has come, it has the uri and the data that the NFT had
\* at its source ("tokenUris[N] should hold the metadata for tokenIds[N]").  One
\* that has gone back and is still to be burned keeps those of its last journey.
ToBeBurned(c, t) == \E a \in acks :
  a.from = c /\ a.to < c /\ t \in Range(a.ids) /\ a.ack = "result"
MetadataKept ==
  \A c \in Chains, t \in Nfts : uri[c][t] # None /\ ~ToBeBurned(c, t) =>
    /\ uri[c][t] = Some(given[t].uri)
    /\ (c = 1 /\ t \in Home) \/ metadata[c][t] = Some(given[t].data)

\* What ICS721 has accepted it can send on, and back: no packet of its own has an
\* empty class uri or class data, or lists of different lengths.
SentIsValid ==
  \A p \in packets : p.from # 0 =>
    /\ p.data.class_uri # Some(Empty) /\ p.data.class_data # Some(NoBytes)
    /\ \A list \in {p.data.token_uris, p.data.token_data} :
         list # None => Len(list[1]) = Len(p.data.token_ids)

\* A class that names itself has that name on every chain it has come to, also
\* when its source sends more than CollectionData (state.rs, "NB").
NamesCarried ==
  \A c \in Chains, k \in Classes : name[c][k] # None =>
    name[c][k] = Some(IF form[k] \in {"collection", "extended"} THEN "source name"
                      ELSE "class id")
===============================================================================
