---------------------------- MODULE Ics721Registry ----------------------------
(***************************************************************************)
(* Which cw721 contract stands for which class on one chain.               *)
(*                                                                         *)
(* CLASS_ID_AND_NFT_CONTRACT_INFO is an indexed map: the record of a class *)
(* is found by class id and, over a unique index, by contract.  A local    *)
(* collection is registered, under its own address, when it first sends an *)
(* NFT.  A voucher class is registered by its first receipt under the      *)
(* address that instantiate2 will give its contract: ICS721 computes it    *)
(* from the checksum of the code, the class id and an address length, and  *)
(* the chain computes it again.  Migrations change the code id and the     *)
(* length, and the first one copies the map of an older version.           *)
(*                                                                         *)
(* A client lists the registry page by page while all of this goes on.     *)
(***************************************************************************)
EXTENDS Naturals, FiniteSets

CONSTANTS
  Collections,    \* local collections: class ids and addresses alike
  Vouchers,       \* class ids of vouchers
  CodeIds,
  Checksum,       \* Checksum[c]: the checksum of code c
  Lengths,        \* values of CONTRACT_ADDR_LENGTH
  HashLength,     \* bytes of an instantiate2 address: 32
  ChainLength,    \* bytes of a contract address on this chain
  Rank,           \* the order of the keys: an injection into the numbers
  MaxLimit,       \* bound: entries of a page
  NoClass, NoAddress

Classes == Collections \cup Vouchers

Instantiated == [checksum : {Checksum[c] : c \in CodeIds}, class : Vouchers,
                 length : Lengths \cup {HashLength, ChainLength}]
Addresses == Collections \cup Instantiated

ASSUME RegistryAssumption ==
  /\ Checksum = [c \in CodeIds |-> Checksum[c]]
  /\ Lengths \subseteq Nat /\ HashLength \in Nat /\ ChainLength \in Nat
  /\ Rank \in [Classes -> Nat]
  /\ \A k, l \in Classes : Rank[k] = Rank[l] => k = l
  /\ MaxLimit \in Nat
  /\ NoClass \notin Classes /\ NoAddress \notin Addresses
  /\ Collections \cap Vouchers = {} /\ Collections \cap Instantiated = {}

VARIABLES
  contract,   \* contract[k]: the address in the record of class k
  byAddress,  \* the unique index over addresses
  metadata,   \* the keys of CLASS_ID_TO_CLASS
  legacy,     \* legacy[a]: the class of a in the map of the older version
  live,       \* whether the chain runs this version yet
  contracts,  \* the cw721 contracts that exist
  codeId, length,
  listing     \* what the client has got so far

vars == <<contract, byAddress, metadata, legacy, live, contracts, codeId,
          length, listing>>
config == <<codeId, length>>

Listings == [known : SUBSET Classes,               \* registered at its start
             after : Classes \cup {NoClass},       \* start_after
             got : SUBSET Classes,
             done : BOOLEAN]

TypeOK ==
  /\ contract \in [Classes -> Addresses \cup {NoAddress}]
  /\ byAddress \in [Addresses -> Classes \cup {NoClass}]
  /\ metadata \in SUBSET Classes
  /\ legacy \in [Addresses -> Classes \cup {NoClass}]
  /\ live \in BOOLEAN
  /\ contracts \in SUBSET Addresses
  /\ codeId \in CodeIds
  /\ length \in Lengths \cup {HashLength}
  /\ listing \in Listings

NoListing == [known |-> {}, after |-> NoClass, got |-> {}, done |-> TRUE]

\* A map of an older version: the collections that have been sent, under
\* their own addresses, and the contracts made for voucher classes.
LegacyMap(sent, made) ==
  [a \in Addresses |-> IF a \in Collections
                       THEN IF a \in sent THEN a ELSE NoClass
                       ELSE IF made[a.class] = a THEN a.class ELSE NoClass]

Made == [Vouchers -> {NoAddress} \cup {a \in Instantiated : a.length = ChainLength}]

\* A new contract, or one that an older version ran.
Init ==
  /\ contract = [k \in Classes |-> NoAddress]
  /\ byAddress = [a \in Addresses |-> NoClass]
  /\ \E sent \in SUBSET Collections, made \in Made : legacy = LegacyMap(sent, made)
  /\ metadata = {legacy[a] : a \in Addresses} \ {NoClass}
  /\ contracts = Collections \cup {a \in Addresses : legacy[a] # NoClass}
  /\ live = (metadata = {})
  /\ codeId \in CodeIds
  /\ length \in Lengths \cup {HashLength}
  /\ listing = NoListing

-------------------------------------------------------------------------------
(* The indexed map.                                                          *)

\* load_class_id_for_nft_contract
ClassIdFor(a) == byAddress[a]

\* load_nft_contract_for_class_id
NftContractFor(k) == contract[k]

Registered == {k \in Classes : contract[k] # NoAddress}

\* IndexedMap::save: the old record's index entry goes, and the unique index
\* refuses an address that another class has.
Save(k, a) ==
  /\ byAddress[a] \in {NoClass, k}
  /\ contract' = [contract EXCEPT ![k] = a]
  /\ byAddress' = [b \in Addresses |-> IF b = a THEN k
                                       ELSE IF b = contract[k] THEN NoClass
                                       ELSE byAddress[b]]

-------------------------------------------------------------------------------
(* Sends.                                                                    *)

\* A contract sends an NFT for the first time: it is a local collection.
RegisterCollection(x) ==
  /\ live /\ ClassIdFor(x) = NoClass
  /\ Save(x, x)
  /\ metadata' = metadata \cup {x}
  /\ UNCHANGED <<legacy, live, contracts, config, listing>>

-------------------------------------------------------------------------------
(* Receipts.                                                                 *)

Address(code, k, n) == [checksum |-> Checksum[code], class |-> k, length |-> n]

\* get_instantiate2_address: the hash, cut to the configured length.  A
\* length beyond the hash is a panic.
Predicted(code, k) == Address(code, k, length)
Predictable == length <= HashLength

\* The reply to an instantiation looks the real address up in the index.
InstantiateCw721Reply(a) == byAddress'[a] # NoClass

\* Mistake: the address of the new contract is not checked.
ReceiveNewClassUnchecked(k) ==
  /\ live /\ contract[k] = NoAddress
  /\ Predictable
  /\ Save(k, Predicted(codeId, k))
  /\ contracts' = contracts \cup {Address(codeId, k, ChainLength)}
  /\ metadata' = metadata \cup {k}
  /\ UNCHANGED <<legacy, live, config, listing>>

\* Mistake: the class is not looked up before its contract is instantiated.
ReceiveClassAnew(k) ==
  /\ live /\ Predictable
  /\ Save(k, Predicted(codeId, k))
  /\ LET a == Address(codeId, k, ChainLength) IN
     /\ a \notin contracts
     /\ InstantiateCw721Reply(a)
     /\ contracts' = contracts \cup {a}
  /\ metadata' = metadata \cup {k}
  /\ UNCHANGED <<legacy, live, config, listing>>

\* The first receipt of a class: it is registered under the predicted address,
\* and its contract instantiated.  If the reply does not find the address, the
\* receipt is undone (and acknowledged as an error), as if it had not been.
ReceiveNewClass(k) ==
  /\ live /\ contract[k] = NoAddress
  /\ Predictable
  /\ Save(k, Predicted(codeId, k))
  /\ LET a == Address(codeId, k, ChainLength) IN
     /\ a \notin contracts
     /\ InstantiateCw721Reply(a)
     /\ contracts' = contracts \cup {a}
  /\ metadata' = metadata \cup {k}
  /\ UNCHANGED <<legacy, live, config, listing>>

\* A later one mints on the contract of the record.  It saves the class too.
ReceiveKnownClass(k) ==
  /\ live /\ NftContractFor(k) \in contracts
  /\ metadata' = metadata \cup {k}
  /\ UNCHANGED <<contract, byAddress, legacy, live, contracts, config, listing>>

-------------------------------------------------------------------------------
(* Migrations.                                                               *)

\* The class of an entry of the older map gets its address.
LegacyContract(k) ==
  IF \E a \in Addresses : legacy[a] = k
  THEN CHOOSE a \in Addresses : legacy[a] = k ELSE contract[k]

\* Mistake: the older map is copied without its entries for addresses.
CopyLegacyByClass ==
  /\ contract' = [k \in Classes |-> LegacyContract(k)]
  /\ UNCHANGED byAddress

\* Every entry of the older map is saved into the indexed map, as Save does:
\* what is there of other classes stays.
CopyLegacy ==
  /\ \A a \in Addresses : legacy[a] # NoClass => byAddress[a] \in {NoClass, legacy[a]}
  /\ contract' = [k \in Classes |-> LegacyContract(k)]
  /\ byAddress' = [b \in Addresses |->
       IF legacy[b] # NoClass THEN legacy[b]
       ELSE IF \E a \in Addresses : legacy[a] = byAddress[b] THEN NoClass
       ELSE byAddress[b]]

\* migrate and migrate_legacy.  A migration that names no length goes back to
\* the default.
Migrate(code, n) ==
  /\ live' = TRUE
  /\ codeId' = code
  /\ length' = n
  /\ IF Registered = {} THEN CopyLegacy ELSE UNCHANGED <<contract, byAddress>>
  /\ UNCHANGED <<metadata, legacy, contracts, listing>>

-------------------------------------------------------------------------------
(* A client lists the registry.                                              *)

StartListing ==
  /\ live /\ listing.done
  /\ listing' = [known |-> Registered, after |-> NoClass, got |-> {}, done |-> FALSE]
  /\ UNCHANGED <<contract, byAddress, metadata, legacy, live, contracts, config>>

After(k) == {l \in Registered : k # NoClass => Rank[l] > Rank[k]}

\* Mistake: the range runs down from the greatest key.
PageDescending(k, limit) ==
  {l \in After(k) : Cardinality({j \in After(k) : Rank[j] > Rank[l]}) < limit}

\* query_nft_contracts: the first entries with keys after k, in their order.
Page(k, limit) ==
  {l \in After(k) : Cardinality({j \in After(k) : Rank[j] < Rank[l]}) < limit}

\* The client asks for the entries after the last one it got, until a page is
\* not full.
GetPage(limit) ==
  /\ ~listing.done
  /\ LET page == Page(listing.after, limit) IN
     \E last \in IF page = {} THEN {listing.after} ELSE page :
       /\ \A k \in page : Rank[k] <= Rank[last]
       /\ listing' = [known |-> listing.known, after |-> last,
                      got |-> listing.got \cup page,
                      done |-> Cardinality(page) < limit]
  /\ UNCHANGED <<contract, byAddress, metadata, legacy, live, contracts, config>>

-------------------------------------------------------------------------------

Next ==
  \/ \E x \in Collections : RegisterCollection(x)
  \/ \E k \in Vouchers : ReceiveNewClass(k) \/ ReceiveKnownClass(k)
  \/ \E code \in CodeIds, n \in Lengths \cup {HashLength} : Migrate(code, n)
  \/ StartListing
  \/ \E limit \in 1..MaxLimit : GetPage(limit)

Spec == Init /\ [][Next]_vars

-------------------------------------------------------------------------------
(* Properties.                                                               *)

\* The two ways to look a record up agree.
IndexAgrees == \A k \in Classes, a \in Addresses :
  ClassIdFor(a) = k <=> NftContractFor(k) = a

\* The record is written before the contract exists, with an address computed
\* apart from the chain's; yet no class ever resolves to an address without a
\* contract, whatever lengths and codes migrations set.
RegisteredExists == live => \A k \in Registered : contract[k] \in contracts

\* receive_nft loads the class of a registered contract: it is there.
ClassesKnown == live => Registered \subseteq metadata

\* A class keeps its contract: vouchers that were minted stay the ones that
\* can be sent home.  After a migration of the code id a packet of a known
\* class predicts an address that is free, and must not be registered there.
ContractsStay == [][\A k \in Registered : contract'[k] = contract[k]]_vars

\* A finished listing has every class that was registered when it started,
\* whatever has been registered between its pages.
ListingComplete == listing.done => listing.known \subseteq listing.got

\* A class never moves to the contract of another: a collection stands for
\* itself, and a voucher class has a contract made for it.
OwnContract == \A k \in Registered :
  IF k \in Collections THEN contract[k] = k
                       ELSE contract[k] \in Instantiated /\ contract[k].class = k

\* The older map is a sound one.
LegacySound == \A a \in Addresses : legacy[a] # NoClass =>
  /\ a \in contracts /\ legacy[a] \in metadata
  /\ IF a \in Collections THEN legacy[a] = a ELSE legacy[a] = a.class
  /\ \A b \in Addresses : legacy[b] = legacy[a] => b = a

\* The inductive invariant: the two indexes agree, and what they name exists,
\* through registrations from both sides and the copy of the older map.
RegistryInv ==
  /\ TypeOK /\ LegacySound
  /\ IndexAgrees /\ OwnContract /\ RegisteredExists /\ ClassesKnown
  /\ Collections \subseteq contracts
  /\ ~live => Registered = {}
===============================================================================
