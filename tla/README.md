# A TLA+ model of cw-ics721

The repository implements ICS721, the interchain transfer of NFTs, as CosmWasm
contracts. This project models the contracts and the chains around them in
TLA+, checks the models with TLC on small instances and proves the main
invariants with TLAPS.

## 1. The system

An ICS721 contract runs on every chain. A holder *sends* an NFT to it (through
the collection's `SendNft`, or through an outgoing proxy), naming a channel and a
receiver. The contract keeps the NFT in escrow and sends a packet. The contract
at the other end of the channel either *mints a voucher* (an NFT of a cw721
collection that ICS721 has instantiated for that class) or, when the packet
brings a voucher back over the channel the original left on, *releases the
original*. Its answer comes back as an acknowledgement: on success a returned
voucher is burnt, on an error or a timeout the NFT goes back to its sender.

| Component | Source | State | Operations |
|---|---|---|---|
| transfer protocol | `packages/ics721/src/{execute,ibc,ibc_packet_receive,ibc_helpers}.rs` | class registry, `OUTGOING_`/`INCOMING_CLASS_TOKEN_TO_CHANNEL`, `TOKEN_METADATA`, the cw721 owners, packets in flight | ReceiveNft, ibc_packet_receive, ibc_packet_ack, ibc_packet_timeout |
| receipt dispatch | `ibc_packet_receive.rs`, `execute.rs` (callbacks), `ibc.rs` (reply), `helpers.rs` | the message stack of one transaction and its savepoint | Conjunction and its operands: incoming proxy, CreateVouchers or RedeemVouchers, receive callback, channel entries; replies |
| acknowledgement callbacks | `ibc.rs`, `helpers.rs` | the same for a settlement | burn or refund, then the sender's callback |
| configuration | `execute.rs` (instantiate, migrate, receive_proxy), `ibc.rs` (reply), `state.rs`, `packages/cw-cii` | proxies, cw721 code id and admin, address length | instantiate, its replies, migrate |
| pause | `packages/cw-pause-once` | pauser, paused | set_pauser, pause, error_if_paused |
| admin clean-up | `execute.rs` | outgoing, incoming, metadata, cw721 owner | AdminCleanAndBurnNft, AdminCleanAndUnescrowNft |
| channel | `ibc.rs`, `ibc_helpers.rs` | (kept by IBC) | open, connect, close |
| class registry | `execute.rs`, `query.rs`, `state.rs`, `helpers.rs` | class id <-> contract, unique both ways | create_instantiate_msg, migrate_legacy, the lookups and listings |
| packet data | `packages/ics721-types`, `packages/zip-optional`, `execute.rs` | `CLASS_ID_TO_CLASS`, `TOKEN_METADATA`, the cw721 uris | validate, zip_optional, the acknowledgement's forms |
| queries | `query.rs` | none | the getters and their pagination |
| test contracts | `contracts/ics721-base-tester`, `contracts/cw721-tester` | ack mode, last ack, callback records | set mode, send, receive, acknowledge, callbacks |
| chain entry points | `contracts/ics721-base`, `contracts/sg-ics721` | none | call the traits; sg-ics721 has its own cw721 init message |

How they interact. cw721 contracts call ICS721 (`ReceiveNft`) and are called by
it (`TransferNft`, `Mint`, `Burn`, instantiate). ICS721 calls itself: every step
of a receipt is a message it sends to its own address, handled in a submessage
whose reply writes the acknowledgement. Proxies and callback contracts are
strangers' code that runs in the middle of these transactions. Contracts on
different chains share nothing but packets, which relayers carry.

What is hard about it:

* **interleaving of chains**: packets, acknowledgements and timeouts of one NFT
  cross; it may have come back and left again before the first acknowledgement;
* **re-entrancy**: proxies and callbacks run between two writes of one receipt,
  and in a settlement after its handler has written all it writes;
* **partial failure**: a receipt is 4 to 9 messages, any one can fail, and all of
  them must then be undone and answered with an error;
* **settlement must never fail**: an acknowledgement or timeout whose messages
  fail reverts each time it is relayed, and an NFT is lost;
* **names**: a class id is a path of channel ends whose names are unique on
  their own chain only, and is popped and pushed at each hop;
* **operators**: pausers, migrations and clean-ups cut into all of this without
  seeing the other chain;
* **foreign modules**: a counterparty need not be ICS721, may propose other
  versions and an ordered channel, close its end, and fill packets with lists of
  any shape.

| Component | What makes it correct |
|---|---|
| transfer protocol | an NFT is in one place; a voucher is backed by exactly one escrowed NFT; every settlement can succeed; every packet is settled |
| receipt dispatch | all or nothing; the callback sees a finished delivery; the channel records agree with the escrow after every transaction |
| acknowledgement callbacks | a callback changes nothing about the outcome, whether it succeeds, fails or re-enters |
| configuration, pause | one pause per nomination; only a migration lifts it; a pause stops sends and receipts, never settlements; proxies are those asked for |
| admin clean-up | unescrow and burn leave no packet that cannot be settled |
| channel | an open channel has agreed on order and version; ICS721 never closes one; what was not received is refunded after a close |
| class registry | class ids and contracts stay in bijection; a class resolves to a contract that exists; listings miss nothing |
| packet data | a packet that validates loses no token, uri or data on the way, and what was accepted can be sent on |

## 2. Modules

| Module | Models |
|---|---|
| `NftLedger` | abstract: what a holder is promised, one place per NFT |
| `Ics721Transfer` | the protocol on any number of chains and channels, one action per transaction; implements `NftLedger` |
| `Ics721Admin` | composes `Ics721Transfer` with the admin's clean-ups; implements `NftLedger` with recoveries |
| `AtomicReceipt` | abstract: a receipt in one step, all or nothing |
| `Ics721Receive` | the receipt on one chain, one action per message; implements `AtomicReceipt` |
| `AtomicSettlement` | abstract: a settlement in one step |
| `Ics721Settle` | the settlement on one chain, one action per message; implements `AtomicSettlement` |
| `Ics721Config` | instantiation, pause, migration, and the ways into escrow that they open and shut |
| `Ics721Registry` | class ids and contracts, predicted addresses, listings |
| `Ics721Channel` | the handshake and the closing of a channel of which ICS721 has at least one end |
| `Ics721Metadata` | classes, uris and data on their way along a line of chains |
| `BaseTester`, `TesterCallbacks` | the test counterparty: its acknowledgement mode, and its callbacks |
| `*_proofs` | the theorems about the module of that name; those about `Ics721Admin` are in `Ics721Transfer_proofs` |
| `MC*` | instances for TLC |

The modules differ in grain on purpose. `Ics721Transfer` has whole transactions
and all chains; `Ics721Receive` and `Ics721Settle` open up the two transactions
in which strangers' code runs, on one chain; the rest look at one matter each and
abstract the others (which is said below).

### Ics721Transfer

A chain executes transactions one at a time, so a transaction (a handler and all
messages it emits) is one action. An *NFT* `s` is a token of a class on a chain,
whether it exists or not; a *class* is the address of a collection behind the
path of channel ends it came through. `owner`, `outgoing`, `incoming` and
`metadata` are the cw721 owners and the storage maps of the same names, one
function over all chains; `registry[c]` is the key set of
`CLASS_ID_AND_NFT_CONTRACT_INFO` on `c`; `paused[c]` is `PO.paused`. `packet[n]`
is IBC's state of one packet: sent, or received with its acknowledgement, or
gone.

| Action | Code |
|---|---|
| `ReceiveNft` | `SendNft` of cw721 with `execute_receive_nft`, `receive_nft` |
| `ReceivePacket` = `RedeemVoucher` or `CreateVoucher` | `ibc_packet_receive` whose submessage succeeds |
| `RejectPacket` | `ibc_packet_receive` with an error acknowledgement |
| `AckSuccess`, `AckError`, `TimeoutPacket` | `ibc_packet_ack`, `handle_packet_fail`, `ibc_packet_timeout` |
| `TransferNft`, `BurnNft` | the holder and cw721 |
| `Pause`, `Migrate` | `PauseOrchestrator` |

IBC itself is external: a packet is received at most once, it is acknowledged
once if it was received and timed out only if it was not, and nothing bounds how
long any of it takes or in which order. A packet may be rejected at any moment,
which covers every reason a receipt can fail for (a refusing proxy, callback or
cw721, an invalid receiver, a paused contract).

Assumed of the environment: every counterparty is an ICS721 contract; holders
transfer NFTs to users and send them through `SendNft` (a plain `TransferNft` to
ICS721's address strands an NFT, in the code too); a receive callback does not
send the NFT out again (see *Findings*).

### Ics721Admin

Adds `AdminCleanAndBurnNft` and `AdminCleanAndUnescrowNft` to every action of
`Ics721Transfer`. The guard is the code's: a caller is refused only if the
contract has an admin and the caller is another (`Admin[c] = Nobody` lets
everyone pass), and the pause check of `execute` stops the admin too. The code
cannot see the other chain, so whether a clean-up does harm is up to the admin.
`Careful` restricts clean-ups to NFTs that are `Unneeded`: no packet gives them
back or burns them, no voucher stands for them. A burn that is still to be
acknowledged counts as a need: if the admin burns the voucher first, a new one
may be minted before the old acknowledgement comes to burn that.

### Ics721Receive

`store` is the chain's state as the running transaction sees it, `saved` the
savepoint to which a failure goes back, `todo` the messages still to be handled,
depth first as CosmWasm runs them, `current` the packet. Each message of
`into_submessage` and each one that it emits has an action; `ReplyError` is the
failure of whichever message is next. A callback contract is any contract: it
accepts, refuses, gives an NFT of the packet away, pauses ICS721, or sends the
NFT out again. The counterparty may put any tokens of the class into its packet,
some twice, and the same token into a second packet. One thing is assumed of it
that no line of the receipt checks (`KnowsOurCollections`): it gives the name of a
collection at home here only to one that this chain has sent out. Settlements of the packets this chain
sends are one step each.

The mapping to `AtomicReceipt` is the savepoint: `saved.owner` and
`saved.outgoing`. While a receipt runs they do not move, so everything in it
stutters but the reply. `AtomicReceipt` leaves one thing open: which channel entry
an NFT has that the callback sent out again (see *Findings*).

### Ics721Settle

The other side of the same coin. `AckSuccess` and `HandlePacketFail` are the
handlers: they update the maps and leave the collection's message and the
callback to be run. If the burn or the transfer fails the transaction reverts;
the callback is a submessage with `reply_on_error`, so its failure goes back to
its own savepoint and the transaction goes on. A memo asks for no callback, for
the sender, for another contract or for an invalid address, which is skipped
without an error. A callback does up to `MaxMoves` things before it returns or fails. The mapping to `AtomicSettlement`
again moves at the end of the transaction alone.

### Ics721Config

One contract from its instantiation: `InstantiateProxy` is a submessage with its
reply, `ProxyFails` undoes all. `ExecutePause`, `Migrate`. An NFT gets into escrow
by the collection's `SendNft` (`SendDirect`), by a proxy that forwards the
message after it has transferred the NFT (`SendForwarded`), or by a proxy that
holds the NFT and calls the collection itself (`SendByProxy`). Proxies are
contracts outside the repository, modelled from how ICS721 calls them.

### Ics721Registry

`RegisterCollection` is the first send of a local collection, `ReceiveNewClass`
the instantiation of a voucher class at the address that `instantiate2_address`
predicts; the chain computes the address again with its own length, and the reply
looks that one up in the index: if the prediction was wrong, the receipt is undone. `Migrate` changes code id and length, and runs `migrate_legacy`
while its guard lets it, which saves the entries of the older map into the new one
(`CopyLegacy`). `StartListing` and `GetPage` are a client that pages
through `query_nft_contracts` between the other transactions.

### Ics721Channel

End `a` is ICS721's, end `b` ICS721's, the tester's or any module's. The six
handlers of the handshake and the closing are actions; the guard of each is what `validate_order_and_version`
can see at that step. IBC does the handshake, needs an open end for an
acknowledgement but none for a timeout, and closes an ordered channel at a
timeout. NFTs of `a`'s chain are sent, returned and refunded meanwhile.

### Ics721Metadata

Chains `1..N` in a line run ICS721; `0` is a module that is not ICS721 and sends
batches whose lists of uris and data are absent, exact, too short, too long or
have empty fields. An `Option` is a sequence of length 0 or 1. `validate`,
`zip_optional` and `WriteAck` are operators, the handlers build packets from the
three storages and take them apart again. Who may send, and channels, are left to
the other modules; a packet may be refused for other reasons than its data.

### BaseTester, TesterCallbacks

`BaseTester` is the tester as a counterparty that answers as told.
`TesterCallbacks` puts one tester and one user on each of two chains, behind ICS721
contracts: what each callback finds in the collection and keeps in storage. Either
account sends the NFT to either, and a memo has its callbacks made at the packet's
own account or at an address that it names (`Callee`), so the tester is also called
on behalf of a user, as in `TestSuccessfulTransferWithReceivers`; an address that
does not validate drops the callback, and a user, who is no contract, makes it
fail. What a callback sees is the collection's owner after the messages before it
(`OwnerSeen`). The sets of memos are constants; `MCTester` has four for the
receipt and three for the settlement.

## 3. Runs

| Run | Instance | Shows |
|---|---|---|
| `pair` | 1 NFT, 2 users, 2 chains, 2 parallel channels, 2 packets, paths of up to 2 hops | all safety properties, the inductive invariant and `NftLedger` |
| `twins` | the same collection address on both chains, one channel whose ends have the same name, 1 user, 3 packets, 1 hop, fair | equal names are not confused; a third packet changes nothing; every packet is settled |
| `admin` | `pair` with 1 user and careful clean-ups on both chains, of which one has no admin | `BackingInv`, `RecoverySpec` |
| `receive` | a voucher class of 2 tokens, 2 ends, packets of up to 2 tokens, callbacks of every kind | `AtomicReceipt`, the records, packets with a token twice |
| `ack_callbacks` | a voucher, 2 ends, 2 packets, callbacks of up to 2 moves, fair | `AtomicSettlement`, no revert, every answer settled, and the NFT can still come home |
| `config` | every instantiation with up to 2 proxies, 2 accounts, 1 NFT, 2 migrations | pauses, proxies and the ways into escrow |
| `registry` | 2 collections, 2 voucher classes, 2 code ids, address lengths 20, 64 or the default 32 on a chain of length 20, with and without a legacy map | the bijection, existing contracts, listings |
| `channel` | every module at `b`, 2 versions, 2 orders, 2 NFTs, 5 packets, fair | the handshake, who may close, the escrow, refunds after a close |
| `metadata` | 2 chains, 2 foreign NFTs in malformed batches, 2 versions of the class, 3 packets | no token, uri, data or name is lost |
| `tester_callbacks` | 2 testers and 2 users, 1 NFT, 3 packets, 4 receive memos with 3 ack memos, fair | what callbacks see, and what a failing one causes |
| `resend_escrow` | `receive` with a collection of the chain, 1 token | a violation, see *Findings* |
| `tester_ack` | | a violation, see *Findings* |

Bounds. Two packets are what it takes for an NFT's later transfer to overtake the
acknowledgement of an earlier one; a third can only join through another crossing
of the same kind, and `twins` has it. Two channels between the same chains are
needed for an NFT to come back over the wrong one, two hops for a voucher of a
voucher. `MaxHops` forbids sends that would make a path longer than it, nothing
else. `Flights` are identities of packets: a settled one is used again, so the
number of packets over time is not bounded. `MaxSent` and `MaxTokens` bound the
packets in flight of one chain and the tokens of a packet. `receive` and
`ack_callbacks` have a voucher class only: it goes home over one end and further
away over the other, where it is treated as the chain's own NFTs are, so both
branches of every handler run; the chain's own collection is in `resend_escrow`
and in the protocol's runs. Two moves of a callback are one to use the NFT it is
told of and one more (pause, or send out again). Two migrations are one that
changes the proxies and one that restores them. `MaxPackets` counts packets ever
sent, for channels, metadata and the tester's callbacks: five let both NFTs go
out, one come back and leave again, and one more be in flight when the channel
closes; three carry an NFT over two hops and start it back. In `Ics721Metadata`
one foreign packet is under way at a time, of up to `MaxBatch` NFTs, and a
malformed packet has one fault. `Home` is empty in that run: TLC explores the class
of the foreign module in all its forms, and the collection of chain 1 with its two
forms is covered by the proofs alone (with a home NFT the run no longer ends in
minutes).
Symmetry: users, tokens, flights, proxies, foreign NFTs; the runs that check
liveness use none.

Fairness. `FairSpec` of `Ics721Transfer` is weakly fair for two steps of each
packet: that it arrives (is received, rejected or timed out) and that its
acknowledgement is brought back. That is the relayer, who can always submit one or
the other: anyone may relay, and a chain accepts a timeout for as long as the
packet is not received. Holders, pausers and migrations are not fair. The property
says more than that relayers relay: an acknowledgement that fails is not enabled
and would stay for ever. `TesterCallbacks` assumes the same of the same steps;
`Ics721Channel` assumes only that packets nobody receives are timed out. `Ics721Settle` assumes weak fairness of a transaction that has begun
(it is run to its end at once) and *strong* fairness of starting the settlement
of each answered packet, because other transactions on the chain disable it while
they run, again and again, and a relayer that keeps trying gets its turn.

Deadlock is checked in all runs but those of `Ics721Channel`, `Ics721Metadata`
and `TesterCallbacks`, which really stop: a closed channel with nothing in flight
has no step left, and neither has a line whose packets are used up. For
`Ics721Receive` and `Ics721Settle` it says that no transaction gets stuck.

## 4. Properties

| Property | In words |
|---|---|
| `VoucherBacked` | a voucher in circulation is backed by the NFT it stands for, in escrow, recorded under its channel and promised to no one else |
| `EscrowAccounted` | ICS721 holds each NFT for exactly one reason |
| `SettlementPossible` | no acknowledgement and no timeout can fail |
| `VoucherRecorded` | `INCOMING` and `TOKEN_METADATA` agree and name the channel in the class id |
| `LedgerSpec` | the protocol implements `NftLedger`: an NFT is in one place, and moves only as its holder asked |
| `PacketsSettle` | every packet is settled, paused or not |
| `BackingInv` | with careful clean-ups vouchers stay backed and packets can be settled; only that each escrow has a reason is lost |
| `RecoverySpec` | a careful clean-up never puts an NFT in two places |
| `ReceiptSpec` | the messages of a receipt implement `AtomicReceipt` |
| `CallbackSeesDelivery` | the receive callback runs when the NFTs are the receiver's |
| `VouchersRecorded` | registry, metadata and channel entries agree after every transaction, and the assertion of `query_token_metadata` holds |
| `EscrowHasChannel` | an NFT in escrow has its `OUTGOING` entry |
| `SettlementSpec` | the messages of a settlement implement `AtomicSettlement`: a callback never changes the outcome |
| `NeverReverts` | no burn and no refund of a settlement fails |
| `FailureSeesRefund` | a callback that is told of a failure finds the NFT refunded |
| `ReturnsWork` | an NFT that is away can come home, whatever callbacks have done |
| `AnswersSettle` | an answered packet is settled, however often its callback fails |
| `PauseOncePerNomination` | there are never more pauses than nominations |
| `PauseHolds` | a pause ends with a migration and until then stops every way into escrow |
| `ProxiesAsAsked` | a running contract has the proxies it was asked for, each with its admin, until it is migrated |
| `OneWayOut` | with an outgoing proxy NFTs leave through it alone, and a refund goes to who owned the NFT |
| `RegistryInv` | the lookups by class and by contract agree |
| `RegisteredExists` | a registered class has a contract that exists |
| `ContractsStay` | a class keeps the contract it was registered with, also when packets of it come after a migration of the code id |
| `ListingComplete` | a listing page by page has every class that was registered when it began |
| `OpenEndsAgree` | an end of ICS721 opens when both ends have agreed on order and version |
| `NeverClosesOnIcs721` | a channel of two ICS721 contracts is never closed |
| `EscrowClaimed` | an NFT in escrow is claimed by one packet or by the other side |
| `PendingReturned` | after a close each packet that was not received is refunded |
| `NothingLost` | each NFT can be sent from somewhere or is in one packet |
| `MetadataKept` | an NFT has the uri and data of its source on every chain, unless it is only there to be burned |
| `SentIsValid` | what ICS721 sends passes the validation of ICS721 |
| `NamesCarried` | a collection for a class is named as the source named it |
| `CallbacksSeeOutcome` | a callback of the tester finds the NFT with its receiver, refunded to its sender, burnt or in escrow, as the outcome has it, on whoever's behalf it is made |
| `FailedCallbackReturns` | a receive callback that fails, wherever it is made, leads to a refund of the sender |

## 5. Proofs

### The protocol

`Ics721Transfer_proofs` proves, for every topology, every number of packets and
every length of paths, the theorems `TypeCorrect`, `EscrowInvariant`,
`VouchersAreBacked`, `EscrowIsAccounted`, `SettlementIsPossible` and
`VouchersAreRecorded`, from the two assumptions of the module: channel ends are
paired and their names unique per chain (`TopologyAssumption`), and the special
values are distinct (`DistinctAssumption`).

None of the safety properties is inductive. That a voucher is backed survives a
refund only if the refund's packet has no claim on the same NFT; that it has none
is known only because two packets never claim one NFT, and because what a packet
claims is in escrow. So the invariant joins `VoucherBacked` and `VoucherRecorded`
with `ClaimsExclusive` (at most one packet per NFT), `ClaimsHeld` (what a packet
claims is in escrow, under its channel while the packet is unsettled) and
`PacketsFit` (classes stay representable and registered): that is `BackingInv`.
`EscrowInv` adds `EscrowJustified` (no escrow without a reason). A packet that
went home keeps its claim until the acknowledgement burns the voucher: that is
the case that makes it work, since the burn may come after the original has left
again. The proof has one lemma per action and per conjunct the action can
disturb; the lemmas about `LocalClass` say that popping and pushing are inverse
over a channel. `EscrowIsAccounted` and `SettlementIsPossible` follow from the
invariant.

### The ledger

`LedgerImplemented`: the protocol implements `NftLedger`, for every topology,
length of paths and number of packets. The mapping counts the copies of an
original and follows class ids back to the chain they come from, a recursion over
paths. That it is well defined (`OriginUnfolds`) is an induction over lengths,
made over the *set* of lengths for which a function with the recursion's equation
exists (`NatSetInduction`, from the library's theorem on minimal elements). Then
`OriginLocal`: a class comes from the same chain under its names at both ends of
a channel, which is what keeps equal names on different chains apart.

The invariant is `Single`: an original has one copy, held by a user or in a packet
that is not delivered, or none. `PlaceOfCopy` reads the place off that copy. Each
action then moves one copy (`TransferMoves`, `BurnMoves`, `SendMoves`,
`LandMoves` for a delivery or a refund) or none (`NothingMoves`), and `LedgerMove`
says that what does not stand for the same original stays where it is. No theorem
about vouchers is needed for it but types: that packets end when they deliver or
refund is enough for "never twice", and that nothing but these steps makes a
holder is enough for "nowhere else". That an NFT can always be refunded or redeemed
is the other half, `SettlementIsPossible` and `VouchersAreBacked`.

### Admin clean-ups

The lemmas of `BackingInv` for the protocol's actions serve here too, with one for
each clean-up: `CarefulCleanUpsKeepBacking` and `CarefulCleanUpsKeepSettlement`,
under the assumption `Careful`. `EscrowJustified` is not kept: an NFT whose voucher
was cleaned away is in escrow for no reason until its own chain releases it.
`CleanUpsKeepRecords` assumes nothing of the admin: `TOKEN_METADATA` and `INCOMING`
keep the same keys, with registered classes, and no voucher is off the record. That
a record names the channel in its class id does need `Careful`: when the NFT behind
a voucher of a voucher is burnt and its channel entry removed, the one that comes
back is minted again, over a channel that its class id does not name.

`CleanUpsRecover` is the refinement, and `Single` is too weak for it: an unescrow
makes a holder out of nothing, so one has to know that there is no other copy. An
original leaves a trail of escrowed NFTs, each standing behind the voucher minted
for it. `Tip` is the end of a trail: an NFT that is there (or a voucher on record
whose token its holder has burnt) which no packet claims and no voucher stands
for. `OneTip` says that an original has one tip, or is in one packet, or neither.
What a user holds is a tip (`HeldAreTips`); a send turns the tip into a packet, a
delivery or a refund turns the packet into a tip, and a careful clean-up of a
voucher makes the NFT behind it the tip (`TipFalls`). A careful unescrow only
touches a tip, so every other copy is gone, and the step is a `Recover` of a burnt
NFT (`UnescrowRecovers`).

### Configuration

`ConfigInvariant` is inductive: types, a pauser only while a nomination is unused,
proxies either placed or pending with a submessage of their own, and an owner to
refund for each NFT in escrow. `PausersPauseOnce`, `ProxiesAreThoseAskedFor`,
`PausesHold` and `NftsLeaveOneWay` follow from it, for any number of migrations
(the bound `MaxMigrations` is a constant), accounts, proxies and NFTs.

### Registry

`RegistryAgrees`: both lookups agree and name contracts that exist, for all
lengths and checksums; what makes it inductive is that voucher contracts stand at
addresses computed from their class, so two classes cannot meet.
`RegisteredContractsExist` and `ContractsNeverMove` follow.

`ListingsAreComplete`: for any set of classes and any page size, and with any
registrations and migrations between the pages. `ListingInv` says that a listing
has given everything of the first page's registry up to the class it continues
after. A full page is the least classes behind that one (`PageIsFirst`); a short
one, with which the client stops, is all there are (`ShortPageIsLast`); and no
step takes a class away (`ContractKept`).

### Channel

`HandshakeInv` is inductive: an end of ICS721 that has begun the handshake is
unordered and of version ics721-1, and an open one knows that the other end's
version is its own. `HandshakeKept`, and from it `OpenChannelsAgree` and
`Ics721StaysOpen`: nothing closes a channel between two ICS721 contracts, since
neither a request nor, on an unordered channel, a timeout does. `EscrowIsClaimed`
adds that each NFT is in one place: with a user and nowhere else, on the other
side, or in exactly one packet (`AllPlaced`).

### Receipt

`Ics721Receive_proofs` is about the messages that are left. `Ordered` says which of
them may come after which, and with it the state is described by the *set* of
messages left (`ReceiptInv`): while vouchers are still to be created the maps are
as they were (`Recorded`); from the mint to `AddIncomingChannelEntries` the
packet's NFTs have their data and no channel yet; afterwards all three agree
again. Each NFT of the packet is the receiver's, or the message that delivers it is
left (`DeliveryOf`), which is what the callback finds when nothing but channel
entries comes after it. `ReceiveInvariant`, `TypeCorrect`, `VouchersAgree`,
`CallbacksSeeDelivery`.

The refinement (`ReceiptIsAtomic`) needs what the receipt has done to its
savepoint (`Progress`): it redeems or it creates but has no messages of both kinds,
an NFT outside the packet is untouched, one of the packet is where it was or was
delivered, and all came from escrow or all from nowhere; one of them, `t`, is the
one that the callback uses. For any number of tokens, channels and classes.

### Settlement

`Ics721Settle_proofs`: between transactions the maps say where each NFT is
(`Recorded`), what a packet claims is in escrow (`ClaimsHeld`), no NFT is claimed
twice (`ClaimsExclusive`) and what is away can return (`CanReturn`). While a
settlement runs, the same holds of the state but for what its next message is
about to do; and it holds of both savepoints, so a callback that fails goes back
to a sound state. `SettlementsNeverRevert`, `RefundPrecedesCallback` and
`HomecomingsWork` follow, whatever callbacks do, for any number of packets,
channels and moves; `SettlementIsAtomic` is the refinement, from a record of what
the settlement and its callback have done (`RefInv`).

### Packet data

`ValidTokensAreKept`: for batches of every length, what `validate` accepts is
zipped into all its tokens, in order, each with its own uri and data.

`MetadataInvariant`, for lines and batches of any length and any number of
packets: each NFT is at one chain, in one packet or in one failed acknowledgement
(`OnePlace`). That chain, or the one that sent the packet, is as far as the NFT has
come; the collections up to there have it, and one further away has it only while
exactly one acknowledgement is still to burn it (`Minted`). So it cannot come again
before the old voucher is gone. What is stored of an NFT, and sent of it, is what
its source gave it (`Kept`), and the class stored with it is its source's
(`ClassesInv`). `NothingIsLost`, `MetadataIsKept`, `SentIsAlwaysValid` and
`NamesAreCarried` follow. A voucher that is still to be burned may have the data of
an earlier journey: after five packets the source can have sent the NFT anew,
with other data, before the acknowledgement of an earlier return from a chain
further away is relayed.

### The tester

`CustodyInv` is inductive, for any number of packets: at most one packet is not
delivered or not refunded yet, and while there is one it has the NFT alone; a
voucher that has gone home stays in escrow until the packet that took it is
settled, and there is one such packet: `CustodyKept`. Packets are told apart by
their numbers (`Numbered`). `CallbacksAreTold` follows for any set of memos; for
the settlement it rests on the fact that an original that is out is in escrow
whenever a success is relayed, however late.

### With TLC alone

Every invariant and every action property of the runs is stated by a theorem, and
so are the four refinements. What stays with TLC is liveness, which this prover
does not reach (it has no `ENABLED`): `PacketsSettle`, `AnswersSettle`,
`PendingReturned` and `FailedCallbackReturns`; and the two violations of section 6. Everything over three or more chains rests on the proofs;
the runs of the protocol have two.

## 6. Findings

* `resend_escrow`: the receive callback may send a redeemed NFT out again, but
  `into_submessage` updates the channel entries after the callback and so removes
  the entry of the new transfer. The NFT is in escrow without an entry and its
  voucher cannot redeem it. `receive` shows what still holds in that case.
* `tester_ack`: `ACK_MODE` and `LAST_ACK` of the test contract share a storage
  key, so an acknowledgement received changes how packets are answered.

Four comments say more than the code does; no run is spent on them.

* "The transfer was successful and NFT is on the other chain"
  (`ics721-types/src/types.rs:43`): a success acknowledgement may be relayed after
  the NFT has come back, so a callback that acts on it should ask the collection.
* "Only admin can call this method" (`execute.rs:148`, `:232`): on a contract
  without an admin everyone can (`MayClean`).
* "Outgoing proxy can use `SendNft`" (`execute.rs:311`): while a proxy is set, a
  call from the collection is refused (`:327`); the proxy has to forward the
  message itself (`Accepts` of `Ics721Config`).
* "We assume that the metadata has been updated on the source chain"
  (`execute.rs:516`): class data is taken from the packet received last, and
  packets on unordered channels come in any order.

Two things the models bear out that a reader may not expect. A careful admin has
to wait for the acknowledgement of a returned voucher before it burns it
(*Ics721Admin*). And README.md:75 of the repository is right that a counterparty
which closes its end leaves NFTs where they are: acknowledgements need an open
end, so the refund of a packet that was *received and refused* is lost as well
when the channel closes first. That is why `PendingReturned` speaks of packets
that were not received.

## 7. Plan

Done: everything in section 2, and the proof of every safety property.

Not modelled, and not planned:

* the text of names, memos, events and errors; serialization; gas; the admin of a
  new collection, which is passed on unread;
* queries that read one item (they change nothing), and the listings of channels,
  whose paging is a library's;
* the collection data helpers (queries to cw721 contracts, bech32) and the cw721
  test contract, which refuses one recipient: both can only make a receipt or a
  send fail, which every model allows at any time;
* the tests, schemas and scripts, which were read for the behaviour they expect.

Hazards without a property: three of the four comments of section 6, since what
they fear does happen; an admin who takes an NFT out of escrow that a packet still
claims (`execute.rs:285`), which the code cannot see and the runs exclude by
`Careful`; and a class registered by a packet before a local
collection of the same name is sent (`execute.rs:580`). An ICS721 counterparty
cannot name such a class, and `Ics721Registry` keeps the two kinds of class apart.

`PROJECT.json` lists each component with its status.
