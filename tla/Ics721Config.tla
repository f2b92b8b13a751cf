----------------------------- MODULE Ics721Config -----------------------------
(***************************************************************************)
(* How one ICS721 contract is set up, paused and migrated, and what that   *)
(* means for the NFTs sent through it.                                     *)
(*                                                                         *)
(* Instantiation makes the proxies in submessages and stores each address  *)
(* in the reply; if one of them fails there is no contract.  The pauser    *)
(* may pause once and loses the right by doing so.  Only a migration       *)
(* unpauses, and it replaces the pauser and both proxies, by nothing if    *)
(* its message does not repeat them.                                       *)
(*                                                                         *)
(* With an outgoing proxy, NFTs leave through it alone: the proxy takes an *)
(* NFT, transfers it to ICS721 and forwards the owner's message, all in    *)
(* the owner's transaction.                                                *)
(***************************************************************************)
EXTENDS Naturals

CONSTANTS
  Accounts,       \* users, one of which may be the pauser
  ProxyAdmins,    \* accounts that a ContractInstantiateInfo may name
  Proxies,        \* addresses of contracts that may serve as proxies
  Nfts,           \* NFTs of the chain
  Ics721,         \* the contract's own address
  MaxMigrations,  \* bound
  NoAddress

ASSUME ConfigAssumption ==
  /\ NoAddress \notin Accounts \cup Proxies
  /\ Ics721 \notin Accounts \cup Proxies
  /\ Accounts \cap Proxies = {} /\ "cw721" \notin Proxies
  /\ MaxMigrations \in Nat

VARIABLES
  phase,        \* "none", "instantiating" or "running"
  asked,        \* asked[r]: the admin asked for the proxy of role r
  pending,      \* roles of the submessages still to run
  made,         \* made[p]: role and admin of a proxy that has been made
  incoming, outgoing,   \* INCOMING_PROXY and OUTGOING_PROXY
  pauser, paused,       \* PO
  migrations,   \* ghost: migrations so far
  nominated,    \* ghost: nominated[a]: nominations of account a
  pauses,       \* ghost: pauses[a]: pauses by account a
  holder,       \* holder[n]: whom the cw721 names as the owner of n
  sender,       \* sender[n]: whom the packet with n names as its sender
  answer        \* the last attempt to send an NFT, and whether it succeeded

vars == <<phase, asked, pending, made, incoming, outgoing, pauser, paused,
          migrations, nominated, pauses, holder, sender, answer>>
setup == <<phase, asked, pending, made>>
proxies == <<incoming, outgoing>>
pausing == <<pauser, paused, nominated, pauses>>
nfts == <<holder, sender, answer>>

Roles == {"incoming", "outgoing"}
Unasked == "not asked"      \* the message has no info for this role
Immutable == "no admin"     \* cii.admin is None
Admins == ProxyAdmins \cup {Ics721, Immutable}
NotMade == [role |-> "none", admin |-> Immutable]
MadeFor(role, admin) == [role |-> role, admin |-> admin]

Routes == {"direct", "forwarded", "sent by proxy"}
NoAnswer == [route |-> "direct", via |-> NoAddress, accepted |-> TRUE]

TypeOK ==
  /\ phase \in {"none", "instantiating", "running"}
  /\ asked \in [Roles -> Admins \cup {Unasked}]
  /\ pending \in SUBSET Roles
  /\ made \in [Proxies -> [role : Roles \cup {"none"}, admin : Admins]]
  /\ incoming \in Proxies \cup {NoAddress}
  /\ outgoing \in Proxies \cup {NoAddress}
  /\ pauser \in Accounts \cup {NoAddress}
  /\ paused \in BOOLEAN
  /\ migrations \in 0..MaxMigrations
  /\ nominated \in [Accounts -> Nat]
  /\ pauses \in [Accounts -> Nat]
  /\ holder \in [Nfts -> Accounts \cup Proxies \cup {Ics721}]
  /\ sender \in [Nfts -> Accounts \cup Proxies \cup {NoAddress}]
  /\ answer \in [route : Routes, via : Proxies \cup {NoAddress}, accepted : BOOLEAN]

Init ==
  /\ phase = "none" /\ asked = [r \in Roles |-> Unasked] /\ pending = {}
  /\ made = [p \in Proxies |-> NotMade]
  /\ incoming = NoAddress /\ outgoing = NoAddress
  /\ pauser = NoAddress /\ paused = FALSE
  /\ migrations = 0
  /\ nominated = [a \in Accounts |-> 0]
  /\ pauses = [a \in Accounts |-> 0]
  /\ holder \in [Nfts -> Accounts]
  /\ sender = [n \in Nfts |-> NoAddress]
  /\ answer = NoAnswer

-------------------------------------------------------------------------------
(* PauseOrchestrator.                                                        *)

\* Mistake: whoever asks may pause if there is no pauser.
PoPauseAnyone(a) ==
  /\ ~paused /\ pauser \in {a, NoAddress}
  /\ pauser' = NoAddress
  /\ paused' = TRUE

PoPause(a) ==
  /\ ~paused /\ pauser = a
  /\ pauser' = NoAddress
  /\ paused' = TRUE

SetPauser(p) ==
  /\ pauser' = p
  /\ paused' = FALSE
  /\ nominated' = IF p = NoAddress THEN nominated
                                   ELSE [nominated EXCEPT ![p] = @ + 1]

-------------------------------------------------------------------------------
(* Instantiation.                                                            *)

\* Infos: what each proxy's ContractInstantiateInfo says of its admin.
Instantiate(p, infos) ==
  /\ phase = "none"
  /\ phase' = "instantiating"
  /\ asked' = infos
  /\ pending' = {r \in Roles : infos[r] # Unasked}
  /\ incoming' = NoAddress /\ outgoing' = NoAddress
  /\ SetPauser(p)
  /\ UNCHANGED <<made, migrations, pauses, nfts>>

\* Mistake: the replies of the two proxies are mixed up.
ProxyReplySwapped(role, p) ==
  IF role = "outgoing" THEN incoming' = p /\ UNCHANGED outgoing
                       ELSE outgoing' = p /\ UNCHANGED incoming

\* reply, INSTANTIATE_INCOMING_PROXY_REPLY_ID and INSTANTIATE_OUTGOING_PROXY_REPLY_ID
ProxyReply(role, p) ==
  IF role = "incoming" THEN incoming' = p /\ UNCHANGED outgoing
                       ELSE outgoing' = p /\ UNCHANGED incoming

\* ContractInstantiateInfo::into_wasm_msg, run by the chain at an address
\* that no contract has.
InstantiateProxy(p) ==
  /\ phase = "instantiating" /\ pending # {}
  /\ made[p] = NotMade
  /\ LET role == IF "incoming" \in pending THEN "incoming" ELSE "outgoing" IN
     /\ made' = [made EXCEPT ![p] = MadeFor(role, asked[role])]
     /\ ProxyReply(role, p)
     /\ pending' = pending \ {role}
  /\ UNCHANGED <<phase, asked, migrations, pausing, nfts>>

\* reply_on_success: the failure of a proxy is the failure of everything.
ProxyFails ==
  /\ phase = "instantiating" /\ pending # {}
  /\ phase' = "none" /\ pending' = {}
  /\ asked' = [r \in Roles |-> Unasked]
  /\ made' = [p \in Proxies |-> NotMade]
  /\ incoming' = NoAddress /\ outgoing' = NoAddress
  /\ pauser' = NoAddress /\ paused' = FALSE
  /\ nominated' = [a \in Accounts |-> 0]
  /\ UNCHANGED <<migrations, pauses, nfts>>

Instantiated ==
  /\ phase = "instantiating" /\ pending = {}
  /\ phase' = "running"
  /\ UNCHANGED <<asked, pending, made, proxies, migrations, pausing, nfts>>

-------------------------------------------------------------------------------
(* Pauses and migrations.                                                    *)

\* execute_pause.  A paused contract refuses Pause as it refuses everything.
ExecutePause(a) ==
  /\ phase = "running"
  /\ PoPause(a)
  /\ pauses' = [pauses EXCEPT ![a] = @ + 1]
  /\ UNCHANGED <<setup, proxies, migrations, nominated, nfts>>

\* migrate.  NoAddress: the message leaves the pauser or the proxy out.
Migrate(p, in, out) ==
  /\ phase = "running" /\ migrations < MaxMigrations
  /\ incoming' = in /\ outgoing' = out
  /\ SetPauser(p)
  /\ migrations' = migrations + 1
  /\ UNCHANGED <<setup, pauses, nfts>>

-------------------------------------------------------------------------------
(* NFTs on their way out.                                                    *)

\* Mistake: with a proxy, any contract that speaks its language is accepted.
AcceptsForm(from, form) ==
  /\ phase = "running" /\ ~paused
  /\ form = IF outgoing = NoAddress THEN "plain" ELSE "proxied"

\* Mistake: the pause is not checked.
AcceptsPaused(from, form) ==
  /\ phase = "running"
  /\ IF outgoing = NoAddress THEN form = "plain"
                             ELSE from = outgoing /\ form = "proxied"

\* execute_receive_nft: whether ICS721 accepts ReceiveNft from a contract,
\* "cw721" or a proxy, with a message of that form, "plain" or "proxied".
Accepts(from, form) ==
  /\ phase = "running" /\ ~paused
  /\ IF outgoing = NoAddress THEN form = "plain"
                             ELSE from = outgoing /\ form = "proxied"


\* receive_nft with the NFT in escrow: the packet names its owner as sender.
Escrow(n, owner) ==
  /\ holder' = [holder EXCEPT ![n] = Ics721]
  /\ sender' = [sender EXCEPT ![n] = owner]

\* A transaction that ICS721 refuses leaves everything as it was.
Attempt(n, owner, from, form, route, via) ==
  /\ phase = "running"
  /\ answer' = [route |-> route, via |-> via, accepted |-> Accepts(from, form)]
  /\ IF Accepts(from, form) THEN Escrow(n, owner)
                            ELSE UNCHANGED <<holder, sender>>
  /\ UNCHANGED <<setup, proxies, migrations, pausing>>

\* The owner sends the NFT to ICS721: the cw721 calls it.
SendDirect(n) ==
  holder[n] # Ics721 /\ Attempt(n, holder[n], "cw721", "plain", "direct", NoAddress)

\* The owner sends it to a proxy, which transfers it to ICS721 and calls it.
SendForwarded(n, p) ==
  holder[n] \in Accounts /\ Attempt(n, holder[n], p, "proxied", "forwarded", p)

\* The owner sends it to a proxy, which sends it on to ICS721: the cw721 calls
\* it, with the proxy's message and the proxy for the owner.
SendByProxy(n, p, form) ==
  holder[n] \in Accounts /\ Attempt(n, p, "cw721", form, "sent by proxy", p)

\* The packet fails, and the NFT goes back to its sender.  That has nothing to
\* do with proxies or pauses.
Refund(n) ==
  /\ holder[n] = Ics721
  /\ holder' = [holder EXCEPT ![n] = sender[n]]
  /\ sender' = [sender EXCEPT ![n] = NoAddress]
  /\ UNCHANGED <<setup, proxies, migrations, pausing, answer>>

-------------------------------------------------------------------------------

Next ==
  \/ \E p \in Accounts \cup {NoAddress}, infos \in [Roles -> Admins \cup {Unasked}] :
       Instantiate(p, infos)
  \/ \E p \in Proxies : InstantiateProxy(p)
  \/ ProxyFails
  \/ Instantiated
  \/ \E a \in Accounts : ExecutePause(a)
  \/ \E p \in Accounts \cup {NoAddress}, in, out \in Proxies \cup {NoAddress} :
       Migrate(p, in, out)
  \/ \E n \in Nfts : SendDirect(n) \/ Refund(n)
  \/ \E n \in Nfts, p \in Proxies :
       SendForwarded(n, p) \/ \E form \in {"plain", "proxied"} : SendByProxy(n, p, form)

Spec == Init /\ [][Next]_vars

-------------------------------------------------------------------------------
(* Properties.                                                               *)

\* "In pausing the contract they burn the right to do so again": no account
\* pauses more often than it has been nominated, whatever comes in between.
PauseOncePerNomination == \A a \in Accounts : pauses[a] <= nominated[a]

\* A pause holds until a migration: while it does, no NFT goes into escrow by
\* any route, and no step but a migration ends it.
PauseHolds ==
  [][paused /\ migrations' = migrations =>
       paused' /\ \A n \in Nfts : holder'[n] = Ics721 => holder[n] = Ics721]_vars

\* A contract that runs has the proxies it was asked for, each made with the
\* admin asked for it, until a migration says otherwise; and one that failed
\* to make a proxy does not run with the other alone.
ProxiesAsAsked == phase = "running" /\ migrations = 0 =>
  /\ IF asked["incoming"] = Unasked THEN incoming = NoAddress
     ELSE incoming # NoAddress /\ made[incoming] = MadeFor("incoming", asked["incoming"])
  /\ IF asked["outgoing"] = Unasked THEN outgoing = NoAddress
     ELSE outgoing # NoAddress /\ made[outgoing] = MadeFor("outgoing", asked["outgoing"])

\* While there is an outgoing proxy, NFTs go into escrow through that proxy
\* alone, never one that a migration has replaced, and a refund goes to the
\* owner and not to the proxy.
OneWayOut ==
  [][\A n \in Nfts : outgoing # NoAddress /\ holder[n] # Ics721 /\ holder'[n] = Ics721 =>
       answer'.route = "forwarded" /\ answer'.via = outgoing /\ sender'[n] = holder[n]]_vars

\* A nomination that is not used up.
PauserArmed == \A a \in Accounts :
  IF pauser = a THEN pauses[a] < nominated[a] ELSE pauses[a] <= nominated[a]

\* While the contract is set up, the proxies whose replies have come are in
\* place and the others are pending.
Placed(r, p) ==
  IF asked[r] = Unasked \/ r \in pending THEN p = NoAddress
  ELSE p # NoAddress /\ made[p] = MadeFor(r, asked[r])

SetUp ==
  /\ phase # "instantiating" => pending = {}
  /\ \A r \in pending : asked[r] # Unasked
  /\ phase # "running" =>
       ~paused /\ migrations = 0 /\ \A a \in Accounts : pauses[a] = 0
  /\ phase # "none" /\ migrations = 0 =>
       Placed("incoming", incoming) /\ Placed("outgoing", outgoing)

\* Each NFT in escrow can be refunded.
Owed == \A n \in Nfts : holder[n] = Ics721 <=> sender[n] # NoAddress

\* The inductive invariant.
ConfigInv == TypeOK /\ PauserArmed /\ SetUp /\ Owed
===============================================================================
