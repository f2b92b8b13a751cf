---------------------------- MODULE Ics721Channel ----------------------------
(***************************************************************************)
(* One IBC channel of an ICS721 contract, from the handshake to its end.   *)
(*                                                                         *)
(* End "a" belongs to ICS721, end "b" to another ICS721, to the tester     *)
(* contract or to any other module.  ICS721 and the tester validate the    *)
(* order of the channel and both versions as far as a step of the          *)
(* handshake knows them.  Anybody may ask a chain to close its end: ICS721 *)
(* refuses, the tester closes its end by itself.  ICS721 has to accept     *)
(* that the other end is closed.                                           *)
(*                                                                         *)
(* NFTs of a's chain travel over the channel meanwhile.  The handshake,    *)
(* the delivery of packets and their timeouts are IBC's: an acknowledgement*)
(* needs an open end, a timeout does not, and the timeout of a packet on   *)
(* an ordered channel closes the channel.                                  *)
(***************************************************************************)
EXTENDS Naturals, FiniteSets

CONSTANTS
  Nfts,         \* NFTs whose home is a's chain
  Versions,     \* versions of channels, IBC_VERSION among them
  IBC_VERSION,
  MaxPackets    \* bound: packets ever sent

NoVersion == "unknown"

ASSUME ChannelAssumption ==
  IBC_VERSION \in Versions /\ NoVersion \notin Versions /\ MaxPackets \in Nat

VARIABLES
  module,   \* module[e]: who holds end e
  state,    \* state[e]: the state of the end
  order,    \* the order of the channel
  version,  \* version[e]: the version that end e has agreed to
  home,     \* home[n]: "user", or "escrow" of ICS721 at a
  away,     \* the NFTs that b's side has received and holds
  packets,  \* packets that have not been acknowledged or timed out
  sent      \* number of packets sent

vars == <<module, state, order, version, home, away, packets, sent>>
channel == <<module, state, order, version>>
nfts == <<home, away, packets, sent>>

Ends == {"a", "b"}
Other(e) == IF e = "a" THEN "b" ELSE "a"
Orders == {"ordered", "unordered"}

Packets == [seq : 1..MaxPackets, nft : Nfts, from : Ends,
            status : {"sent", "success", "error"}]

TypeOK ==
  /\ module \in [Ends -> {"ics721", "tester", "other"}]
  /\ state \in [Ends -> {"none", "init", "tryopen", "open", "closed"}]
  /\ order \in Orders
  /\ version \in [Ends -> Versions \cup {NoVersion}]
  /\ home \in [Nfts -> {"user", "escrow"}]
  /\ away \in SUBSET Nfts
  /\ packets \in SUBSET Packets
  /\ sent \in 0..MaxPackets

Init ==
  /\ module \in {m \in [Ends -> {"ics721", "tester", "other"}] : m["a"] = "ics721"}
  /\ state = [e \in Ends |-> "none"]
  /\ order \in Orders
  /\ version = [e \in Ends |-> NoVersion]
  /\ home = [n \in Nfts |-> "user"]
  /\ away = {} /\ packets = {} /\ sent = 0

-------------------------------------------------------------------------------
(* The handshake.                                                            *)

\* Mistake: ordered channels are as good as others.
ValidatesVersions(own, counterparty) ==
  own = IBC_VERSION /\ counterparty \in {IBC_VERSION, NoVersion}

\* Mistake: the counterparty's version is not looked at.
ValidatesOwn(own, counterparty) == order = "unordered" /\ own = IBC_VERSION

\* validate_order_and_version: the counterparty's version may not be known.
ValidateOrderAndVersion(own, counterparty) ==
  /\ order = "unordered"
  /\ own = IBC_VERSION
  /\ counterparty \in {IBC_VERSION, NoVersion}

\* The tester has a function of its own for it.
TesterValidates(own, counterparty) ==
  order = "unordered" /\ own = IBC_VERSION /\ counterparty \in {IBC_VERSION, NoVersion}

\* ibc_channel_open and ibc_channel_connect of the module at end e.
Agrees(e, own, counterparty) ==
  /\ module[e] = "ics721" => ValidateOrderAndVersion(own, counterparty)
  /\ module[e] = "tester" => TesterValidates(own, counterparty)

\* Anybody may propose a channel of any version.
ChanOpenInit(e, v) ==
  /\ state[e] = "none" /\ state[Other(e)] = "none"
  /\ Agrees(e, v, NoVersion)
  /\ state' = [state EXCEPT ![e] = "init"]
  /\ version' = [version EXCEPT ![e] = v]
  /\ UNCHANGED <<module, order, nfts>>

\* The module at e is asked for the version the other end proposes.  ICS721
\* and the tester take it as it is; another module may answer with its own.
ChanOpenTry(e, v) ==
  /\ state[e] = "none" /\ state[Other(e)] = "init"
  /\ v # version[Other(e)] => module[e] = "other"
  /\ Agrees(e, version[Other(e)], version[Other(e)])
  /\ state' = [state EXCEPT ![e] = "tryopen"]
  /\ version' = [version EXCEPT ![e] = v]
  /\ UNCHANGED <<module, order, nfts>>

\* IBC tells the version that the other end answered with.
ChanOpenAck(e) ==
  /\ state[e] = "init" /\ state[Other(e)] = "tryopen"
  /\ Agrees(e, version[e], version[Other(e)])
  /\ state' = [state EXCEPT ![e] = "open"]
  /\ UNCHANGED <<module, order, version, nfts>>

ChanOpenConfirm(e) ==
  /\ state[e] = "tryopen" /\ state[Other(e)] = "open"
  /\ Agrees(e, version[e], NoVersion)
  /\ state' = [state EXCEPT ![e] = "open"]
  /\ UNCHANGED <<module, order, version, nfts>>

-------------------------------------------------------------------------------
(* Closing.                                                                  *)

\* Mistake: an end is closed when asked.
CloseInitAllowed(e) ==
  /\ state[e] = "open"
  /\ state' = [state EXCEPT ![e] = "closed"]
  /\ UNCHANGED <<module, order, version, nfts>>

\* ibc_channel_close with CloseInit, whoever asks.
ChanCloseInit(e) ==
  /\ state[e] = "open" /\ module[e] # "ics721"
  /\ state' = [state EXCEPT ![e] = "closed"]
  /\ UNCHANGED <<module, order, version, nfts>>

\* Mistake: what is in escrow is given back when the channel closes.
CloseConfirmReleases(e) ==
  /\ state[e] = "open" /\ state[Other(e)] = "closed"
  /\ state' = [state EXCEPT ![e] = "closed"]
  /\ home' = IF e = "a" THEN [n \in Nfts |-> "user"] ELSE home
  /\ UNCHANGED <<module, order, version, away, packets, sent>>

\* ibc_channel_close with CloseConfirm.
ChanCloseConfirm(e) ==
  /\ state[e] = "open" /\ state[Other(e)] = "closed"
  /\ state' = [state EXCEPT ![e] = "closed"]
  /\ UNCHANGED <<module, order, version, nfts>>

-------------------------------------------------------------------------------
(* NFTs.                                                                     *)

NewPacket(n, e) ==
  /\ state[e] = "open" /\ sent < MaxPackets
  /\ sent' = sent + 1
  /\ packets' = packets \cup {[seq |-> sent + 1, nft |-> n, from |-> e, status |-> "sent"]}
  /\ UNCHANGED channel

\* The owner sends the NFT out.
Send(n) ==
  /\ home[n] = "user"
  /\ NewPacket(n, "a")
  /\ home' = [home EXCEPT ![n] = "escrow"]
  /\ UNCHANGED away

\* The other side sends it back.
SendBack(n) ==
  /\ n \in away
  /\ NewPacket(n, "b")
  /\ away' = away \ {n}
  /\ UNCHANGED home

Arrive(n, e) ==
  IF e = "a" THEN home' = [home EXCEPT ![n] = "user"] /\ UNCHANGED away
             ELSE away' = away \cup {n} /\ UNCHANGED home

\* The packet is received, or refused with an acknowledgement.
RecvPacket(p, status) ==
  /\ p.status = "sent" /\ state[Other(p.from)] = "open"
  /\ packets' = (packets \ {p}) \cup {[p EXCEPT !.status = status]}
  /\ IF status = "success" THEN Arrive(p.nft, Other(p.from)) ELSE UNCHANGED <<home, away>>
  /\ UNCHANGED <<channel, sent>>

\* An error acknowledgement refunds the sender.
AcknowledgePacket(p) ==
  /\ p.status # "sent" /\ state[p.from] = "open"
  /\ packets' = packets \ {p}
  /\ IF p.status = "error" THEN Arrive(p.nft, p.from) ELSE UNCHANGED <<home, away>>
  /\ UNCHANGED <<channel, sent>>

\* Mistake: a channel that is closed has nothing to refund.
TimeoutIfOpen(p) ==
  /\ p.status = "sent"
  /\ packets' = packets \ {p}
  /\ IF state[p.from] = "open" THEN Arrive(p.nft, p.from) ELSE UNCHANGED <<home, away>>
  /\ UNCHANGED <<channel, sent>>

\* The packet was not received in time, or the other end is closed.
TimeoutPacket(p) ==
  /\ p.status = "sent"
  /\ packets' = packets \ {p}
  /\ Arrive(p.nft, p.from)
  /\ state' = IF order = "ordered" THEN [state EXCEPT ![p.from] = "closed"] ELSE state
  /\ UNCHANGED <<module, order, version, sent>>

-------------------------------------------------------------------------------

Next ==
  \/ \E e \in Ends, v \in Versions : ChanOpenInit(e, v) \/ ChanOpenTry(e, v)
  \/ \E e \in Ends :
       ChanOpenAck(e) \/ ChanOpenConfirm(e) \/ ChanCloseInit(e) \/ ChanCloseConfirm(e)
  \/ \E n \in Nfts : Send(n) \/ SendBack(n)
  \/ \E p \in packets :
       \/ RecvPacket(p, "success") \/ RecvPacket(p, "error")
       \/ AcknowledgePacket(p) \/ TimeoutPacket(p)

Spec == Init /\ [][Next]_vars

\* Somebody relays the timeouts of packets that are not received.
Fairness ==
  \A p \in [seq : 1..MaxPackets, nft : Nfts, from : Ends, status : {"sent"}] :
    WF_vars(p \in packets /\ TimeoutPacket(p))

FairSpec == Spec /\ Fairness

-------------------------------------------------------------------------------
(* Properties.                                                               *)

\* An end of ICS721 is open only on an unordered channel whose two ends have
\* both agreed to ics721-1, whoever holds the other end and proposed it.
OpenEndsAgree ==
  state["a"] = "open" =>
    order = "unordered" /\ version["a"] = IBC_VERSION /\ version["b"] = IBC_VERSION

\* "This contract will never close an IBC channel between itself and another
\* ICS721 contract" (README): not when asked, and not by a timeout.
NeverClosesOnIcs721 == module["b"] = "ics721" => \A e \in Ends : state[e] # "closed"

\* ICS721 is on an unordered channel of version ics721-1 from its first step of
\* the handshake, and once it has answered it knows the other end's version.
HandshakeInv ==
  /\ TypeOK /\ module["a"] = "ics721"
  /\ \A e \in Ends : state[e] # "none" => version[e] # NoVersion
  /\ \A e \in Ends : module[e] = "ics721" /\ state[e] # "none" =>
       order = "unordered" /\ version[e] = IBC_VERSION
  /\ \A e \in Ends : state[e] \in {"tryopen", "open"} => state[Other(e)] # "none"
  /\ state["a"] \in {"tryopen", "open"} => version["b"] = IBC_VERSION
  /\ packets # {} => order = "unordered"
  /\ NeverClosesOnIcs721

\* Each NFT in escrow has one claim on it, that of the other side or of a
\* packet between the two, while the channel is open and after it closed: "If a
\* channel closes NFTs will not be removable from it" (README).
Claims(n) ==
  Cardinality({p \in packets : p.nft = n /\ p.status # "success"})
    + Cardinality({n} \cap away)

EscrowClaimed == \A n \in Nfts : Claims(n) = IF home[n] = "escrow" THEN 1 ELSE 0

\* "Return any NFTs that are pending transfer" (TestUnexpectedClose): a packet
\* that has not been received when the other end closes is refunded.
PendingReturned ==
  \A n \in Nfts :
    (state["b"] = "closed" /\ \E p \in packets : p.nft = n /\ p.from = "a" /\ p.status = "sent")
      ~> home[n] = "user"
===============================================================================
