-------------------------- MODULE Ics721Settle_proofs --------------------------
(***************************************************************************)
(* No settlement reverts, a failed transfer is refunded before its sender  *)
(* is told, what the other chains hold can come home, and a settlement is  *)
(* the one step of AtomicSettlement: for any number of packets, any        *)
(* callbacks and any number of moves they make.                            *)
(***************************************************************************)
EXTENDS Ics721Settle, TLAPS

\* A packet whose settlement gives its NFT back, or burns it, unless it is
\* answered otherwise.
Claims(p) == p.status # "success" \/ p.end = Via[p.nft]

\* What holds of chain state st when aw[s] is the end over which s can come in.
Recorded(st) ==
  \A s \in Nfts : st.incoming[s] = IF st.owner[s] = Nobody THEN NoEnd ELSE Via[s]

ClaimsHeld(st, aw) ==
  \A n \in Flights : st.packet[n] # NoPacket =>
    /\ Claims(st.packet[n]) => st.owner[st.packet[n].nft] = Ics721
    /\ st.packet[n].status # "success" =>
         /\ st.outgoing[st.packet[n].nft] = st.packet[n].end
         /\ aw[st.packet[n].nft] = NoEnd
    /\ st.packet[n].status = "success" /\ Claims(st.packet[n]) =>
         aw[st.packet[n].nft] = st.packet[n].end

ClaimsExclusive(st) ==
  \A n, m \in Flights :
    /\ st.packet[n] # NoPacket /\ st.packet[m] # NoPacket
    /\ st.packet[n].nft = st.packet[m].nft
    /\ Claims(st.packet[n]) /\ Claims(st.packet[m])
    => n = m

CanReturn(st, aw) ==
  \A s \in Nfts : aw[s] # NoEnd =>
    IF Via[s] # aw[s]
    THEN st.owner[s] = Ics721 /\ st.outgoing[s] = aw[s]
    ELSE \/ st.owner[s] = Nobody
         \/ \E n \in Flights : /\ st.packet[n] # NoPacket
                               /\ st.packet[n].nft = s
                               /\ st.packet[n].status = "success"
                               /\ st.packet[n].end = Via[s]

Sound(st, aw) == /\ Recorded(st)
                 /\ ClaimsHeld(st, aw)
                 /\ ClaimsExclusive(st)
                 /\ CanReturn(st, aw)

\* The inductive invariant.  While a message to the collection is pending, the
\* state is sound but for what the message will do.
SettleInv ==
  /\ TypeOK
  /\ step \in {"idle", "notify", "callback"} => Sound(store, away)
  /\ step = "callback" => Sound(inner, away) /\ AckCallback(current) \in Users
  /\ step = "Burn" =>
       /\ current.status = "success"
       /\ store.owner[current.nft] = Ics721
       /\ Sound(Own(store, current.nft, Nobody), away)
  /\ step = "TransferNft" =>
       /\ store.owner[current.nft] = Ics721
       /\ Sound(Own(store, current.nft, current.sender), away)
  /\ step = "notify" \/ (step = "callback" /\ moves = 0) =>
       (current.status # "success" => store.owner[current.nft] = current.sender)
-------------------------------------------------------------------------------
(* What each operation on a chain's state does to its parts.                 *)

LEMMA OwnFields ==
  ASSUME NEW st \in Stores, NEW s \in Nfts, NEW u \in Users \cup {Ics721, Nobody}
  PROVE  /\ Own(st, s, u) \in Stores
         /\ Own(st, s, u).owner = [st.owner EXCEPT ![s] = u]
         /\ Own(st, s, u).outgoing = st.outgoing
         /\ Own(st, s, u).incoming = st.incoming
         /\ Own(st, s, u).packet = st.packet
  BY DEF Own, Stores

LEMMA EscrowFields ==
  ASSUME NEW st \in Stores, NEW s \in Nfts, NEW e \in Ends, NEW memo \in Memos,
         NEW n \in Flights, MaySend(st, s, n)
  PROVE  LET sent == Escrow(st, s, e, memo, n)
             p == [nft |-> s, end |-> e, sender |-> st.owner[s], memo |-> memo,
                   status |-> "sent"]
         IN /\ sent \in Stores
            /\ sent.owner = [st.owner EXCEPT ![s] = Ics721]
            /\ sent.outgoing = [st.outgoing EXCEPT ![s] = e]
            /\ sent.incoming = st.incoming
            /\ sent.packet = [st.packet EXCEPT ![n] = p]
            /\ p \in Packet
  BY DEF Escrow, Stores, MaySend, Packet

-------------------------------------------------------------------------------
(* Operations that are made anywhere, also by callbacks.                     *)

\* What a user owns is on no claim, and cannot come in.
LEMMA UsersAreFree ==
  ASSUME NEW st \in Stores, NEW aw \in [Nfts -> Ends \cup {NoEnd}],
         Sound(st, aw), NEW s \in Nfts, st.owner[s] \in Users
  PROVE  /\ aw[s] = NoEnd
         /\ \A n \in Flights : st.packet[n] # NoPacket /\ st.packet[n].nft = s =>
              ~Claims(st.packet[n])
  <1>1. st.owner[s] # Ics721 /\ st.owner[s] # Nobody
    BY SettleAssumption
  <1>2. \A n \in Flights : st.packet[n] # NoPacket /\ st.packet[n].nft = s =>
          ~Claims(st.packet[n])
    BY <1>1 DEF Sound, ClaimsHeld
  <1>3. aw[s] = NoEnd
    BY <1>1, <1>2 DEF Sound, CanReturn, Claims
  <1> QED
    BY <1>2, <1>3

LEMMA GiveKeepsSound ==
  ASSUME NEW st \in Stores, NEW aw \in [Nfts -> Ends \cup {NoEnd}],
         Sound(st, aw), NEW s \in Nfts, st.owner[s] \in Users, NEW u \in Users
  PROVE  Own(st, s, u) \in Stores /\ Sound(Own(st, s, u), aw)
  <1> DEFINE new == Own(st, s, u)
  <1>1. /\ new \in Stores
        /\ new.owner = [st.owner EXCEPT ![s] = u]
        /\ new.outgoing = st.outgoing /\ new.incoming = st.incoming
        /\ new.packet = st.packet
    BY OwnFields
  <1>2. st.owner \in [Nfts -> Users \cup {Ics721, Nobody}]
    BY DEF Stores
  <1>3. st.owner[s] # Nobody /\ u # Nobody
    BY SettleAssumption
  <1>4. /\ aw[s] = NoEnd
        /\ \A n \in Flights : st.packet[n] # NoPacket /\ st.packet[n].nft = s =>
             ~Claims(st.packet[n])
    BY UsersAreFree
  <1> HIDE DEF new
  <1>5. Recorded(new)
    BY <1>1, <1>2, <1>3 DEF Sound, Recorded
  <1>6. ClaimsHeld(new, aw)
    BY <1>1, <1>2, <1>4 DEF Sound, ClaimsHeld
  <1>7. ClaimsExclusive(new)
    BY <1>1 DEF Sound, ClaimsExclusive
  <1>8. CanReturn(new, aw)
    BY <1>1, <1>2, <1>4 DEF Sound, CanReturn
  <1> QED
    BY <1>1, <1>5, <1>6, <1>7, <1>8 DEF Sound, new

LEMMA EscrowKeepsSound ==
  ASSUME NEW st \in Stores, NEW aw \in [Nfts -> Ends \cup {NoEnd}],
         Sound(st, aw), NEW s \in Nfts, NEW e \in Ends, NEW memo \in Memos,
         NEW n \in Flights, MaySend(st, s, n)
  PROVE  Escrow(st, s, e, memo, n) \in Stores /\ Sound(Escrow(st, s, e, memo, n), aw)
  <1> DEFINE new == Escrow(st, s, e, memo, n)
             p == [nft |-> s, end |-> e, sender |-> st.owner[s], memo |-> memo,
                   status |-> "sent"]
  <1>1. /\ new \in Stores
        /\ new.owner = [st.owner EXCEPT ![s] = Ics721]
        /\ new.outgoing = [st.outgoing EXCEPT ![s] = e]
        /\ new.incoming = st.incoming
        /\ new.packet = [st.packet EXCEPT ![n] = p]
        /\ p \in Packet
    BY EscrowFields
  <1>2. /\ st.owner \in [Nfts -> Users \cup {Ics721, Nobody}]
        /\ st.outgoing \in [Nfts -> Ends \cup {NoEnd}]
        /\ st.packet \in [Flights -> Packet \cup {NoPacket}]
    BY DEF Stores
  <1>3. st.owner[s] \in Users /\ st.owner[s] # Nobody /\ Ics721 # Nobody
    BY SettleAssumption DEF MaySend
  <1>4. /\ aw[s] = NoEnd
        /\ \A m \in Flights : st.packet[m] # NoPacket /\ st.packet[m].nft = s =>
             ~Claims(st.packet[m])
    BY <1>3, UsersAreFree
  <1>5. p.nft = s /\ p.end = e /\ p.status = "sent" /\ st.packet[n] = NoPacket
    BY DEF MaySend
  <1> HIDE DEF new, p
  <1>6. Recorded(new)
    BY <1>1, <1>2, <1>3 DEF Sound, Recorded
  <1>7. ClaimsHeld(new, aw)
    BY <1>1, <1>2, <1>4, <1>5 DEF Sound, ClaimsHeld, Claims
  <1>8. ClaimsExclusive(new)
    BY <1>1, <1>2, <1>4, <1>5 DEF Sound, ClaimsExclusive, Claims
  <1>9. CanReturn(new, aw)
    BY <1>1, <1>2, <1>4, <1>5 DEF Sound, CanReturn
  <1> QED
    BY <1>1, <1>6, <1>7, <1>8, <1>9 DEF Sound, new

LEMMA PauseKeepsSound ==
  ASSUME NEW st \in Stores, NEW aw \in [Nfts -> Ends \cup {NoEnd}],
         Sound(st, aw), NEW b \in BOOLEAN
  PROVE  [st EXCEPT !.paused = b] \in Stores /\ Sound([st EXCEPT !.paused = b], aw)
  BY DEF Stores, Sound, Recorded, ClaimsHeld, ClaimsExclusive, CanReturn
-------------------------------------------------------------------------------
(* What the other chains do.                                                 *)

LEMMA AnswerKeepsSound ==
  ASSUME NEW st \in Stores, NEW aw \in [Nfts -> Ends \cup {NoEnd}],
         Sound(st, aw), NEW n \in Flights, NEW status \in {"success", "error"},
         st.packet[n] # NoPacket, st.packet[n].status = "sent"
  PROVE  LET new == [st EXCEPT !.packet[n].status = status]
             s == st.packet[n].nft
             naw == IF status = "success"
                    THEN [aw EXCEPT ![s] = st.packet[n].end] ELSE aw
         IN new \in Stores /\ naw \in [Nfts -> Ends \cup {NoEnd}] /\ Sound(new, naw)
  <1> DEFINE p == st.packet[n]
             s == p.nft
             new == [st EXCEPT !.packet[n].status = status]
             naw == IF status = "success" THEN [aw EXCEPT ![s] = p.end] ELSE aw
             q == [p EXCEPT !.status = status]
  <1>1. /\ st.packet \in [Flights -> Packet \cup {NoPacket}]
        /\ p \in Packet /\ s \in Nfts /\ p.end \in Ends /\ p.status = "sent"
    BY DEF Stores, Packet
  <1>2. /\ q \in Packet /\ q.nft = s /\ q.end = p.end /\ q.status = status
        /\ q # NoPacket
    BY <1>1, SettleAssumption DEF Packet
  <1>3. /\ new \in Stores
        /\ new.owner = st.owner /\ new.outgoing = st.outgoing
        /\ new.incoming = st.incoming
        /\ new.packet = [st.packet EXCEPT ![n] = q]
    BY <1>1, <1>2 DEF Stores
  <1>4. naw \in [Nfts -> Ends \cup {NoEnd}]
    BY <1>1
  <1>5. /\ \A t \in Nfts : t # s => naw[t] = aw[t]
        /\ naw[s] = IF status = "success" THEN p.end ELSE aw[s]
    BY <1>1
  <1>6. /\ st.owner[s] = Ics721 /\ st.outgoing[s] = p.end /\ aw[s] = NoEnd
        /\ \A m \in Flights : /\ st.packet[m] # NoPacket
                              /\ st.packet[m].nft = s /\ Claims(st.packet[m])
                              => m = n
    BY <1>1 DEF Sound, ClaimsHeld, ClaimsExclusive, Claims
  <1>7. \A m \in Flights : st.packet[m] # NoPacket => st.packet[m] \in Packet
                                                 /\ st.packet[m].nft \in Nfts
    BY <1>1 DEF Packet
  <1> HIDE DEF new, naw, q, p
  <1>8. Recorded(new)
    BY <1>3 DEF Sound, Recorded
  <1>9. ClaimsHeld(new, naw)
    <2> SUFFICES ASSUME NEW m \in Flights, new.packet[m] # NoPacket
                 PROVE  /\ Claims(new.packet[m]) => new.owner[new.packet[m].nft] = Ics721
                        /\ new.packet[m].status # "success" =>
                             /\ new.outgoing[new.packet[m].nft] = new.packet[m].end
                             /\ naw[new.packet[m].nft] = NoEnd
                        /\ new.packet[m].status = "success" /\ Claims(new.packet[m]) =>
                             naw[new.packet[m].nft] = new.packet[m].end
      BY DEF ClaimsHeld
    <2>1. CASE m = n
      BY <2>1, <1>1, <1>2, <1>3, <1>5, <1>6
    <2>2. CASE m # n
      BY <2>2, <1>1, <1>3, <1>5, <1>6, <1>7 DEF Sound, ClaimsHeld, Claims
    <2> QED
      BY <2>1, <2>2
  <1>10. ClaimsExclusive(new)
    BY <1>1, <1>2, <1>3, <1>6 DEF Sound, ClaimsExclusive
  <1>11. CanReturn(new, naw)
    <2> SUFFICES ASSUME NEW t \in Nfts, naw[t] # NoEnd
                 PROVE  IF Via[t] # naw[t]
                        THEN new.owner[t] = Ics721 /\ new.outgoing[t] = naw[t]
                        ELSE \/ new.owner[t] = Nobody
                             \/ \E m \in Flights : /\ new.packet[m] # NoPacket
                                                   /\ new.packet[m].nft = t
                                                   /\ new.packet[m].status = "success"
                                                   /\ new.packet[m].end = Via[t]
      BY DEF CanReturn
    <2>1. CASE t = s
      BY <2>1, <1>1, <1>2, <1>3, <1>5, <1>6
    <2>2. CASE t # s
      BY <2>2, <1>1, <1>2, <1>3, <1>5 DEF Sound, CanReturn
    <2> QED
      BY <2>1, <2>2
  <1> QED
    BY <1>3, <1>4, <1>8, <1>9, <1>10, <1>11 DEF Sound, new, naw, p

\* What can come in is on no claim, but for a voucher that waits to be burnt.
LEMMA RedeemKeepsSound ==
  ASSUME NEW st \in Stores, NEW aw \in [Nfts -> Ends \cup {NoEnd}],
         Sound(st, aw), NEW s \in Nfts, NEW u \in Users,
         aw[s] # NoEnd, Via[s] # aw[s]
  PROVE  LET new == [Own(st, s, u) EXCEPT !.outgoing[s] = NoEnd]
         IN new \in Stores /\ Sound(new, [aw EXCEPT ![s] = NoEnd])
  <1> DEFINE new == [Own(st, s, u) EXCEPT !.outgoing[s] = NoEnd]
             naw == [aw EXCEPT ![s] = NoEnd]
  <1>1. /\ st.owner \in [Nfts -> Users \cup {Ics721, Nobody}]
        /\ st.outgoing \in [Nfts -> Ends \cup {NoEnd}]
        /\ st.packet \in [Flights -> Packet \cup {NoPacket}]
    BY DEF Stores
  <1>2. /\ new \in Stores
        /\ new.owner = [st.owner EXCEPT ![s] = u]
        /\ new.outgoing = [st.outgoing EXCEPT ![s] = NoEnd]
        /\ new.incoming = st.incoming /\ new.packet = st.packet
    BY DEF Own, Stores
  <1>3. st.owner[s] = Ics721 /\ Ics721 # Nobody /\ u # Nobody
    BY SettleAssumption DEF Sound, CanReturn
  <1>4. \A n \in Flights : st.packet[n] # NoPacket /\ st.packet[n].nft = s =>
          ~Claims(st.packet[n])
    BY DEF Sound, ClaimsHeld, Claims
  <1>5. \A n \in Flights : st.packet[n] # NoPacket => st.packet[n].nft \in Nfts
    BY <1>1 DEF Packet
  <1> HIDE DEF new
  <1>6. Recorded(new)
    BY <1>1, <1>2, <1>3 DEF Sound, Recorded
  <1>7. ClaimsHeld(new, naw)
    BY <1>1, <1>2, <1>4, <1>5 DEF Sound, ClaimsHeld, Claims
  <1>8. ClaimsExclusive(new)
    BY <1>2 DEF Sound, ClaimsExclusive
  <1>9. CanReturn(new, naw)
    BY <1>1, <1>2 DEF Sound, CanReturn
  <1> QED
    BY <1>2, <1>6, <1>7, <1>8, <1>9 DEF Sound, new

LEMMA MintKeepsSound ==
  ASSUME NEW st \in Stores, NEW aw \in [Nfts -> Ends \cup {NoEnd}],
         Sound(st, aw), NEW s \in Nfts, NEW u \in Users,
         aw[s] # NoEnd, Via[s] = aw[s], st.owner[s] = Nobody
  PROVE  LET new == [Own(st, s, u) EXCEPT !.incoming[s] = aw[s],
                                          !.metadata = @ \cup {s}]
         IN new \in Stores /\ Sound(new, [aw EXCEPT ![s] = NoEnd])
  <1> DEFINE new == [Own(st, s, u) EXCEPT !.incoming[s] = aw[s],
                                          !.metadata = @ \cup {s}]
             naw == [aw EXCEPT ![s] = NoEnd]
  <1>1. /\ st.owner \in [Nfts -> Users \cup {Ics721, Nobody}]
        /\ st.incoming \in [Nfts -> Ends \cup {NoEnd}]
        /\ st.packet \in [Flights -> Packet \cup {NoPacket}]
    BY DEF Stores
  <1>2. /\ new \in Stores
        /\ new.owner = [st.owner EXCEPT ![s] = u]
        /\ new.outgoing = st.outgoing
        /\ new.incoming = [st.incoming EXCEPT ![s] = Via[s]]
        /\ new.packet = st.packet
    BY DEF Own, Stores
  <1>3. Ics721 # Nobody /\ u # Nobody
    BY SettleAssumption
  <1>4. \A n \in Flights : st.packet[n] # NoPacket /\ st.packet[n].nft = s =>
          ~Claims(st.packet[n])
    BY <1>3 DEF Sound, ClaimsHeld
  <1>5. \A n \in Flights : st.packet[n] # NoPacket => st.packet[n].nft \in Nfts
    BY <1>1 DEF Packet
  <1> HIDE DEF new
  <1>6. Recorded(new)
    BY <1>1, <1>2, <1>3 DEF Sound, Recorded
  <1>7. ClaimsHeld(new, naw)
    BY <1>1, <1>2, <1>4, <1>5 DEF Sound, ClaimsHeld, Claims
  <1>8. ClaimsExclusive(new)
    BY <1>2 DEF Sound, ClaimsExclusive
  <1>9. CanReturn(new, naw)
    BY <1>1, <1>2 DEF Sound, CanReturn
  <1> QED
    BY <1>2, <1>6, <1>7, <1>8, <1>9 DEF Sound, new
-------------------------------------------------------------------------------
(* What a settlement does.                                                   *)

\* ibc_packet_ack, up to the Burn: a voucher that went home over its channel.
LEMMA BurnKeepsSound ==
  ASSUME NEW st \in Stores, NEW aw \in [Nfts -> Ends \cup {NoEnd}],
         Sound(st, aw), NEW n \in Flights,
         st.packet[n] # NoPacket, st.packet[n].status = "success",
         st.incoming[st.packet[n].nft] = st.packet[n].end
  PROVE  LET s == st.packet[n].nft
             mid == [[st EXCEPT !.incoming[s] = NoEnd, !.metadata = @ \ {s}]
                       EXCEPT !.packet[n] = NoPacket]
         IN /\ mid \in Stores /\ mid.owner[s] = Ics721
            /\ Sound(Own(mid, s, Nobody), aw)
  <1> DEFINE p == st.packet[n]
             s == p.nft
             mid == [[st EXCEPT !.incoming[s] = NoEnd, !.metadata = @ \ {s}]
                       EXCEPT !.packet[n] = NoPacket]
             new == Own(mid, s, Nobody)
  <1>1. /\ st.owner \in [Nfts -> Users \cup {Ics721, Nobody}]
        /\ st.incoming \in [Nfts -> Ends \cup {NoEnd}]
        /\ st.packet \in [Flights -> Packet \cup {NoPacket}]
        /\ p \in Packet /\ s \in Nfts /\ p.end \in Ends
    BY DEF Stores, Packet
  <1>2. /\ mid \in Stores /\ mid.owner = st.owner /\ mid.outgoing = st.outgoing
        /\ mid.incoming = [st.incoming EXCEPT ![s] = NoEnd]
        /\ mid.packet = [st.packet EXCEPT ![n] = NoPacket]
    BY <1>1 DEF Stores
  <1>3. p.end = Via[s] /\ p.end # NoEnd
    BY <1>1, SettleAssumption DEF Sound, Recorded
  <1>4. /\ st.owner[s] = Ics721
        /\ \A m \in Flights : /\ st.packet[m] # NoPacket
                              /\ st.packet[m].nft = s /\ Claims(st.packet[m])
                              => m = n
    BY <1>3 DEF Sound, ClaimsHeld, ClaimsExclusive, Claims
  <1>5. aw[s] = Via[s]
    BY <1>3 DEF Sound, ClaimsHeld, Claims
  <1> HIDE DEF mid
  <1>6. /\ new.owner = [st.owner EXCEPT ![s] = Nobody]
        /\ new.outgoing = st.outgoing /\ new.incoming = mid.incoming
        /\ new.packet = mid.packet
    BY <1>1, <1>2 DEF Own, Stores
  <1>7. \A m \in Flights : st.packet[m] # NoPacket => st.packet[m].nft \in Nfts
    BY <1>1 DEF Packet
  <1> HIDE DEF new, p
  <1>8. Recorded(new)
    BY <1>1, <1>2, <1>6 DEF Sound, Recorded
  <1>9. ClaimsHeld(new, aw)
    BY <1>1, <1>2, <1>4, <1>6, <1>7 DEF Sound, ClaimsHeld
  <1>10. ClaimsExclusive(new)
    BY <1>1, <1>2, <1>6 DEF Sound, ClaimsExclusive
  <1>11. CanReturn(new, aw)
    BY <1>1, <1>2, <1>5, <1>6 DEF Sound, CanReturn, p
  <1> QED
    BY <1>2, <1>4, <1>8, <1>9, <1>10, <1>11 DEF Sound, mid, new, p

\* ibc_packet_ack of any other NFT: it stays where it is.
LEMMA StayKeepsSound ==
  ASSUME NEW st \in Stores, NEW aw \in [Nfts -> Ends \cup {NoEnd}],
         Sound(st, aw), NEW n \in Flights,
         st.packet[n] # NoPacket, st.packet[n].status = "success",
         st.incoming[st.packet[n].nft] # st.packet[n].end
  PROVE  LET new == [st EXCEPT !.packet[n] = NoPacket]
         IN new \in Stores /\ Sound(new, aw)
  <1> DEFINE new == [st EXCEPT !.packet[n] = NoPacket]
  <1>1. /\ st.packet \in [Flights -> Packet \cup {NoPacket}]
        /\ st.packet[n] \in Packet /\ st.packet[n].nft \in Nfts
    BY DEF Stores, Packet
  <1>2. /\ new \in Stores /\ new.owner = st.owner /\ new.outgoing = st.outgoing
        /\ new.incoming = st.incoming
        /\ new.packet = [st.packet EXCEPT ![n] = NoPacket]
    BY <1>1 DEF Stores
  <1>3. st.packet[n].end = Via[st.packet[n].nft] => st.owner[st.packet[n].nft] = Nobody
    BY <1>1 DEF Sound, Recorded
  <1> HIDE DEF new
  <1>4. Recorded(new)
    BY <1>2 DEF Sound, Recorded
  <1>5. ClaimsHeld(new, aw)
    BY <1>1, <1>2 DEF Sound, ClaimsHeld
  <1>6. ClaimsExclusive(new)
    BY <1>1, <1>2 DEF Sound, ClaimsExclusive
  <1>7. CanReturn(new, aw)
    BY <1>1, <1>2, <1>3 DEF Sound, CanReturn
  <1> QED
    BY <1>2, <1>4, <1>5, <1>6, <1>7 DEF Sound, new

\* handle_packet_fail, up to the TransferNft.
LEMMA RefundKeepsSound ==
  ASSUME NEW st \in Stores, NEW aw \in [Nfts -> Ends \cup {NoEnd}],
         Sound(st, aw), NEW n \in Flights,
         st.packet[n] # NoPacket, st.packet[n].status # "success"
  PROVE  LET p == st.packet[n]
             mid == [[st EXCEPT !.outgoing[p.nft] = NoEnd]
                       EXCEPT !.packet[n] = NoPacket]
         IN /\ mid \in Stores /\ mid.owner[p.nft] = Ics721
            /\ Sound(Own(mid, p.nft, p.sender), aw)
  <1> DEFINE p == st.packet[n]
             s == p.nft
             mid == [[st EXCEPT !.outgoing[s] = NoEnd] EXCEPT !.packet[n] = NoPacket]
             new == Own(mid, s, p.sender)
  <1>1. /\ st.owner \in [Nfts -> Users \cup {Ics721, Nobody}]
        /\ st.outgoing \in [Nfts -> Ends \cup {NoEnd}]
        /\ st.packet \in [Flights -> Packet \cup {NoPacket}]
        /\ p \in Packet /\ s \in Nfts /\ p.sender \in Users
    BY DEF Stores, Packet
  <1>2. /\ mid \in Stores /\ mid.owner = st.owner /\ mid.incoming = st.incoming
        /\ mid.outgoing = [st.outgoing EXCEPT ![s] = NoEnd]
        /\ mid.packet = [st.packet EXCEPT ![n] = NoPacket]
    BY <1>1 DEF Stores
  <1>3. /\ st.owner[s] = Ics721 /\ aw[s] = NoEnd
        /\ \A m \in Flights : /\ st.packet[m] # NoPacket
                              /\ st.packet[m].nft = s /\ Claims(st.packet[m])
                              => m = n
    BY DEF Sound, ClaimsHeld, ClaimsExclusive, Claims
  <1>4. Ics721 # Nobody /\ p.sender # Nobody
    BY <1>1, SettleAssumption
  <1> HIDE DEF mid
  <1>5. /\ new.owner = [st.owner EXCEPT ![s] = p.sender]
        /\ new.outgoing = mid.outgoing /\ new.incoming = st.incoming
        /\ new.packet = mid.packet
    BY <1>1, <1>2, OwnFields
  <1>6. \A m \in Flights : st.packet[m] # NoPacket => st.packet[m].nft \in Nfts
    BY <1>1 DEF Packet
  <1>7. p.status # "success"
    OBVIOUS
  <1> HIDE DEF new, p
  <1>8. Recorded(new)
    BY <1>1, <1>3, <1>4, <1>5 DEF Sound, Recorded
  <1>9. ClaimsHeld(new, aw)
    BY <1>1, <1>2, <1>3, <1>5, <1>6 DEF Sound, ClaimsHeld, Claims
  <1>10. ClaimsExclusive(new)
    BY <1>1, <1>2, <1>5 DEF Sound, ClaimsExclusive
  <1>11. CanReturn(new, aw)
    <2> SUFFICES ASSUME NEW t \in Nfts, aw[t] # NoEnd
                 PROVE  IF Via[t] # aw[t]
                        THEN new.owner[t] = Ics721 /\ new.outgoing[t] = aw[t]
                        ELSE \/ new.owner[t] = Nobody
                             \/ \E m \in Flights : /\ new.packet[m] # NoPacket
                                                   /\ new.packet[m].nft = t
                                                   /\ new.packet[m].status = "success"
                                                   /\ new.packet[m].end = Via[t]
      BY DEF CanReturn
    <2>1. t # s /\ new.owner[t] = st.owner[t] /\ new.outgoing[t] = st.outgoing[t]
      BY <1>1, <1>2, <1>3, <1>5
    <2>2. \A m \in Flights : st.packet[m] # NoPacket /\ st.packet[m].nft = t =>
            new.packet[m] = st.packet[m]
      BY <1>1, <1>2, <1>5, <2>1 DEF p
    <2> QED
      BY <2>1, <2>2 DEF Sound, CanReturn
  <1> QED
    BY <1>2, <1>3, <1>8, <1>9, <1>10, <1>11 DEF Sound, mid, new, p
-------------------------------------------------------------------------------
(* The invariant.                                                            *)

LEMMA InitSettleInv == Init => SettleInv
  <1> SUFFICES ASSUME Init PROVE SettleInv
    OBVIOUS
  <1>1. PICK holder \in [Nfts -> Users] :
          store = [owner |-> [s \in Nfts |-> IF Via[s] = NoEnd THEN holder[s] ELSE Nobody],
                   outgoing |-> [s \in Nfts |-> NoEnd],
                   incoming |-> [s \in Nfts |-> NoEnd],
                   metadata |-> {},
                   packet |-> [n \in Flights |-> NoPacket],
                   paused |-> FALSE]
    BY DEF Init
  <1>2. store \in Stores
    BY <1>1 DEF Stores
  <1>3. TypeOK
    BY <1>2, SettleAssumption DEF Init, TypeOK
  <1>4. Sound(store, Via)
    BY <1>1, SettleAssumption
    DEF Sound, Recorded, ClaimsHeld, ClaimsExclusive, CanReturn
  <1> QED
    BY <1>3, <1>4 DEF Init, SettleInv

\* The end of a transaction in a sound state.
LEMMA CommitKeepsInv ==
  ASSUME SettleInv, NEW st \in Stores, Commit(st),
         away' \in [Nfts -> Ends \cup {NoEnd}], Sound(st, away')
  PROVE  SettleInv'
  BY DEF SettleInv, TypeOK, Commit

LEMMA EndKeepsInv ==
  ASSUME SettleInv, NEW st \in Stores, EndSettlement(st), Sound(st, away)
  PROVE  SettleInv'
  BY SettleAssumption DEF SettleInv, TypeOK, EndSettlement

\* One step of the callback.
LEMMA CallbackKeepsInv ==
  ASSUME SettleInv, NEW st \in Stores, CallbackDoes(st), Sound(st, away)
  PROVE  SettleInv'
  BY SettleAssumption DEF SettleInv, TypeOK, CallbackDoes

LEMMA AckSuccessKeepsInv ==
  ASSUME SettleInv, NEW n \in Flights, AckSuccess(n)
  PROVE  SettleInv'
  <1> DEFINE p == store.packet[n]
             s == p.nft
             mid == [[store EXCEPT !.incoming[s] = NoEnd, !.metadata = @ \ {s}]
                       EXCEPT !.packet[n] = NoPacket]
  <1>1. /\ store \in Stores /\ away \in [Nfts -> Ends \cup {NoEnd}]
        /\ Sound(store, away)
        /\ p # NoPacket /\ p \in Packet /\ p.status = "success"
    BY DEF SettleInv, TypeOK, AckSuccess, Stores
  <1>2. CASE store.incoming[s] = p.end
    <2>1. mid \in Stores /\ mid.owner[s] = Ics721 /\ Sound(Own(mid, s, Nobody), away)
      BY <1>1, <1>2, BurnKeepsSound
    <2>2. /\ store' = mid /\ current' = p /\ step' = "Burn"
          /\ UNCHANGED <<saved, inner, moves, away>> /\ step = "idle"
      BY <1>2 DEF AckSuccess, Handler
    <2> HIDE DEF mid, p
    <2> QED
      BY <1>1, <2>1, <2>2 DEF SettleInv, TypeOK
  <1>3. CASE store.incoming[s] # p.end
    <2> DEFINE new == [store EXCEPT !.packet[n] = NoPacket]
    <2>1. new \in Stores /\ Sound(new, away)
      BY <1>1, <1>3, StayKeepsSound
    <2>2. /\ store' = new /\ current' = p /\ step' = "notify"
          /\ UNCHANGED <<saved, inner, moves, away>> /\ step = "idle"
      BY <1>3 DEF AckSuccess, Handler
    <2> HIDE DEF new, p
    <2> QED
      BY <1>1, <2>1, <2>2 DEF SettleInv, TypeOK
  <1> QED
    BY <1>2, <1>3

LEMMA HandlePacketFailKeepsInv ==
  ASSUME SettleInv, NEW n \in Flights, HandlePacketFail(n)
  PROVE  SettleInv'
  <1> DEFINE p == store.packet[n]
             mid == [[store EXCEPT !.outgoing[p.nft] = NoEnd]
                       EXCEPT !.packet[n] = NoPacket]
  <1>1. /\ store \in Stores /\ away \in [Nfts -> Ends \cup {NoEnd}]
        /\ Sound(store, away)
        /\ p # NoPacket /\ p \in Packet /\ p.status # "success"
    BY DEF SettleInv, TypeOK, HandlePacketFail, Stores
  <1>2. /\ mid \in Stores /\ mid.owner[p.nft] = Ics721
        /\ Sound(Own(mid, p.nft, p.sender), away)
    BY <1>1, RefundKeepsSound
  <1>3. /\ store' = mid /\ current' = p /\ step' = "TransferNft"
        /\ UNCHANGED <<saved, inner, moves, away>> /\ step = "idle"
    BY DEF HandlePacketFail, Handler
  <1> HIDE DEF mid, p
  <1> QED
    BY <1>1, <1>2, <1>3 DEF SettleInv, TypeOK

LEMMA MessageKeepsInv ==
  ASSUME SettleInv, Burn \/ TransferNft
  PROVE  SettleInv'
  <1>1. /\ current \in Packet /\ current.nft \in Nfts /\ current.sender \in Users
        /\ store \in Stores
    BY SettleAssumption DEF SettleInv, TypeOK, Burn, TransferNft, VoucherMessage, Packet
  <1>2. CASE Burn
    <2>1. /\ store' = Own(store, current.nft, Nobody) /\ step' = "notify"
          /\ UNCHANGED <<saved, inner, current, moves, away>>
          /\ step = "Burn"
      BY <1>2 DEF Burn, VoucherMessage
    <2>2. store' \in Stores
      BY <1>1, <2>1, OwnFields
    <2> QED
      BY <2>1, <2>2 DEF SettleInv, TypeOK
  <1>3. CASE TransferNft
    <2>1. /\ store' = Own(store, current.nft, current.sender) /\ step' = "notify"
          /\ UNCHANGED <<saved, inner, current, moves, away>>
          /\ step = "TransferNft"
      BY <1>3 DEF TransferNft, VoucherMessage
    <2>2. /\ store' \in Stores
          /\ store'.owner = [store.owner EXCEPT ![current.nft] = current.sender]
      BY <1>1, <2>1, OwnFields
    <2>3. store'.owner[current.nft] = current.sender
      BY <1>1, <2>2 DEF Stores
    <2> QED
      BY <2>1, <2>2, <2>3 DEF SettleInv, TypeOK
  <1> QED
    BY <1>2, <1>3

LEMMA CalleeIsUser ==
  ASSUME NEW p \in Packet, AckCallback(p) # Nobody
  PROVE  AckCallback(p) \in Users
  BY SettleAssumption DEF AckCallback, Packet, Memos

LEMMA CallbackStepKeepsInv ==
  ASSUME SettleInv, Callback
  PROVE  SettleInv'
  <1> USE SettleAssumption
  <1>1. /\ store \in Stores /\ inner \in Stores
        /\ away \in [Nfts -> Ends \cup {NoEnd}]
    BY DEF SettleInv, TypeOK
  <1>2. step \in {"notify", "callback"} => Sound(store, away)
    BY DEF SettleInv
  <1>3. CASE CallCallback
    <2>1. current \in Packet
      BY <1>3 DEF CallCallback, SettleInv, TypeOK
    <2>2. AckCallback(current) \in Users
      BY <1>3, <2>1, CalleeIsUser DEF CallCallback
    <2>3. /\ store' = store /\ inner' = store /\ current' = current
          /\ UNCHANGED <<saved, moves, away>> /\ step' = "callback" /\ step = "notify"
      BY <1>3 DEF CallCallback
    <2>4. AckCallback(current') \in Users
      BY <2>2, <2>3
    <2>5. TypeOK'
      BY <1>1, <2>1, <2>3 DEF SettleInv, TypeOK
    <2>6. Sound(store', away')
      BY <1>2, <2>3
    <2> QED
      BY <2>3, <2>4, <2>5, <2>6 DEF SettleInv
  <1>4. CASE CallbackPauses
    <2>1. /\ [store EXCEPT !.paused = TRUE] \in Stores
          /\ Sound([store EXCEPT !.paused = TRUE], away)
      BY <1>1, <1>2, <1>4, PauseKeepsSound DEF CallbackPauses, CallbackDoes
    <2> QED
      BY <1>4, <2>1, CallbackKeepsInv DEF CallbackPauses
  <1>5. CASE CallbackReturns
    BY <1>1, <1>2, <1>5, EndKeepsInv DEF CallbackReturns
  <1>6. CASE CallbackFails
    <2>1. Sound(inner, away)
      BY <1>6 DEF CallbackFails, SettleInv
    <2> QED
      BY <1>1, <1>6, <2>1, EndKeepsInv DEF CallbackFails
  <1>7. ASSUME NEW s \in Nfts, NEW u \in Users, CallbackGives(s, u)
        PROVE  SettleInv'
    <2>1. step = "callback" /\ CallbackDoes(Own(store, s, u))
      BY <1>7 DEF CallbackGives
    <2>2. store.owner[s] \in Users
      BY <1>7, <2>1 DEF CallbackGives, SettleInv
    <2> QED
      BY <1>1, <1>2, <2>1, <2>2, GiveKeepsSound, CallbackKeepsInv
  <1>8. ASSUME NEW s \in Nfts, NEW e \in Ends, NEW memo \in Memos,
               NEW n \in Flights, CallbackSends(s, e, memo, n)
        PROVE  SettleInv'
    <2>1. /\ step = "callback" /\ MaySend(store, s, n)
          /\ CallbackDoes(Escrow(store, s, e, memo, n))
      BY <1>8 DEF CallbackSends
    <2> QED
      BY <1>1, <1>2, <2>1, EscrowKeepsSound, CallbackKeepsInv
  <1> QED
    BY <1>3, <1>4, <1>5, <1>6, <1>7, <1>8 DEF Callback
LEMMA OtherTransactionKeepsInv ==
  ASSUME SettleInv, OtherTransaction
  PROVE  SettleInv'
  <1>1. store \in Stores /\ away \in [Nfts -> Ends \cup {NoEnd}]
    BY DEF SettleInv, TypeOK
  <1>2. step = "idle" => Sound(store, away)
    BY DEF SettleInv
  <1>3. ASSUME NEW s \in Nfts, NEW u \in Users, HolderTransfers(s, u)
        PROVE  SettleInv'
    <2>1. /\ store.owner[s] \in Users /\ Commit(Own(store, s, u))
          /\ away' = away /\ step = "idle"
      BY <1>3 DEF HolderTransfers, Commit
    <2> QED
      BY <1>1, <1>2, <2>1, GiveKeepsSound, CommitKeepsInv
  <1>4. ASSUME NEW s \in Nfts, NEW e \in Ends, NEW memo \in Memos,
               NEW n \in Flights, HolderSends(s, e, memo, n)
        PROVE  SettleInv'
    <2>1. /\ MaySend(store, s, n) /\ Commit(Escrow(store, s, e, memo, n))
          /\ away' = away /\ step = "idle"
      BY <1>4 DEF HolderSends, Commit
    <2> QED
      BY <1>1, <1>2, <2>1, EscrowKeepsSound, CommitKeepsInv
  <1>5. ASSUME NEW n \in Flights, NEW status \in {"success", "error"},
               Answer(n, status)
        PROVE  SettleInv'
    <2> DEFINE new == [store EXCEPT !.packet[n].status = status]
               naw == IF status = "success"
                      THEN [away EXCEPT ![store.packet[n].nft] = store.packet[n].end]
                      ELSE away
    <2>1. /\ store.packet[n] # NoPacket /\ store.packet[n].status = "sent"
          /\ Commit(new) /\ away' = naw /\ step = "idle"
      BY <1>5 DEF Answer, Commit
    <2>2. new \in Stores /\ naw \in [Nfts -> Ends \cup {NoEnd}] /\ Sound(new, naw)
      BY <1>1, <1>2, <2>1, AnswerKeepsSound
    <2> HIDE DEF new, naw
    <2> QED
      BY <2>1, <2>2, CommitKeepsInv
  <1>6. ASSUME NEW s \in Nfts, NEW u \in Users, Receive(s, u)
        PROVE  SettleInv'
    <2>1. /\ away[s] # NoEnd /\ away' = [away EXCEPT ![s] = NoEnd]
          /\ away' \in [Nfts -> Ends \cup {NoEnd}]
      BY <1>1, <1>6 DEF Receive
    <2>2. CASE Via[s] # away[s]
      <3> DEFINE new == [Own(store, s, u) EXCEPT !.outgoing[s] = NoEnd]
      <3>1. Commit(new) /\ step = "idle"
        BY <1>6, <2>2 DEF Receive, Commit
      <3>2. new \in Stores /\ Sound(new, [away EXCEPT ![s] = NoEnd])
        BY <1>1, <1>2, <2>1, <2>2, <3>1, RedeemKeepsSound
      <3> HIDE DEF new
      <3> QED
        BY <2>1, <3>1, <3>2, CommitKeepsInv
    <2>3. CASE Via[s] = away[s]
      <3> DEFINE new == [Own(store, s, u) EXCEPT !.incoming[s] = away[s],
                                                 !.metadata = @ \cup {s}]
      <3>1. Commit(new) /\ step = "idle" /\ store.owner[s] = Nobody
        BY <1>6, <2>3 DEF Receive, Commit
      <3>2. new \in Stores /\ Sound(new, [away EXCEPT ![s] = NoEnd])
        BY <1>1, <1>2, <2>1, <2>3, <3>1, MintKeepsSound
      <3> HIDE DEF new
      <3> QED
        BY <2>1, <3>1, <3>2, CommitKeepsInv
    <2> QED
      BY <2>2, <2>3
  <1>7. CASE Migrate
    <2>1. /\ Commit([store EXCEPT !.paused = FALSE]) /\ away' = away
          /\ step = "idle"
      BY <1>7 DEF Migrate, Commit
    <2>2. /\ [store EXCEPT !.paused = FALSE] \in Stores
          /\ Sound([store EXCEPT !.paused = FALSE], away)
      BY <1>1, <1>2, <2>1, PauseKeepsSound
    <2> QED
      BY <1>1, <2>1, <2>2, CommitKeepsInv
  <1> QED
    BY <1>3, <1>4, <1>5, <1>6, <1>7 DEF OtherTransaction

LEMMA NextSettleInv == SettleInv /\ [Next]_vars => SettleInv'
  <1> SUFFICES ASSUME SettleInv, [Next]_vars PROVE SettleInv'
    OBVIOUS
  <1>1. CASE Settlement
    <2>1. CASE NoCallback
      BY <2>1, EndKeepsInv DEF NoCallback, SettleInv, TypeOK
    <2> QED
      BY <1>1, <2>1, AckSuccessKeepsInv, HandlePacketFailKeepsInv,
         MessageKeepsInv, CallbackStepKeepsInv
      DEF Settlement
  <1>2. CASE OtherTransaction
    BY <1>2, OtherTransactionKeepsInv
  <1>3. CASE UNCHANGED vars
    BY <1>3 DEF vars, SettleInv, TypeOK, Sound, Recorded, ClaimsHeld,
                ClaimsExclusive, CanReturn, Own
  <1> QED
    BY <1>1, <1>2, <1>3 DEF Next

\* At every step of every settlement, ICS721 has what the packets that are left
\* claim, one packet for each NFT, and the maps say where it is.
THEOREM SettleInvariant == Spec => []SettleInv
  BY InitSettleInv, NextSettleInv, PTL DEF Spec

-------------------------------------------------------------------------------
(* What the runs check, for every value of the constants.                    *)

\* The chain's records and the running settlement keep their types.
THEOREM TypeCorrect == Spec => []TypeOK
  BY SettleInvariant, PTL DEF SettleInv

\* No acknowledgement and no timeout reverts on its message to the collection,
\* whatever the callbacks of other settlements did before it: ICS721 has what
\* handle_packet_fail gives back and what ibc_packet_ack burns.
THEOREM SettlementsNeverRevert == Spec => []NeverReverts
  <1>1. SettleInv => NeverReverts
    BY DEF SettleInv, NeverReverts, Reverts
  <1> QED
    BY <1>1, SettleInvariant, PTL

\* The callback of a failed transfer finds its sender in possession of the NFT.
THEOREM RefundPrecedesCallback == Spec => []FailureSeesRefund
  <1>1. SettleInv => FailureSeesRefund
    BY DEF SettleInv, FailureSeesRefund
  <1> QED
    BY <1>1, SettleInvariant, PTL

\* What the other chains can send back is there to be redeemed, or may be
\* minted at the latest when the settlement under way has burnt it.
THEOREM HomecomingsWork == Spec => []ReturnsWork
  <1>1. ASSUME SettleInv PROVE ReturnsWork
    <2> SUFFICES ASSUME step = "idle", NEW s \in Nfts, away[s] # NoEnd
                 PROVE  IF Via[s] # away[s]
                        THEN store.owner[s] = Ics721 /\ store.outgoing[s] = away[s]
                        ELSE \/ store.owner[s] = Nobody
                             \/ \E n \in Flights :
                                  /\ store.packet[n] # NoPacket
                                  /\ store.packet[n].nft = s
                                  /\ store.packet[n].status = "success"
                                  /\ store.incoming[s] = store.packet[n].end
      BY DEF ReturnsWork
    <2>1. Recorded(store) /\ CanReturn(store, away)
      BY <1>1 DEF SettleInv, Sound
    <2>2. store.owner[s] # Nobody => store.incoming[s] = Via[s]
      BY <2>1 DEF Recorded
    <2> QED
      BY <2>1, <2>2 DEF CanReturn
  <1> QED
    BY <1>1, SettleInvariant, PTL
-------------------------------------------------------------------------------
(* The refinement.  What the running settlement has done since the           *)
(* transaction started, and its callback since it was called.                *)

SettledBy(st, p, n) ==
  /\ st.owner = [saved.owner EXCEPT ![p.nft] = Atomic!Outcome(p)]
  /\ st.packet = [saved.packet EXCEPT ![n] = NoPacket]

Progress(n) ==
  /\ saved.packet[n] = current
  /\ Atomic!Outcome(current) # saved.owner[current.nft] =>
       saved.owner[current.nft] = Ics721
  /\ step \in {"Burn", "TransferNft"} =>
       /\ store.owner = saved.owner
       /\ store.packet = [saved.packet EXCEPT ![n] = NoPacket]
       /\ Atomic!Outcome(current) = IF step = "Burn" THEN Nobody ELSE current.sender
  /\ step = "notify" => SettledBy(store, current, n)
  /\ step = "callback" => SettledBy(inner, current, n)

\* The contract u used its own NFTs.
Acted(from, to, u) ==
  /\ \A s \in Nfts : \/ to.owner[s] = from.owner[s]
                     \/ from.owner[s] = u /\ to.owner[s] \in Users \cup {Ics721}
  /\ \A m \in Flights : to.packet[m] # from.packet[m] =>
       /\ from.packet[m] = NoPacket
       /\ to.packet[m].status = "sent"
       /\ to.owner[to.packet[m].nft] = Ics721

RefInv == /\ step # "idle" => \E n \in Flights : Progress(n)
          /\ step = "callback" => Acted(inner, store, AckCallback(current))

LEMMA HandlerMakesProgress ==
  ASSUME SettleInv, NEW n \in Flights, AckSuccess(n) \/ HandlePacketFail(n)
  PROVE  Progress(n)'
  <1> DEFINE p == store.packet[n]
             s == p.nft
  <1>1. /\ saved = store /\ store \in Stores /\ Sound(store, away)
        /\ p # NoPacket /\ p \in Packet /\ s \in Nfts /\ p.end \in Ends
        /\ p.sender \in Users
    BY DEF SettleInv, TypeOK, AckSuccess, HandlePacketFail, Stores, Packet
  <1>2. saved' = saved /\ current' = p
    BY DEF AckSuccess, HandlePacketFail, Handler
  <1>3. /\ Claims(p) => store.owner[s] = Ics721
        /\ store.incoming[s] = IF store.owner[s] = Nobody THEN NoEnd ELSE Via[s]
    BY <1>1 DEF Sound, ClaimsHeld, Recorded
  <1>4. /\ store'.owner = store.owner
        /\ store'.packet = [store.packet EXCEPT ![n] = NoPacket]
    BY <1>1 DEF AckSuccess, HandlePacketFail, Handler, Stores
  <1>5. (Atomic!Outcome(current))' = IF p.status # "success" THEN p.sender
                                     ELSE IF Via[s] = p.end THEN Nobody
                                     ELSE store.owner[s]
    BY <1>1, <1>2 DEF Atomic!Outcome
  <1>6. (Atomic!Outcome(current))' # store.owner[s] => store.owner[s] = Ics721
    BY <1>3, <1>5 DEF Claims
  <1>7. CASE AckSuccess(n) /\ store.incoming[s] = p.end
    <2>1. step' = "Burn" /\ p.status = "success"
      BY <1>7 DEF AckSuccess, Handler
    <2>2. Via[s] = p.end
      BY <1>1, <1>3, <1>7, SettleAssumption
    <2> QED
      BY <1>1, <1>2, <1>4, <1>5, <1>6, <2>1, <2>2 DEF Progress
  <1>8. CASE AckSuccess(n) /\ store.incoming[s] # p.end
    <2>1. step' = "notify" /\ p.status = "success"
      BY <1>8 DEF AckSuccess, Handler
    <2>2. (Atomic!Outcome(current))' = store.owner[s]
      BY <1>3, <1>5, <1>8, <2>1
    <2>3. store'.owner = [saved.owner EXCEPT ![s] = store.owner[s]]
      BY <1>1, <1>4 DEF Stores
    <2> QED
      BY <1>1, <1>2, <1>4, <1>6, <2>1, <2>2, <2>3 DEF Progress, SettledBy
  <1>9. CASE HandlePacketFail(n)
    <2>1. step' = "TransferNft" /\ p.status # "success"
      BY <1>9 DEF HandlePacketFail, Handler
    <2> QED
      BY <1>1, <1>2, <1>4, <1>5, <1>6, <2>1 DEF Progress
  <1> QED
    BY <1>7, <1>8, <1>9

LEMMA MessageMakesProgress ==
  ASSUME SettleInv, NEW n \in Flights, Progress(n), Burn \/ TransferNft
  PROVE  Progress(n)'
  <1>1. /\ current' = current /\ saved' = saved /\ step' = "notify"
        /\ step \in {"Burn", "TransferNft"}
        /\ store' = Own(store, current.nft,
                        IF step = "Burn" THEN Nobody ELSE current.sender)
    BY DEF Burn, TransferNft, VoucherMessage
  <1>2. current \in Packet /\ current.nft \in Nfts /\ current.sender \in Users
        /\ store \in Stores
    BY <1>1, SettleAssumption DEF SettleInv, TypeOK, Packet
  <1>3. (Atomic!Outcome(current))' = Atomic!Outcome(current)
    BY <1>1 DEF Atomic!Outcome
  <1>4. /\ store'.owner = [store.owner EXCEPT ![current.nft] = Atomic!Outcome(current)]
        /\ store'.packet = store.packet
    BY <1>1, <1>2 DEF Progress, Own, Stores
  <1> QED
    BY <1>1, <1>3, <1>4 DEF Progress, SettledBy

LEMMA CalleeKeepsActing ==
  ASSUME SettleInv, RefInv, step = "callback",
         \/ CallbackPauses
         \/ \E s \in Nfts : \/ \E u \in Users : CallbackGives(s, u)
                            \/ \E e \in Ends, memo \in Memos, n \in Flights :
                                 CallbackSends(s, e, memo, n)
  PROVE  RefInv'
  <1> DEFINE cb == AckCallback(current)
  <1>1. /\ store \in Stores /\ Acted(inner, store, cb) /\ cb \in Users /\ cb # Ics721
        /\ \E n \in Flights : Progress(n)
    BY SettleAssumption DEF SettleInv, TypeOK, RefInv
  <1>2. /\ step' = "callback" /\ UNCHANGED <<saved, inner, current>>
    BY DEF CallbackPauses, CallbackGives, CallbackSends, CallbackDoes
  <1>3. \E n \in Flights : Progress(n)'
    <2>1. (Atomic!Outcome(current))' = Atomic!Outcome(current)
      BY <1>2 DEF Atomic!Outcome
    <2> QED
      BY <1>1, <1>2, <2>1 DEF Progress, SettledBy
  <1>4. (AckCallback(current))' = cb
    BY <1>2 DEF AckCallback
  <1>5. CASE CallbackPauses
    <2>1. store'.owner = store.owner /\ store'.packet = store.packet
      BY <1>1, <1>5 DEF CallbackPauses, CallbackDoes, Stores
    <2> QED
      BY <1>1, <1>2, <1>3, <1>4, <2>1 DEF RefInv, Acted
  <1>6. ASSUME NEW s \in Nfts, NEW u \in Users, CallbackGives(s, u)
        PROVE  RefInv'
    <2>1. store.owner[s] = cb /\ store' = Own(store, s, u)
      BY <1>6 DEF CallbackGives, CallbackDoes
    <2>2. /\ store'.owner = [store.owner EXCEPT ![s] = u]
          /\ store'.packet = store.packet
      BY <1>1, <2>1, OwnFields
    <2>3. store.owner \in [Nfts -> Users \cup {Ics721, Nobody}]
      BY <1>1 DEF Stores
    <2> HIDE DEF cb
    <2>4. \A t \in Nfts : \/ store'.owner[t] = inner.owner[t]
                          \/ inner.owner[t] = cb /\ store'.owner[t] \in Users \cup {Ics721}
      BY <1>1, <2>1, <2>2, <2>3 DEF Acted
    <2>5. \A m \in Flights : store'.packet[m] # inner.packet[m] =>
            /\ inner.packet[m] = NoPacket
            /\ store'.packet[m].status = "sent"
            /\ store'.owner[store'.packet[m].nft] = Ics721
      BY <1>1, <2>1, <2>2, <2>3 DEF Acted
    <2> QED
      BY <1>2, <1>3, <1>4, <2>4, <2>5 DEF RefInv, Acted
  <1>7. ASSUME NEW s \in Nfts, NEW e \in Ends, NEW memo \in Memos,
               NEW n \in Flights, CallbackSends(s, e, memo, n)
        PROVE  RefInv'
    <2> DEFINE p == [nft |-> s, end |-> e, sender |-> store.owner[s], memo |-> memo,
                     status |-> "sent"]
    <2>1. /\ store.owner[s] = cb /\ MaySend(store, s, n)
          /\ store' = Escrow(store, s, e, memo, n) /\ store.packet[n] = NoPacket
      BY <1>7 DEF CallbackSends, CallbackDoes, MaySend
    <2>2. /\ store'.owner = [store.owner EXCEPT ![s] = Ics721]
          /\ store'.packet = [store.packet EXCEPT ![n] = p]
          /\ p.status = "sent" /\ p.nft = s
      <3>1. /\ Escrow(store, s, e, memo, n).owner = [store.owner EXCEPT ![s] = Ics721]
            /\ Escrow(store, s, e, memo, n).packet = [store.packet EXCEPT ![n] = p]
        BY <1>1 DEF Escrow, Stores
      <3> QED
        BY <2>1, <3>1
    <2>3. /\ store.owner \in [Nfts -> Users \cup {Ics721, Nobody}]
          /\ store.packet \in [Flights -> Packet \cup {NoPacket}]
      BY <1>1 DEF Stores
    <2> HIDE DEF cb, p
    <2>4. ASSUME NEW t \in Nfts
          PROVE  \/ store'.owner[t] = inner.owner[t]
                 \/ inner.owner[t] = cb /\ store'.owner[t] \in Users \cup {Ics721}
      BY <1>1, <2>1, <2>2, <2>3 DEF Acted
    <2>5. ASSUME NEW m \in Flights, store'.packet[m] # inner.packet[m]
          PROVE  /\ inner.packet[m] = NoPacket
                 /\ store'.packet[m].status = "sent"
                 /\ store'.owner[store'.packet[m].nft] = Ics721
      <3>1. CASE m = n
        BY <1>1, <2>1, <2>2, <2>3, <3>1 DEF Acted
      <3>2. CASE m # n
        BY <1>1, <2>2, <2>3, <2>5, <3>2 DEF Acted
      <3> QED
        BY <3>1, <3>2
    <2> QED
      BY <1>2, <1>3, <1>4, <2>4, <2>5 DEF RefInv, Acted
  <1> QED
    BY <1>5, <1>6, <1>7
LEMMA NextRefInv == SettleInv /\ RefInv /\ [Next]_vars => RefInv'
  <1> SUFFICES ASSUME SettleInv, RefInv, [Next]_vars PROVE RefInv'
    OBVIOUS
  <1>1. ASSUME NEW n \in Flights, AckSuccess(n) \/ HandlePacketFail(n)
        PROVE  RefInv'
    <2>1. step' \in {"Burn", "notify", "TransferNft"}
      BY <1>1 DEF AckSuccess, HandlePacketFail, Handler
    <2> QED
      BY <1>1, <2>1, HandlerMakesProgress DEF RefInv
  <1>2. CASE Burn \/ TransferNft
    <2>1. step # "idle" /\ step' = "notify"
      BY <1>2 DEF Burn, TransferNft, VoucherMessage
    <2> QED
      BY <1>2, <2>1, MessageMakesProgress DEF RefInv
  <1>3. CASE NoCallback \/ CallbackReturns \/ CallbackFails
    BY <1>3 DEF NoCallback, CallbackReturns, CallbackFails, EndSettlement, RefInv
  <1>4. CASE CallCallback
    <2>1. /\ step = "notify" /\ step' = "callback"
          /\ store' = store /\ inner' = store /\ saved' = saved /\ current' = current
      BY <1>4 DEF CallCallback
    <2>2. (Atomic!Outcome(current))' = Atomic!Outcome(current)
      BY <2>1 DEF Atomic!Outcome
    <2>3. \E n \in Flights : Progress(n)'
      BY <2>1, <2>2 DEF RefInv, Progress, SettledBy
    <2>4. Acted(inner, store, AckCallback(current))'
      BY <2>1 DEF Acted
    <2> QED
      BY <2>3, <2>4 DEF RefInv
  <1>5. CASE \/ CallbackPauses
             \/ \E s \in Nfts : \/ \E u \in Users : CallbackGives(s, u)
                                \/ \E e \in Ends, memo \in Memos, n \in Flights :
                                     CallbackSends(s, e, memo, n)
    <2>1. step = "callback"
      BY <1>5 DEF CallbackPauses, CallbackGives, CallbackSends, CallbackDoes
    <2> QED
      BY <1>5, <2>1, CalleeKeepsActing
  <1>6. CASE OtherTransaction
    <2>1. step' = "idle"
      BY <1>6 DEF OtherTransaction, HolderTransfers, HolderSends, Answer, Receive,
                  Migrate, Commit
    <2> QED
      BY <2>1 DEF RefInv
  <1>7. CASE UNCHANGED vars
    <2>1. (Atomic!Outcome(current))' = Atomic!Outcome(current)
      BY <1>7 DEF vars, Atomic!Outcome
    <2>2. (AckCallback(current))' = AckCallback(current)
      BY <1>7 DEF vars, AckCallback
    <2> QED
      BY <1>7, <2>1, <2>2 DEF vars, RefInv, Progress, SettledBy, Acted
  <1> QED
    BY <1>1, <1>2, <1>3, <1>4, <1>5, <1>6, <1>7 DEF Next, Settlement, Callback

\* The end of a settlement is its abstract step: u is the contract that was
\* called, or anybody if none was or nothing it did stands.
LEMMA EndSettles ==
  ASSUME NEW n \in Flights, NEW p \in Packet, saved.packet[n] = p,
         saved \in Stores, NEW base \in Stores, NEW u \in Users,
         Atomic!Outcome(p) # saved.owner[p.nft] => saved.owner[p.nft] = Ics721,
         SettledBy(base, p, n), saved' \in Stores, Acted(base, saved', u)
  PROVE  Atomic!Settle(n)
  <1> DEFINE S == {s \in Nfts : base.owner[s] = u}
             final == [s \in S |-> saved'.owner[s]]
  <1>1. /\ saved'.owner \in [Nfts -> Users \cup {Ics721, Nobody}]
        /\ saved.packet \in [Flights -> Packet \cup {NoPacket}]
        /\ saved'.packet \in [Flights -> Packet \cup {NoPacket}]
    BY DEF Stores
  <1>2. p # NoPacket /\ u # Nobody /\ u # Ics721
    BY SettleAssumption
  <1>3. final \in [S -> Users \cup {Ics721}]
    BY <1>1 DEF Acted
  <1>4. saved'.owner = [s \in Nfts |-> IF s \in S THEN final[s] ELSE base.owner[s]]
    BY <1>1 DEF Acted
  <1>5. Atomic!Uses([saved.owner EXCEPT ![p.nft] = Atomic!Outcome(p)], u, S)
    <2>1. S \subseteq {s \in Nfts : base.owner[s] = u}
      OBVIOUS
    <2>2. Atomic!Uses(base.owner, u, S)
      <3> HIDE DEF S, final
      <3> QED
        BY <1>3, <1>4, <2>1 DEF Atomic!Uses
    <2> QED
      BY <2>2 DEF SettledBy
  <1>6. S \in SUBSET Nfts
    OBVIOUS
  <1>7. base.packet = [saved.packet EXCEPT ![n] = NoPacket]
    BY DEF SettledBy
  <1>8. \A m \in Flights \ {n} : saved.packet[m] # NoPacket =>
          saved'.packet[m] = saved.packet[m]
    BY <1>1, <1>7 DEF Acted
  <1>9. \A m \in Flights : saved'.packet[m] \notin {saved.packet[m], NoPacket} =>
          saved'.owner[saved'.packet[m].nft] = Ics721
    BY <1>1, <1>7 DEF Acted
  <1>10. saved'.packet[n] # NoPacket => saved'.packet[n].status = "sent"
    BY <1>1, <1>7 DEF Acted
  <1> HIDE DEF S, final
  <1> QED
    BY <1>2, <1>5, <1>6, <1>8, <1>9, <1>10 DEF Atomic!Settle

LEMMA SettlementSimulates ==
  ASSUME SettleInv, RefInv, NoCallback \/ CallbackReturns \/ CallbackFails
  PROVE  \E n \in Flights : Atomic!Settle(n)
  <1>1. step \in {"notify", "callback"} /\ step # "idle"
    BY DEF NoCallback, CallbackReturns, CallbackFails
  <1>2. PICK n \in Flights : Progress(n)
    BY <1>1 DEF RefInv
  <1>3. /\ current \in Packet /\ current.sender \in Users
        /\ saved \in Stores /\ store \in Stores /\ inner \in Stores
    BY <1>1, SettleAssumption DEF SettleInv, TypeOK, Packet
  <1>4. /\ saved.packet[n] = current
        /\ Atomic!Outcome(current) # saved.owner[current.nft] =>
             saved.owner[current.nft] = Ics721
    BY <1>2 DEF Progress
  <1>5. CASE NoCallback
    <2>1. SettledBy(store, current, n) /\ saved' = store
      BY <1>2, <1>5 DEF NoCallback, EndSettlement, Progress
    <2>2. Acted(store, saved', current.sender)
      BY <2>1 DEF Acted
    <2> QED
      BY <1>3, <1>4, <2>1, <2>2, EndSettles
  <1>6. CASE CallbackReturns
    <2>1. SettledBy(inner, current, n) /\ saved' = store
      BY <1>2, <1>6 DEF CallbackReturns, EndSettlement, Progress
    <2>2. Acted(inner, saved', AckCallback(current)) /\ AckCallback(current) \in Users
      BY <1>6, <2>1 DEF CallbackReturns, RefInv, SettleInv
    <2> QED
      BY <1>3, <1>4, <2>1, <2>2, EndSettles
  <1>7. CASE CallbackFails
    <2>1. SettledBy(inner, current, n) /\ saved' = inner
      BY <1>2, <1>7 DEF CallbackFails, EndSettlement, Progress
    <2>2. Acted(inner, saved', current.sender)
      BY <2>1 DEF Acted
    <2> QED
      BY <1>3, <1>4, <2>1, <2>2, EndSettles
  <1> QED
    BY <1>5, <1>6, <1>7
LEMMA OtherTransactionSimulates ==
  ASSUME SettleInv, OtherTransaction
  PROVE  Atomic!Next \/ UNCHANGED Atomic!vars
  <1>1. /\ saved = store /\ step = "idle" /\ store \in Stores
        /\ away \in [Nfts -> Ends \cup {NoEnd}] /\ Sound(store, away)
    BY DEF OtherTransaction, HolderTransfers, HolderSends, Answer, Receive, Migrate,
           Commit, SettleInv, TypeOK
  <1>2. ASSUME NEW s \in Nfts, NEW u \in Users, HolderTransfers(s, u)
        PROVE  Atomic!Use(s)
    <2>1. saved' = Own(store, s, u) /\ store.owner[s] \in Users
      BY <1>2 DEF HolderTransfers, Commit
    <2>2. /\ saved'.owner = [saved.owner EXCEPT ![s] = u]
          /\ saved'.packet = saved.packet
      BY <1>1, <2>1, OwnFields
    <2> QED
      BY <1>1, <2>1, <2>2, SettleAssumption DEF Atomic!Use
  <1>3. ASSUME NEW s \in Nfts, NEW e \in Ends, NEW memo \in Memos,
               NEW n \in Flights, HolderSends(s, e, memo, n)
        PROVE  Atomic!Use(s)
    <2> DEFINE p == [nft |-> s, end |-> e, sender |-> store.owner[s], memo |-> memo,
                     status |-> "sent"]
    <2>1. /\ saved' = Escrow(store, s, e, memo, n) /\ MaySend(store, s, n)
          /\ store.owner[s] \in Users /\ store.packet[n] = NoPacket
      BY <1>3 DEF HolderSends, Commit, MaySend
    <2>2. /\ saved'.owner = [saved.owner EXCEPT ![s] = Ics721]
          /\ saved'.packet = [saved.packet EXCEPT ![n] = p]
      BY <1>1, <2>1 DEF Escrow, Stores
    <2>3. /\ p \in Packet /\ p.nft = s /\ p.sender = saved.owner[s]
          /\ p.status = "sent"
      BY <1>1, <2>1 DEF Packet
    <2> HIDE DEF p
    <2>4. \E m \in Flights, q \in Packet :
            /\ saved.packet[m] = NoPacket
            /\ q.nft = s /\ q.sender = saved.owner[s] /\ q.status = "sent"
            /\ saved'.packet = [saved.packet EXCEPT ![m] = q]
      BY <1>1, <2>1, <2>2, <2>3
    <2>5. saved.owner[s] \in Users /\ Ics721 \in Users \cup {Nobody, Ics721}
      BY <1>1, <2>1
    <2> QED
      BY <2>2, <2>4, <2>5 DEF Atomic!Use
  <1>4. ASSUME NEW n \in Flights, NEW status \in {"success", "error"},
               Answer(n, status)
        PROVE  Atomic!Answer(n)
    <2>1. /\ saved' = [store EXCEPT !.packet[n].status = status]
          /\ store.packet[n] # NoPacket /\ store.packet[n].status = "sent"
      BY <1>4 DEF Answer, Commit
    <2>2. /\ saved'.owner = saved.owner
          /\ saved'.packet = [saved.packet EXCEPT ![n].status = status]
      BY <1>1, <2>1 DEF Stores
    <2> QED
      BY <1>1, <2>1, <2>2 DEF Atomic!Answer
  <1>5. ASSUME NEW s \in Nfts, NEW u \in Users, Receive(s, u)
        PROVE  Atomic!Receive(s)
    <2>1. store.owner[s] \in {Ics721, Nobody}
      BY <1>5 DEF Receive
    <2>2. /\ saved'.owner = [saved.owner EXCEPT ![s] = u]
          /\ saved'.packet = saved.packet
      <3>1. \/ saved' = [Own(store, s, u) EXCEPT !.outgoing[s] = NoEnd]
            \/ saved' = [Own(store, s, u) EXCEPT !.incoming[s] = away[s],
                                                 !.metadata = @ \cup {s}]
        BY <1>5 DEF Receive, Commit
      <3>2. /\ Own(store, s, u) \in Stores /\ Own(store, s, u).packet = store.packet
            /\ Own(store, s, u).owner = [store.owner EXCEPT ![s] = u]
        BY <1>1, OwnFields
      <3> QED
        BY <1>1, <3>1, <3>2 DEF Stores
    <2> QED
      BY <1>1, <2>1, <2>2 DEF Atomic!Receive
  <1>6. CASE Migrate
    <2>1. saved'.owner = saved.owner /\ saved'.packet = saved.packet
      BY <1>1, <1>6 DEF Migrate, Commit, Stores
    <2> QED
      BY <2>1 DEF Atomic!vars
  <1> QED
    BY <1>2, <1>3, <1>4, <1>5, <1>6 DEF OtherTransaction, Atomic!Next

LEMMA StepSimulates ==
  SettleInv /\ RefInv /\ [Next]_vars => [Atomic!Next]_(Atomic!vars)
  <1> SUFFICES ASSUME SettleInv, RefInv, [Next]_vars
               PROVE  Atomic!Next \/ UNCHANGED Atomic!vars
    OBVIOUS
  <1>1. CASE OtherTransaction
    BY <1>1, OtherTransactionSimulates
  <1>2. CASE NoCallback \/ CallbackReturns \/ CallbackFails
    BY <1>2, SettlementSimulates DEF Atomic!Next
  <1>3. CASE saved' = saved
    BY <1>3 DEF Atomic!vars
  <1>4. \/ OtherTransaction \/ NoCallback \/ CallbackReturns \/ CallbackFails
        \/ saved' = saved
    BY DEF Next, Settlement, Callback, AckSuccess, HandlePacketFail, Handler, Burn,
           TransferNft, VoucherMessage, CallCallback, CallbackPauses, CallbackGives,
           CallbackSends, CallbackDoes, vars
  <1> QED
    BY <1>1, <1>2, <1>3, <1>4

\* A settlement, message by message and with any callback in its middle, is the
\* one step of AtomicSettlement: the outcome of a transfer is final, and a
\* callback uses nothing but what is its own by then.
THEOREM SettlementIsAtomic == Spec => SettlementSpec
  <1>1. Init => RefInv
    BY DEF Init, RefInv
  <1>2. Init => Atomic!Init
    <2> SUFFICES ASSUME Init PROVE Atomic!Init
      OBVIOUS
    <2>1. /\ saved = store
          /\ \E holder \in [Nfts -> Users] :
               store.owner = [s \in Nfts |-> IF Via[s] = NoEnd THEN holder[s] ELSE Nobody]
          /\ store.packet = [n \in Flights |-> NoPacket]
      BY DEF Init
    <2> QED
      BY <2>1 DEF Atomic!Init
  <1>3. Spec => []RefInv
    BY <1>1, SettleInvariant, NextRefInv, PTL DEF Spec
  <1>4. Spec => Atomic!Init /\ [][Atomic!Next]_(Atomic!vars)
    BY <1>2, <1>3, SettleInvariant, StepSimulates, PTL DEF Spec
  <1> QED
    BY <1>4 DEF SettlementSpec, Atomic!Spec
===============================================================================
