------------------------ MODULE TesterCallbacks_proofs ------------------------
(***************************************************************************)
(* That the testers are told the truth about the NFT, however many packets *)
(* are sent and whatever their memos ask for: who has the NFT while a      *)
(* packet is open, and what a callback sees.                               *)
(***************************************************************************)
EXTENDS TesterCallbacks, TLAPS

Packets == [seq : Nat, from : Chains, sender : Accounts, receiver : Accounts,
            onReceive : ReceiveMemos, onAck : AckMemos,
            status : {"sent", "success", "error"}]

Owners == Accounts \cup {"ics721", Nobody}

TypeOK ==
  /\ owner \in [Chains -> Owners]
  /\ packets \subseteq Packets
  /\ sent \in Nat
  /\ received \in [Chains -> Owners \cup {NotCalled}]
  /\ notified \in [Chains -> Owners \cup {NotCalled}]

\* The packet has the NFT with it, or has to give it back.
Open(p) == p.status # "success"

\* Somebody has the voucher only while the original is in escrow; an open
\* packet has the NFT alone, and a voucher that goes home stays in escrow until
\* the one packet that took it is settled.
CustodyInv ==
  /\ TypeOK
  /\ Out => owner[1] = "ics721"
  /\ \A p \in packets : p.from = 2 => owner[2] = "ics721"
  /\ \A p, q \in packets : p.from = 2 /\ q.from = 2 => p = q
  /\ \A p \in packets : Open(p) => owner[1] = "ics721" /\ ~Out
  /\ \A p, q \in packets : Open(p) /\ Open(q) => p = q

\* Packets are told apart by their numbers.
Numbered ==
  /\ \A p \in packets : p.seq <= sent
  /\ \A p, q \in packets : p.seq = q.seq => p = q

\* At the start the user has the NFT and nothing is under way.
LEMMA InitCustody == Init => CustodyInv
  <1> SUFFICES ASSUME Init PROVE CustodyInv
    OBVIOUS
  <1>1. owner = [c \in Chains |-> IF c = 1 THEN "user" ELSE Nobody]
        /\ packets = {} /\ sent = 0
    BY DEF Init
  <1>2. owner \in [Chains -> Owners]
    BY <1>1 DEF Owners, Accounts
  <1>3. received = [c \in Chains |-> NotCalled] /\ notified = [c \in Chains |-> NotCalled]
    BY DEF Init
  <1>4. TypeOK
    BY <1>1, <1>2, <1>3 DEF TypeOK
  <1>5. ~Out
    BY <1>1 DEF Out, Accounts, Chains, Nobody
  <1> QED
    BY <1>1, <1>4, <1>5 DEF CustodyInv

\* The packet takes the NFT of the account that sends it.
LEMMA SendCustody ==
  ASSUME CustodyInv, NEW c \in Chains, NEW sender \in Accounts, NEW receiver \in Accounts,
         NEW onReceive \in ReceiveMemos, NEW onAck \in AckMemos,
         SendNft(c, sender, receiver, onReceive, onAck)
  PROVE  CustodyInv'
  <1> DEFINE p == [seq |-> sent + 1, from |-> c, sender |-> sender, receiver |-> receiver,
                   onReceive |-> onReceive, onAck |-> onAck, status |-> "sent"]
  <1>1. /\ owner[c] \in Accounts /\ packets' = packets \cup {p}
        /\ owner' = [owner EXCEPT ![c] = "ics721"] /\ sent' = sent + 1
        /\ UNCHANGED <<received, notified>>
    BY DEF SendNft, records
  <1>2. p \in Packets /\ p.from = c /\ p.status = "sent"
    BY DEF Packets, CustodyInv, TypeOK
  <1> HIDE DEF p
  <1>3. TypeOK'
    BY <1>1, <1>2 DEF CustodyInv, TypeOK, Owners
  <1>4. \A q \in packets : ~Open(q)
    BY <1>1 DEF CustodyInv, Out, Chains, Accounts
  <1>5. \A q \in packets : q.from = 2 => c # 2
    BY <1>1 DEF CustodyInv, Accounts
  <1>6. owner'[1] = "ics721" /\ ~Out'
    BY <1>1 DEF CustodyInv, TypeOK, Out, Chains, Accounts
  <1>7. \A q \in packets' : q.from = 2 => owner'[2] = "ics721"
    BY <1>1, <1>2, <1>5 DEF CustodyInv, TypeOK, Chains
  <1>8. \A q, r \in packets' : q.from = 2 /\ r.from = 2 => q = r
    BY <1>1, <1>2, <1>5 DEF CustodyInv
  <1>9. \A q, r \in packets' : Open(q) /\ Open(r) => q = r
    BY <1>1, <1>4
  <1> QED
    BY <1>3, <1>6, <1>7, <1>8, <1>9 DEF CustodyInv

\* A receipt, or one that fails, answers the one open packet.
LEMMA AnswerCustody ==
  ASSUME CustodyInv, NEW p \in packets, Receive(p) \/ Reject(p)
  PROVE  CustodyInv'
  <1> DEFINE q == [p EXCEPT !.status = IF Receive(p) THEN "success" ELSE "error"]
  <1>1. p \in Packets /\ p.status = "sent" /\ p.from \in Chains /\ Other(p.from) \in Chains
    BY DEF CustodyInv, TypeOK, Packets, Receive, Reject, Chains, Other
  <1>2. ~(Receive(p) /\ Reject(p))
    BY DEF Receive, Reject
  <1>3. /\ packets' = (packets \ {p}) \cup {q}
        /\ sent' = sent
        /\ Reject(p) => UNCHANGED <<owner, received, notified>>
    BY <1>2 DEF Receive, Reject, records
  <1>4. q \in Packets /\ q.from = p.from /\ (Open(q) <=> Reject(p))
    BY <1>1, <1>2 DEF Packets, Open
  <1>5. \A r \in packets : Open(r) => r = p
    BY <1>1 DEF CustodyInv, Open
  <1> HIDE DEF q
  <1>6. \A r, t \in packets' : r.from = 2 /\ t.from = 2 => r = t
    BY <1>3, <1>4 DEF CustodyInv
  <1>7. \A r, t \in packets' : Open(r) /\ Open(t) => r = t
    BY <1>3, <1>5
  <1>8. owner[1] = "ics721" /\ ~Out
    BY <1>1 DEF CustodyInv, Open
  <1>9. CASE Reject(p)
    <2>1. TypeOK'
      BY <1>3, <1>4, <1>9 DEF CustodyInv, TypeOK
    <2>2. UNCHANGED owner
      BY <1>3, <1>9
    <2>3. \A r \in packets' : r.from = 2 => owner'[2] = "ics721"
      BY <1>3, <1>4, <2>2 DEF CustodyInv
    <2>4. owner'[1] = "ics721" /\ ~Out'
      BY <1>8, <2>2 DEF Out
    <2> QED
      BY <1>6, <1>7, <2>1, <2>3, <2>4 DEF CustodyInv
  <1>10. CASE Receive(p)
    <2> DEFINE c == Other(p.from)
    <2>1. /\ owner' = [owner EXCEPT ![c] = p.receiver] /\ Deliverable(p)
          /\ p.receiver \in Accounts
      BY <1>1, <1>10 DEF Receive, Packets
    <2>2. TypeOK'
      <3>1. owner' \in [Chains -> Owners]
        BY <2>1 DEF CustodyInv, TypeOK, Owners
      <3>2. received' \in [Chains -> Owners \cup {NotCalled}] /\ notified' = notified
        BY <1>1, <1>10, <3>1 DEF Receive, NftReceived, OwnerSeen, records, CustodyInv, TypeOK
      <3> QED
        BY <1>1, <1>3, <1>4, <3>1, <3>2 DEF CustodyInv, TypeOK
    <2>3. \A r \in packets' : ~Open(r)
      BY <1>2, <1>3, <1>4, <1>5, <1>10
    <2>4. CASE p.from = 1
      <3>1. c = 2 /\ owner[2] = Nobody
        BY <2>1, <2>4 DEF Deliverable, Other
      <3>2. \A r \in packets' : r.from # 2
        BY <1>3, <1>4, <2>4, <3>1 DEF CustodyInv, Nobody
      <3>3. owner'[1] = "ics721"
        BY <1>8, <2>1, <3>1 DEF CustodyInv, TypeOK, Chains
      <3> QED
        BY <1>6, <1>7, <2>2, <2>3, <3>2, <3>3 DEF CustodyInv
    <2>5. CASE p.from = 2
      <3>1. c = 1 /\ owner[2] = "ics721"
        BY <2>5 DEF Other, CustodyInv
      <3>2. owner'[2] = "ics721"
        BY <2>1, <3>1 DEF CustodyInv, TypeOK, Chains
      <3> QED
        BY <1>6, <1>7, <2>2, <2>3, <3>2 DEF CustodyInv, Out, Accounts
    <2> QED
      BY <1>1, <2>4, <2>5 DEF Chains
  <1> QED
    BY <1>9, <1>10

\* A refund gives the NFT back, a success leaves it to its receiver.
LEMMA SettleCustody ==
  ASSUME CustodyInv, NEW p \in packets, NEW failed \in BOOLEAN,
         failed <=> Open(p), Settle(p, failed)
  PROVE  CustodyInv'
  <1> DEFINE c == p.from
             settled == IF failed THEN p.sender ELSE IF c = 2 THEN Nobody ELSE owner[1]
  <1>1. p \in Packets /\ c \in Chains
    BY DEF CustodyInv, TypeOK, Packets
  <1>2. /\ owner' = [owner EXCEPT ![c] = settled]
        /\ packets' = packets \ {p} /\ sent' = sent
    BY <1>1 DEF Settle, Chains, CustodyInv, TypeOK
  <1>3. settled \in Owners
    BY <1>1 DEF CustodyInv, TypeOK, Chains, Packets, Owners
  <1> HIDE DEF settled
  <1>4. TypeOK'
    <2>1. owner' \in [Chains -> Owners]
      BY <1>1, <1>2, <1>3 DEF CustodyInv, TypeOK
    <2>2. received' = received /\ notified' \in [Chains -> Owners \cup {NotCalled}]
      BY <1>1, <2>1 DEF Settle, NftSent, OwnerSeen, records, CustodyInv, TypeOK
    <2> QED
      BY <1>1, <1>2, <2>1, <2>2 DEF CustodyInv, TypeOK
  <1>5. /\ \A r, t \in packets' : r.from = 2 /\ t.from = 2 => r = t
        /\ \A r, t \in packets' : Open(r) /\ Open(t) => r = t
    BY <1>2 DEF CustodyInv
  <1>6. CASE failed
    <2>1. \A r \in packets' : ~Open(r)
      BY <1>2, <1>6 DEF CustodyInv
    <2>2. owner[1] = "ics721" /\ ~Out
      BY <1>6 DEF CustodyInv
    <2>3. Out' => owner'[1] = "ics721"
      BY <1>1, <1>2, <2>2 DEF CustodyInv, TypeOK, Chains, Out
    <2>4. \A r \in packets' : r.from = 2 => owner'[2] = "ics721"
      BY <1>1, <1>2, <1>6 DEF CustodyInv, TypeOK, Chains
    <2> QED
      BY <1>4, <1>5, <2>1, <2>3, <2>4 DEF CustodyInv
  <1>7. CASE ~failed
    <2>1. /\ owner'[1] = owner[1]
          /\ owner'[2] = IF c = 2 THEN Nobody ELSE owner[2]
      BY <1>1, <1>2, <1>7 DEF CustodyInv, TypeOK, Chains, settled
    <2>2. Out' => Out
      BY <2>1 DEF Out, Nobody, Accounts
    <2>3. \A r \in packets' : r.from = 2 => owner'[2] = "ics721"
      BY <1>2, <2>1 DEF CustodyInv
    <2> QED
      BY <1>2, <1>4, <1>5, <2>1, <2>2, <2>3 DEF CustodyInv
  <1> QED
    BY <1>6, <1>7

\* Every step of the testers, the users and the relayer.
LEMMA CustodyStep == CustodyInv /\ [Next]_vars => CustodyInv'
  <1> SUFFICES ASSUME CustodyInv, [Next]_vars PROVE CustodyInv'
    OBVIOUS
  <1>1. ASSUME NEW c \in Chains, GiveToTester(c) PROVE CustodyInv'
    <2>1. /\ owner[c] = "user" /\ owner' = [owner EXCEPT ![c] = "tester"]
          /\ UNCHANGED <<packets, sent, received, notified>>
      BY <1>1 DEF GiveToTester
    <2>2. TypeOK'
      BY <2>1 DEF CustodyInv, TypeOK, Owners, Accounts
    <2>3. \A p \in packets : ~Open(p)
      BY <2>1 DEF CustodyInv, Out, Chains, Accounts
    <2>4. Out' => owner'[1] = "ics721"
      BY <2>1 DEF CustodyInv, TypeOK, Out, Chains, Accounts
    <2>5. \A p \in packets' : p.from = 2 => owner'[2] = "ics721"
      BY <2>1 DEF CustodyInv, TypeOK, Chains
    <2> QED
      BY <2>1, <2>2, <2>3, <2>4, <2>5 DEF CustodyInv
  <1>2. ASSUME UNCHANGED <<owner, packets, sent, received, notified>> PROVE CustodyInv'
    BY <1>2 DEF CustodyInv, TypeOK, Out
  <1>3. ASSUME NEW c \in Chains, StrangerCalls(c) PROVE CustodyInv'
    BY <1>2, <1>3 DEF StrangerCalls, AckCallbackOk, SenderIsIcs721, records
  <1>4. ASSUME NEW p \in packets, Acknowledge(p) \/ Timeout(p) PROVE CustodyInv'
    <2>1. p.status \in {"sent", "success", "error"}
      BY DEF CustodyInv, TypeOK, Packets
    <2>2. Acknowledge(p) => Settle(p, p.status = "error")
                            /\ (p.status = "error" <=> Open(p))
      BY <2>1 DEF Acknowledge, Open
    <2>3. Timeout(p) => Settle(p, TRUE) /\ Open(p)
      BY DEF Timeout, Open
    <2> QED
      BY <1>4, <2>2, <2>3, SettleCustody
  <1> QED
    BY <1>1, <1>2, <1>3, <1>4, SendCustody, AnswerCustody DEF Next, vars, records

\* An open packet has the NFT, and nobody has it twice.
THEOREM CustodyKept == Spec => []CustodyInv
  BY InitCustody, CustodyStep, PTL DEF Spec

\* A packet gets the next number, and keeps it.
LEMMA NumberedStep == CustodyInv /\ Numbered /\ [Next]_vars => Numbered'
  <1> SUFFICES ASSUME CustodyInv, Numbered, [Next]_vars PROVE Numbered'
    OBVIOUS
  <1>1. packets \subseteq Packets /\ sent \in Nat
    BY DEF CustodyInv, TypeOK
  <1>2. ASSUME packets' \subseteq packets, sent' = sent PROVE Numbered'
    BY <1>2 DEF Numbered
  <1>3. ASSUME NEW c \in Chains, NEW sender \in Accounts, NEW receiver \in Accounts,
               NEW onReceive \in ReceiveMemos, NEW onAck \in AckMemos,
               SendNft(c, sender, receiver, onReceive, onAck)
        PROVE  Numbered'
    <2>1. PICK p : packets' = packets \cup {p} /\ p.seq = sent + 1 /\ sent' = sent + 1
      BY <1>3 DEF SendNft
    <2>2. \A q \in packets : q.seq \in Nat /\ q.seq <= sent
      BY <1>1 DEF Packets, Numbered
    <2> QED
      BY <1>1, <2>1, <2>2 DEF Numbered
  <1>4. ASSUME NEW p \in packets, Receive(p) \/ Reject(p) PROVE Numbered'
    <2>1. PICK st \in {"success", "error"} :
            packets' = (packets \ {p}) \cup {[p EXCEPT !.status = st]} /\ sent' = sent
      BY <1>4 DEF Receive, Reject
    <2>2. [p EXCEPT !.status = st].seq = p.seq
      BY <1>1 DEF Packets
    <2> QED
      BY <2>1, <2>2 DEF Numbered
  <1>5. ASSUME NEW p \in packets, Acknowledge(p) \/ Timeout(p) PROVE Numbered'
    BY <1>2, <1>5 DEF Acknowledge, Timeout, Settle
  <1> QED
    BY <1>2, <1>3, <1>4, <1>5 DEF Next, vars, GiveToTester, StrangerCalls

\* The callback of a receipt finds the NFT with its receiver.
LEMMA SeenOnReceipt ==
  ASSUME CustodyInv, Numbered, Next, NEW p \in packets, Delivered(p),
         Asks(p.onReceive, p.receiver, "NftReceived")
  PROVE  received'[Other(p.from)] = p.receiver
  <1>1. packets \subseteq Packets /\ sent \in Nat /\ p \in Packets
    BY DEF CustodyInv, TypeOK
  <1>2. p.status = "sent"
    BY DEF Delivered
  <1>3. PICK q \in packets' : q.seq = p.seq /\ q.status = "success"
    BY DEF Delivered
  <1>4. q \notin packets
    BY <1>2, <1>3 DEF Numbered
  <1>5. ASSUME NEW c \in Chains, NEW sender \in Accounts, NEW receiver \in Accounts,
               NEW onReceive \in ReceiveMemos, NEW onAck \in AckMemos,
               SendNft(c, sender, receiver, onReceive, onAck)
        PROVE  FALSE
    <2>1. q.seq = sent + 1
      BY <1>4, <1>5 DEF SendNft
    <2>2. p.seq \in Nat /\ p.seq <= sent
      BY <1>1 DEF Packets, Numbered
    <2> QED
      BY <1>1, <1>3, <2>1, <2>2
  <1>6. ASSUME NEW r \in packets, Receive(r) \/ Reject(r) PROVE r = p /\ Receive(p)
    <2>1. PICK st \in {"success", "error"} :
            packets' = (packets \ {r}) \cup {[r EXCEPT !.status = st]}
      BY <1>6 DEF Receive, Reject
    <2>2. q = [r EXCEPT !.status = st] /\ r \in Packets
      BY <1>1, <1>4, <2>1
    <2>3. r = p
      BY <1>3, <2>2 DEF Packets, Numbered
    <2>4. ASSUME Reject(r) PROVE FALSE
      <3>1. q = [r EXCEPT !.status = "error"]
        BY <1>4, <2>4 DEF Reject
      <3> QED
        BY <1>3, <2>2, <3>1 DEF Packets
    <2> QED
      BY <1>6, <2>3, <2>4
  <1>7. Receive(p)
    <2>1. ~(packets' \subseteq packets)
      BY <1>4
    <2> QED
      BY <1>5, <1>6, <2>1
      DEF Next, GiveToTester, StrangerCalls, Acknowledge, Timeout, Settle
  <1>8. Other(p.from) \in Chains
    BY <1>1 DEF Packets, Chains, Other
  <1>9. owner'[Other(p.from)] = p.receiver
    BY <1>7, <1>8 DEF Receive, CustodyInv, TypeOK
  <1> QED
    BY <1>7, <1>8, <1>9 DEF Receive, Asks, NftReceived, OwnerSeen, CustodyInv, TypeOK

\* The callback of a settlement finds the NFT where the outcome has left it.
LEMMA SeenOnSettlement ==
  ASSUME CustodyInv, Next, NEW p \in packets, Settled(p), Asks(p.onAck, p.sender, "NftSent")
  PROVE  LET seen == notified'[p.from] IN
         /\ p.status # "success" => seen = p.sender
         /\ p.status = "success" /\ p.from = 2 => seen = Nobody
         /\ p.status = "success" /\ p.from = 1 /\ Out => seen = "ics721"
  <1>1. p \in Packets /\ p \notin packets'
    BY DEF CustodyInv, TypeOK, Settled
  <1>2. ASSUME NEW q \in packets, Receive(q) \/ Reject(q) PROVE FALSE
    <2>1. q \in Packets
      BY DEF CustodyInv, TypeOK
    <2>2. PICK st \in {"success", "error"} :
            packets' = (packets \ {q}) \cup {[q EXCEPT !.status = st]}
      BY <1>2 DEF Receive, Reject
    <2>3. p = q
      BY <1>1, <2>2
    <2>4. [q EXCEPT !.status = st].seq = p.seq
      BY <2>1, <2>3 DEF Packets
    <2> QED
      BY <2>2, <2>4 DEF Settled
  <1>3. ~(packets \subseteq packets')
    BY <1>1
  <1>4. PICK q \in packets : Acknowledge(q) \/ Timeout(q)
    BY <1>2, <1>3 DEF Next, GiveToTester, StrangerCalls, SendNft
  <1>5. p = q
    BY <1>1, <1>4 DEF Acknowledge, Timeout, Settle
  <1>6. PICK failed \in BOOLEAN : Settle(p, failed) /\ (failed <=> p.status # "success")
    <2>1. p.status \in {"sent", "success", "error"}
      BY <1>1 DEF Packets
    <2>2. CASE Acknowledge(p)
      BY <2>1, <2>2 DEF Acknowledge
    <2>3. CASE Timeout(p)
      BY <2>1, <2>3 DEF Timeout
    <2> QED
      BY <1>4, <1>5, <2>2, <2>3
  <1>7. p.from \in Chains
    BY <1>1 DEF Packets
  <1>8. owner'[p.from] = IF failed THEN p.sender
                         ELSE IF p.from = 2 THEN Nobody ELSE owner[p.from]
    BY <1>6, <1>7 DEF Settle, CustodyInv, TypeOK
  <1>9. notified'[p.from] = owner'[p.from]
    <2>1. Noticed(p)
      BY DEF Noticed, Asks, AckCallbackOk, SenderIsIcs721
    <2> QED
      BY <1>6, <1>7, <2>1 DEF Settle, NftSent, OwnerSeen, CustodyInv, TypeOK
  <1> QED
    BY <1>6, <1>8, <1>9 DEF CustodyInv

\* Whoever the NFT is of, and whoever is called: a callback finds the NFT where the
\* receipt or the settlement has put it.
THEOREM CallbacksAreTold == Spec => CallbacksSeeOutcome
  <1> DEFINE Told == \A p \in packets :
               /\ Delivered(p) /\ Asks(p.onReceive, p.receiver, "NftReceived") =>
                    received'[Other(p.from)] = p.receiver
               /\ Settled(p) /\ Asks(p.onAck, p.sender, "NftSent") =>
                    LET seen == notified'[p.from] IN
                    /\ p.status # "success" => seen = p.sender
                    /\ p.status = "success" /\ p.from = 2 => seen = Nobody
                    /\ p.status = "success" /\ p.from = 1 /\ Out => seen = "ics721"
  <1>1. Init => Numbered
    BY DEF Init, Numbered
  <1>2. CustodyInv /\ Numbered /\ [Next]_vars => [Told]_vars
    BY SeenOnReceipt, SeenOnSettlement
  <1>3. CallbacksSeeOutcome <=> [][Told]_vars
    BY PTL DEF CallbacksSeeOutcome
  <1> QED
    BY <1>1, <1>2, <1>3, NumberedStep, CustodyKept, PTL DEF Spec
===============================================================================
