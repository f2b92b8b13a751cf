------------------------- MODULE Ics721Receive_proofs -------------------------
(***************************************************************************)
(* Proofs about Ics721Receive: whatever tokens a packet brings and         *)
(* whatever its callback does, the callback sees its NFTs delivered, and   *)
(* the maps of the vouchers agree after the transaction.                   *)
(***************************************************************************)
EXTENDS Ics721Receive, SequenceTheorems, TLAPS

\* Which messages may be left when message c is handled: those of the operands
\* after its own, and its siblings.
Entries == {"RedeemOutgoingChannelEntries", "AddIncomingChannelEntries"}
CalleeCalls == {"Pause", "GiveNft", "SendNft", "ReceiveNft"}

MayFollow(c, d) ==
  \/ d \in Entries /\ c \notin Entries
  \/ d = "Callback" /\ c \notin Entries \cup CalleeCalls \cup {"Callback"}
  \/ d \in {"RedeemVouchers", "CreateVouchers"} /\ c \in {"Conjunction", "Proxy"}
  \/ d = "Proxy" /\ c = "Conjunction"
  \/ d = "Mint" /\ c = "Instantiate"
  \/ d = c /\ c \in {"TransferNft", "MintNft"}

Ordered(q) == \A i, j \in DOMAIN q : i < j => MayFollow(q[i][1], q[j][1])

-------------------------------------------------------------------------------
(* The invariant.                                                            *)

\* What the maps of chain state st say of NFT s when no receipt is running.
RecordedAt(st, s) ==
  /\ s \in st.metadata <=> st.incoming[s] # NoEnd
  /\ s \in st.metadata => s[1] \in st.registry
  /\ st.owner[s] # Nobody => Via[s[1]] = NoEnd \/ st.incoming[s] # NoEnd
Recorded(st) == \A s \in Nft : RecordedAt(st, s)

\* A call is left in the set T of messages.
Left(T, calls) == \E m \in T : m[1] \in calls
LeftFor(T, s) == \E m \in T : m[1] \in {"TransferNft", "MintNft"} /\ m[2] = s

\* Vouchers are minted and their data stored before their channel is.
MapsOf(p, st, T) ==
  /\ Left(T, {"CreateVouchers", "Instantiate", "Mint", "MintNft"}) =>
       Left(T, {"AddIncomingChannelEntries"})
  /\ IF Left(T, {"AddIncomingChannelEntries"}) /\ ~Left(T, {"CreateVouchers", "Mint"})
     THEN \A s \in Nft : IF s \in NftsOf(p)
                         THEN s \in st.metadata /\ s[1] \in st.registry
                         ELSE RecordedAt(st, s)
     ELSE Recorded(st)

\* What the callback is going to see is there, or has its message left.
DeliveryOf(p, st, T) ==
  Left(T, {"Callback"}) /\ ~Left(T, {"RedeemVouchers", "CreateVouchers"}) =>
    /\ p.class \in st.registry
    /\ \A s \in NftsOf(p) :
         st.owner[s] = p.receiver \/ Left(T, {"Mint"}) \/ LeftFor(T, s)

\* The messages are about the packet.
MessagesOf(p, T) ==
  /\ \A m \in T : m[1] \in {"TransferNft", "MintNft"} => m[2] \in NftsOf(p)
  /\ Left(T, CalleeCalls \cup {"Callback"}) => p.callback \in Users

ReceiptInv(p, st, T) ==
  MessagesOf(p, T) /\ MapsOf(p, st, T) /\ DeliveryOf(p, st, T)

ReceiveInv ==
  /\ TypeOK /\ todo \in Seq(Messages)
  /\ Recorded(saved)
  /\ Ordered(todo)
  /\ current # NoPacket => ReceiptInv(current, store, ToSet(todo))

-------------------------------------------------------------------------------
(* Sequences of messages.                                                    *)

LEMMA ConcatSet ==
  ASSUME NEW S, NEW a \in Seq(S), NEW b \in Seq(S)
  PROVE  a \o b \in Seq(S) /\ ToSet(a \o b) = ToSet(a) \cup ToSet(b)
  <1>1. /\ a \o b \in Seq(S) /\ Len(a \o b) = Len(a) + Len(b)
        /\ \A i \in 1..Len(a) + Len(b) :
             (a \o b)[i] = IF i <= Len(a) THEN a[i] ELSE b[i - Len(a)]
    BY ConcatProperties
  <1>2. /\ Len(a) \in Nat /\ Len(b) \in Nat
        /\ DOMAIN a = 1..Len(a) /\ DOMAIN b = 1..Len(b)
        /\ DOMAIN (a \o b) = 1..Len(a) + Len(b)
    BY <1>1, LenProperties
  <1>3. ASSUME NEW i \in 1..Len(a) PROVE a[i] \in ToSet(a \o b)
    <2>1. i \in DOMAIN (a \o b) /\ (a \o b)[i] = a[i]
      BY <1>1, <1>2
    <2> QED
      BY <2>1 DEF ToSet
  <1>4. ASSUME NEW i \in 1..Len(b) PROVE b[i] \in ToSet(a \o b)
    <2>1. i + Len(a) \in DOMAIN (a \o b) /\ (a \o b)[i + Len(a)] = b[i]
      BY <1>1, <1>2
    <2> QED
      BY <2>1 DEF ToSet
  <1>5. ASSUME NEW i \in DOMAIN (a \o b)
        PROVE  (a \o b)[i] \in ToSet(a) \cup ToSet(b)
    <2>1. CASE i <= Len(a)
      BY <1>1, <1>2, <2>1 DEF ToSet
    <2>2. CASE ~(i <= Len(a))
      <3>1. i - Len(a) \in DOMAIN b /\ (a \o b)[i] = b[i - Len(a)]
        BY <1>1, <1>2, <2>2
      <3> QED
        BY <3>1 DEF ToSet
    <2> QED
      BY <2>1, <2>2
  <1> QED
    BY <1>1, <1>2, <1>3, <1>4, <1>5 DEF ToSet

LEMMA ConcatOrdered ==
  ASSUME NEW S, NEW a \in Seq(S), NEW b \in Seq(S), Ordered(a), Ordered(b),
         \A x \in ToSet(a), y \in ToSet(b) : MayFollow(x[1], y[1])
  PROVE  Ordered(a \o b)
  <1>1. /\ Len(a \o b) = Len(a) + Len(b)
        /\ \A i \in 1..Len(a) + Len(b) :
             (a \o b)[i] = IF i <= Len(a) THEN a[i] ELSE b[i - Len(a)]
        /\ a \o b \in Seq(S)
    BY ConcatProperties
  <1>2. /\ Len(a) \in Nat /\ Len(b) \in Nat
        /\ DOMAIN a = 1..Len(a) /\ DOMAIN b = 1..Len(b)
        /\ DOMAIN (a \o b) = 1..Len(a) + Len(b)
    BY <1>1, LenProperties
  <1> SUFFICES ASSUME NEW i \in 1..Len(a) + Len(b), NEW j \in 1..Len(a) + Len(b), i < j
               PROVE  MayFollow((a \o b)[i][1], (a \o b)[j][1])
    BY <1>2 DEF Ordered
  <1>3. CASE j <= Len(a)
    <2>1. i \in DOMAIN a /\ j \in DOMAIN a /\ (a \o b)[i] = a[i] /\ (a \o b)[j] = a[j]
      BY <1>1, <1>2, <1>3
    <2> QED
      BY <2>1 DEF Ordered
  <1>4. CASE ~(i <= Len(a))
    <2>1. /\ i - Len(a) \in DOMAIN b /\ j - Len(a) \in DOMAIN b
          /\ i - Len(a) < j - Len(a)
          /\ (a \o b)[i] = b[i - Len(a)] /\ (a \o b)[j] = b[j - Len(a)]
      BY <1>1, <1>2, <1>4
    <2> QED
      BY <2>1 DEF Ordered
  <1>5. CASE i <= Len(a) /\ ~(j <= Len(a))
    <2>1. /\ i \in DOMAIN a /\ j - Len(a) \in DOMAIN b
          /\ (a \o b)[i] = a[i] /\ (a \o b)[j] = b[j - Len(a)]
      BY <1>1, <1>2, <1>5
    <2>2. (a \o b)[i] \in ToSet(a) /\ (a \o b)[j] \in ToSet(b)
      BY <2>1 DEF ToSet
    <2> QED
      BY <2>2
  <1> QED
    BY <1>3, <1>4, <1>5

LEMMA TailSet ==
  ASSUME NEW S, NEW q \in Seq(S), q # << >>
  PROVE  /\ Head(q) \in S /\ Tail(q) \in Seq(S)
         /\ ToSet(q) = {Head(q)} \cup ToSet(Tail(q))
         /\ Ordered(q) => /\ Ordered(Tail(q))
                          /\ \A y \in ToSet(Tail(q)) : MayFollow(Head(q)[1], y[1])
  <1>1. /\ Head(q) \in S /\ Tail(q) \in Seq(S) /\ Len(Tail(q)) = Len(q) - 1
        /\ \A i \in 1..Len(Tail(q)) : Tail(q)[i] = q[i + 1]
    BY HeadTailProperties
  <1>2. /\ Len(q) \in Nat \ {0} /\ DOMAIN q = 1..Len(q)
        /\ DOMAIN Tail(q) = 1..(Len(q) - 1)
    BY <1>1, LenProperties, EmptySeq
  <1>3. Head(q) = q[1] /\ 1 \in DOMAIN q
    BY <1>2
  <1>4. ASSUME NEW i \in DOMAIN q PROVE q[i] \in {Head(q)} \cup ToSet(Tail(q))
    <2>1. CASE i = 1
      BY <1>3, <2>1
    <2>2. CASE i # 1
      <3>1. i - 1 \in DOMAIN Tail(q) /\ Tail(q)[i - 1] = q[i]
        BY <1>1, <1>2, <2>2
      <3> QED
        BY <3>1 DEF ToSet
    <2> QED
      BY <2>1, <2>2
  <1>5. ASSUME NEW i \in DOMAIN Tail(q)
        PROVE  /\ i + 1 \in DOMAIN q /\ Tail(q)[i] = q[i + 1] /\ 1 < i + 1
    BY <1>1, <1>2
  <1>6. ToSet(q) = {Head(q)} \cup ToSet(Tail(q))
    BY <1>3, <1>4, <1>5 DEF ToSet
  <1>7. ASSUME Ordered(q), NEW i \in DOMAIN Tail(q), NEW j \in DOMAIN Tail(q), i < j
        PROVE  MayFollow(Tail(q)[i][1], Tail(q)[j][1])
    <2>1. i + 1 < j + 1
      BY <1>1, <1>2, <1>7
    <2> QED
      BY <1>5, <1>7, <2>1 DEF Ordered
  <1>8. ASSUME Ordered(q), NEW y \in ToSet(Tail(q))
        PROVE  MayFollow(Head(q)[1], y[1])
    <2>1. PICK i \in DOMAIN Tail(q) : y = Tail(q)[i]
      BY DEF ToSet
    <2> QED
      BY <1>3, <1>5, <1>8, <2>1 DEF Ordered
  <1> QED
    BY <1>1, <1>6, <1>7, <1>8 DEF Ordered

LEMMA EmptyMessages == << >> \in Seq(Messages) /\ ToSet(<< >>) = {} /\ Ordered(<< >>)
  BY EmptySeq DEF ToSet, Ordered

LEMMA OneMessage ==
  ASSUME NEW m \in Messages
  PROVE  <<m>> \in Seq(Messages) /\ ToSet(<<m>>) = {m} /\ Ordered(<<m>>)
  BY DEF ToSet, Ordered

LEMMA EachTokenMessages ==
  ASSUME current \in Packet, NEW call \in {"TransferNft", "MintNft"}
  PROVE  /\ EachToken(call) \in Seq(Messages)
         /\ ToSet(EachToken(call)) = {<<call, s>> : s \in NftsOf(current)}
         /\ Ordered(EachToken(call))
  <1>1. PICK n \in 1..MaxTokens : current.tokens \in [1..n -> Tokens]
    BY DEF Packet
  <1>2. current.class \in Classes /\ DOMAIN current.tokens = 1..n /\ n \in Nat
    BY <1>1 DEF Packet
  <1>3. \A i \in 1..n : <<call, <<current.class, current.tokens[i]>> >> \in Messages
    BY <1>1, <1>2 DEF Messages, Nft
  <1>4. EachToken(call) = [i \in 1..n |-> <<call, <<current.class, current.tokens[i]>> >>]
    BY <1>2 DEF EachToken
  <1>5. EachToken(call) \in [1..n -> Messages]
    BY <1>3, <1>4
  <1>6. EachToken(call) \in Seq(Messages)
    BY <1>2, <1>5, SeqDef
  <1>7. ToSet(EachToken(call)) = {<<call, s>> : s \in NftsOf(current)}
    BY <1>2, <1>4 DEF ToSet, NftsOf
  <1>8. Ordered(EachToken(call))
    <2>1. \A i \in 1..n : EachToken(call)[i][1] = call
      BY <1>4
    <2> QED
      BY <1>4, <2>1 DEF Ordered, MayFollow
  <1> QED
    BY <1>6, <1>7, <1>8

-------------------------------------------------------------------------------
(* One message.                                                              *)

\* What handling message m does to the messages that are left.
Follows(m, emitted) ==
  /\ emitted \in Seq(Messages) /\ Ordered(emitted)
  /\ \A e \in ToSet(emitted) : \A y \in Messages :
       MayFollow(m[1], y[1]) => MayFollow(e[1], y[1])

LEMMA NothingFollows ==
  ASSUME NEW m PROVE Follows(m, << >>)
  BY EmptyMessages DEF Follows

LEMMA HandleLeaves ==
  ASSUME ReceiveInv, NEW m, NEW st, NEW emitted, Handle(m, st, emitted),
         Follows(m, emitted)
  PROVE  \E R \in SUBSET Messages :
           /\ ToSet(todo) = {m} \cup R /\ ToSet(todo') = ToSet(emitted) \cup R
           /\ \A y \in R : MayFollow(m[1], y[1])
           /\ todo' \in Seq(Messages) /\ Ordered(todo')
  <1> DEFINE R == ToSet(Tail(todo))
  <1>1. /\ todo \in Seq(Messages) /\ todo # << >> /\ Head(todo) = m /\ Ordered(todo)
        /\ todo' = emitted \o Tail(todo) /\ emitted \in Seq(Messages) /\ Ordered(emitted)
    BY DEF ReceiveInv, Handle, Follows
  <1>2. /\ Tail(todo) \in Seq(Messages) /\ ToSet(todo) = {m} \cup R
        /\ Ordered(Tail(todo)) /\ \A y \in R : MayFollow(m[1], y[1])
    BY <1>1, TailSet
  <1>3. todo' \in Seq(Messages) /\ ToSet(todo') = ToSet(emitted) \cup R
    BY <1>1, <1>2, ConcatSet
  <1>4. R \in SUBSET Messages
    <2>1. DOMAIN Tail(todo) = 1..Len(Tail(todo))
      BY <1>2, LenProperties
    <2> QED
      BY <1>2, <2>1, ElementOfSeq DEF ToSet
  <1>5. Ordered(todo')
    <2>1. \A e \in ToSet(emitted), y \in R : MayFollow(e[1], y[1])
      BY <1>2, <1>4 DEF Follows
    <2> HIDE DEF R
    <2> QED
      BY <1>1, <1>2, <2>1, ConcatOrdered DEF R
  <1> QED
    BY <1>2, <1>3, <1>4, <1>5

LEMMA HandleKeepsInv ==
  ASSUME ReceiveInv, current # NoPacket, NEW m, NEW st \in Stores, NEW emitted,
         Handle(m, st, emitted), Follows(m, emitted),
         \A R \in SUBSET Messages :
           /\ ReceiptInv(current, store, {m} \cup R)
           /\ \A y \in R : MayFollow(m[1], y[1])
           => ReceiptInv(current, st, ToSet(emitted) \cup R)
  PROVE  ReceiveInv'
  <1>1. PICK R \in SUBSET Messages :
          /\ ToSet(todo) = {m} \cup R /\ ToSet(todo') = ToSet(emitted) \cup R
          /\ \A y \in R : MayFollow(m[1], y[1])
          /\ todo' \in Seq(Messages) /\ Ordered(todo')
    BY HandleLeaves
  <1>2. /\ store' = st /\ UNCHANGED <<saved, current, acked>>
    BY DEF Handle
  <1>3. ReceiptInv(current, st, ToSet(todo'))
    BY <1>1 DEF ReceiveInv
  <1>4. ReceiptInv(current, store, ToSet(todo))'
    BY <1>2, <1>3 DEF ReceiptInv, MessagesOf, MapsOf, DeliveryOf, Recorded, RecordedAt,
                      NftsOf
  <1>5. \A i \in DOMAIN todo' : todo'[i] \in Messages
    BY <1>1, LenProperties, ElementOfSeq
  <1> QED
    BY <1>1, <1>2, <1>4, <1>5
    DEF ReceiveInv, TypeOK, Recorded, RecordedAt
-------------------------------------------------------------------------------
(* Messages that leave the vouchers' maps as they are.                       *)

\* st2 keeps what is recorded in st.
Keeps(st, st2) ==
  /\ \A s \in Nft : RecordedAt(st, s) => RecordedAt(st2, s)
  /\ st.registry \subseteq st2.registry /\ st.metadata \subseteq st2.metadata

LEMMA QuietMaps ==
  ASSUME NEW p, NEW st, NEW st2, Keeps(st, st2), NEW m, NEW E, NEW R,
         MapsOf(p, st, {m} \cup R),
         m[1] \notin {"CreateVouchers", "Mint", "AddIncomingChannelEntries"},
         ~Left(E, {"CreateVouchers", "Instantiate", "Mint", "MintNft",
                   "AddIncomingChannelEntries"})
  PROVE  MapsOf(p, st2, E \cup R)
  <1> DEFINE T == {m} \cup R
             T2 == E \cup R
  <1>1. /\ Left(T, {"AddIncomingChannelEntries"}) <=> Left(T2, {"AddIncomingChannelEntries"})
        /\ Left(T, {"CreateVouchers", "Mint"}) <=> Left(T2, {"CreateVouchers", "Mint"})
        /\ Left(T2, {"CreateVouchers", "Instantiate", "Mint", "MintNft"}) =>
             Left(T, {"CreateVouchers", "Instantiate", "Mint", "MintNft"})
    BY DEF Left
  <1> HIDE DEF T, T2
  <1>2. MapsOf(p, st, T) => MapsOf(p, st2, T2)
    BY <1>1 DEF MapsOf, Keeps, Recorded
  <1> QED
    BY <1>2 DEF T, T2

LEMMA QuietDelivery ==
  ASSUME NEW p, NEW st, NEW st2, st.registry \subseteq st2.registry,
         NEW m, NEW E, NEW R, DeliveryOf(p, st, {m} \cup R),
         m[1] \notin {"RedeemVouchers", "CreateVouchers", "Mint", "TransferNft", "MintNft"},
         ~Left(E, {"Callback"}),
         Left(R, {"Callback"}) => st2.owner = st.owner
  PROVE  DeliveryOf(p, st2, E \cup R)
  <1> SUFFICES ASSUME Left(E \cup R, {"Callback"}),
                      ~Left(E \cup R, {"RedeemVouchers", "CreateVouchers"})
               PROVE  /\ p.class \in st2.registry
                      /\ \A s \in NftsOf(p) :
                           \/ st2.owner[s] = p.receiver
                           \/ Left(E \cup R, {"Mint"}) \/ LeftFor(E \cup R, s)
    BY DEF DeliveryOf
  <1>1. /\ Left(R, {"Callback"}) /\ Left({m} \cup R, {"Callback"})
        /\ ~Left({m} \cup R, {"RedeemVouchers", "CreateVouchers"})
    BY DEF Left
  <1>2. /\ p.class \in st.registry /\ st2.owner = st.owner
        /\ \A s \in NftsOf(p) : \/ st.owner[s] = p.receiver
                               \/ Left({m} \cup R, {"Mint"}) \/ LeftFor({m} \cup R, s)
    BY <1>1 DEF DeliveryOf
  <1>3. Left({m} \cup R, {"Mint"}) => Left(E \cup R, {"Mint"})
    BY DEF Left
  <1>4. \A s : LeftFor({m} \cup R, s) => LeftFor(E \cup R, s)
    BY DEF LeftFor
  <1> QED
    BY <1>2, <1>3, <1>4

LEMMA StoreKeeps ==
  ASSUME NEW st \in Stores, NEW st2 \in Stores,
         st2.metadata = st.metadata, st2.incoming = st.incoming,
         st.registry \subseteq st2.registry,
         \A s \in Nft : st.owner[s] = Nobody => st2.owner[s] = Nobody
  PROVE  Keeps(st, st2)
  BY DEF Keeps, RecordedAt

\* Conjunction, the proxy and the instantiation change nothing here.
LEMMA NothingKeepsInv ==
  ASSUME ReceiveInv, current # NoPacket, Conjunction \/ Proxy \/ Instantiate
  PROVE  ReceiveInv'
  <1>1. PICK m \in {<<"Conjunction">>, <<"Proxy">>, <<"Instantiate">>} :
          Handle(m, store, << >>)
    BY DEF Conjunction, Proxy, Instantiate
  <1>2. m[1] \in {"Conjunction", "Proxy", "Instantiate"} /\ store \in Stores
    BY DEF ReceiveInv, TypeOK
  <1>3. Keeps(store, store)
    BY DEF Keeps
  <1>4. ASSUME NEW R \in SUBSET Messages, ReceiptInv(current, store, {m} \cup R)
        PROVE  ReceiptInv(current, store, {} \cup R)
    <2>1. MapsOf(current, store, {} \cup R)
      BY <1>2, <1>3, <1>4, QuietMaps DEF ReceiptInv, Left
    <2>2. DeliveryOf(current, store, {} \cup R)
      BY <1>2, <1>4, QuietDelivery DEF ReceiptInv, Left
    <2>3. MessagesOf(current, {} \cup R)
      BY <1>4 DEF ReceiptInv, MessagesOf, Left
    <2> QED
      BY <2>1, <2>2, <2>3 DEF ReceiptInv
  <1> QED
    BY <1>1, <1>2, <1>4, EmptyMessages, NothingFollows, HandleKeepsInv

LEMMA RedeemVouchersKeepsInv ==
  ASSUME ReceiveInv, current # NoPacket, RedeemVouchers
  PROVE  ReceiveInv'
  <1> DEFINE m == <<"RedeemVouchers">>
             E == {<<"TransferNft", s>> : s \in NftsOf(current)}
  <1>1. Handle(m, store, EachToken("TransferNft")) /\ ~Fails(m)
    BY DEF RedeemVouchers, Handle
  <1>2. current \in Packet /\ store \in Stores /\ m[1] = "RedeemVouchers"
    BY DEF ReceiveInv, TypeOK
  <1>3. current.class \in store.registry
    BY <1>1 DEF Fails
  <1>4. Follows(m, EachToken("TransferNft")) /\ ToSet(EachToken("TransferNft")) = E
    BY <1>2, EachTokenMessages DEF Follows, MayFollow, Entries, CalleeCalls
  <1>5. ASSUME NEW R \in SUBSET Messages, ReceiptInv(current, store, {m} \cup R),
               \A y \in R : MayFollow(m[1], y[1])
        PROVE  ReceiptInv(current, store, E \cup R)
    <2>1. \A e \in E : e[1] = "TransferNft" /\ e[2] \in NftsOf(current)
      OBVIOUS
    <2>2. ASSUME NEW s \in NftsOf(current) PROVE LeftFor(E \cup R, s)
      <3> DEFINE e == <<"TransferNft", s>>
      <3>1. e \in E \cup R /\ e[1] = "TransferNft" /\ e[2] = s
        OBVIOUS
      <3> HIDE DEF e, E
      <3> QED
        BY <3>1 DEF LeftFor
    <2> HIDE DEF E, m
    <2>3. Keeps(store, store)
      BY DEF Keeps
    <2>4. MapsOf(current, store, E \cup R)
      BY <1>2, <1>5, <2>1, <2>3, QuietMaps DEF ReceiptInv, Left
    <2>5. DeliveryOf(current, store, E \cup R)
      BY <1>3, <2>2 DEF DeliveryOf
    <2>6. MessagesOf(current, E \cup R)
      BY <1>5, <2>1 DEF ReceiptInv, MessagesOf, Left, CalleeCalls
    <2> QED
      BY <2>4, <2>5, <2>6 DEF ReceiptInv
  <1> HIDE DEF E, m
  <1> QED
    BY <1>1, <1>2, <1>4, <1>5, HandleKeepsInv

LEMMA TransferNftKeepsInv ==
  ASSUME ReceiveInv, current # NoPacket, NEW s \in Nft, TransferNft(s)
  PROVE  ReceiveInv'
  <1> DEFINE m == <<"TransferNft", s>>
             st == Own(store, s, current.receiver)
  <1>1. Handle(m, st, << >>) /\ ~Fails(m)
    BY DEF TransferNft, Handle
  <1>2. /\ current \in Packet /\ store \in Stores /\ current.receiver \in Users
        /\ m[1] = "TransferNft" /\ m[2] = s
    BY DEF ReceiveInv, TypeOK, Packet
  <1>3. store.owner[s] = Ics721 /\ Ics721 # Nobody
    BY <1>1, ReceiveAssumption DEF Fails
  <1>4. /\ st \in Stores /\ st.owner = [store.owner EXCEPT ![s] = current.receiver]
        /\ st.metadata = store.metadata /\ st.incoming = store.incoming
        /\ st.registry = store.registry
    BY <1>2 DEF Own, Stores
  <1>5. Keeps(store, st)
    BY <1>2, <1>3, <1>4, StoreKeeps DEF Stores
  <1> HIDE DEF m, st
  <1>6. ASSUME NEW R \in SUBSET Messages, ReceiptInv(current, store, {m} \cup R)
        PROVE  ReceiptInv(current, st, {} \cup R)
    <2>1. MapsOf(current, st, {} \cup R)
      BY <1>2, <1>5, <1>6, QuietMaps DEF ReceiptInv, Left
    <2>2. DeliveryOf(current, st, R)
      BY <1>2, <1>4, <1>6 DEF ReceiptInv, DeliveryOf, Left, LeftFor, Stores
    <2>3. MessagesOf(current, {} \cup R)
      BY <1>6 DEF ReceiptInv, MessagesOf, Left
    <2> QED
      BY <2>1, <2>2, <2>3 DEF ReceiptInv
  <1> QED
    BY <1>1, <1>4, <1>6, EmptyMessages, NothingFollows, HandleKeepsInv

LEMMA RedeemOutgoingKeepsInv ==
  ASSUME ReceiveInv, current # NoPacket, RedeemOutgoingChannelEntries
  PROVE  ReceiveInv'
  <1> DEFINE m == <<"RedeemOutgoingChannelEntries">>
             st == [store EXCEPT !.outgoing =
                      [s \in Nft |-> IF s \in NftsOf(current) THEN NoEnd ELSE @[s]]]
  <1>1. Handle(m, st, << >>)
    BY DEF RedeemOutgoingChannelEntries
  <1>2. store \in Stores /\ m[1] = "RedeemOutgoingChannelEntries"
    BY DEF ReceiveInv, TypeOK
  <1>3. /\ st \in Stores /\ st.owner = store.owner /\ st.registry = store.registry
        /\ st.metadata = store.metadata /\ st.incoming = store.incoming
    BY <1>2 DEF Stores
  <1>4. Keeps(store, st)
    BY <1>2, <1>3, StoreKeeps
  <1> HIDE DEF m, st
  <1>5. ASSUME NEW R \in SUBSET Messages, ReceiptInv(current, store, {m} \cup R)
        PROVE  ReceiptInv(current, st, {} \cup R)
    <2>1. MapsOf(current, st, {} \cup R)
      BY <1>2, <1>4, <1>5, QuietMaps DEF ReceiptInv, Left
    <2>2. DeliveryOf(current, st, {} \cup R)
      BY <1>2, <1>3, <1>5, QuietDelivery DEF ReceiptInv, Left
    <2>3. MessagesOf(current, {} \cup R)
      BY <1>5 DEF ReceiptInv, MessagesOf, Left
    <2> QED
      BY <2>1, <2>2, <2>3 DEF ReceiptInv
  <1> QED
    BY <1>1, <1>3, <1>5, EmptyMessages, NothingFollows, HandleKeepsInv

-------------------------------------------------------------------------------
(* The callback, and what it calls.                                          *)

\* A message of the callback emits at most one more, and changes the store so
\* that nobody's voucher goes to anyone.
LEMMA CalleeKeepsInv ==
  ASSUME ReceiveInv, current # NoPacket,
         NEW m, m[1] \in CalleeCalls \cup {"Callback"},
         NEW st \in Stores, st.metadata = store.metadata, st.incoming = store.incoming,
         store.registry \subseteq st.registry,
         \A s \in Nft : store.owner[s] = Nobody => st.owner[s] = Nobody,
         NEW emitted \in Seq(Messages), Handle(m, st, emitted), Ordered(emitted),
         \A e \in ToSet(emitted) : e[1] \in CalleeCalls
  PROVE  ReceiveInv'
  <1>1. Follows(m, emitted)
    BY DEF Follows, MayFollow, CalleeCalls, Entries
  <1>2. Keeps(store, st)
    BY StoreKeeps DEF ReceiveInv, TypeOK
  <1>3. ASSUME NEW R \in SUBSET Messages, ReceiptInv(current, store, {m} \cup R),
               \A y \in R : MayFollow(m[1], y[1])
        PROVE  ReceiptInv(current, st, ToSet(emitted) \cup R)
    <2>1. MapsOf(current, st, ToSet(emitted) \cup R)
      BY <1>2, <1>3, QuietMaps DEF ReceiptInv, Left, CalleeCalls
    <2>2. ~Left(R, {"Callback"}) /\ ~Left(ToSet(emitted), {"Callback"})
      BY <1>3 DEF Left, MayFollow, CalleeCalls, Entries
    <2>3. DeliveryOf(current, st, ToSet(emitted) \cup R)
      BY <2>2 DEF DeliveryOf, Left
    <2>4. MessagesOf(current, ToSet(emitted) \cup R)
      BY <1>3 DEF ReceiptInv, MessagesOf, Left, CalleeCalls
    <2> QED
      BY <2>1, <2>3, <2>4 DEF ReceiptInv
  <1> QED
    BY <1>1, <1>3, HandleKeepsInv

\* Who is called owns what it gives and sends.
LEMMA CalleeIsUser ==
  ASSUME ReceiveInv, current # NoPacket, NEW m, NEW st, NEW emitted,
         Handle(m, st, emitted), m[1] \in CalleeCalls \cup {"Callback"}
  PROVE  current.callback \in Users /\ current.callback # Nobody
  <1>1. m \in ToSet(todo)
    <2>1. todo \in Seq(Messages) /\ todo # << >> /\ Head(todo) = m
      BY DEF Handle, ReceiveInv
    <2> QED
      BY <2>1, TailSet
  <1>2. MessagesOf(current, ToSet(todo))
    BY DEF ReceiveInv, ReceiptInv
  <1> QED
    BY <1>1, <1>2, ReceiveAssumption DEF MessagesOf, Left

LEMMA CallbackKeepsInv ==
  ASSUME ReceiveInv, current # NoPacket, Callback
  PROVE  ReceiveInv'
  <1> DEFINE m == <<"Callback">>
  <1>1. store \in Stores /\ current \in Packet /\ m[1] \in CalleeCalls \cup {"Callback"}
    BY DEF ReceiveInv, TypeOK
  <1>2. NftsOf(current) \subseteq Nft
    <2>1. PICK n \in 1..MaxTokens : current.tokens \in [1..n -> Tokens]
      BY <1>1 DEF Packet
    <2> QED
      BY <1>1, <2>1 DEF Packet, NftsOf, ToSet, Nft
  <1>3. CASE Handle(m, store, << >>)
    BY <1>1, <1>3, EmptyMessages, CalleeKeepsInv
  <1>4. ASSUME NEW c \in Messages, c[1] \in CalleeCalls, Handle(m, store, <<c>>)
        PROVE  ReceiveInv'
    BY <1>1, <1>4, OneMessage, CalleeKeepsInv
  <1>5. CASE Handle(m, store, << <<"Pause">> >>)
    BY <1>4, <1>5 DEF Messages, CalleeCalls
  <1>6. ASSUME NEW s \in NftsOf(current), Handle(m, store, << <<"GiveNft", s>> >>)
        PROVE  ReceiveInv'
    BY <1>2, <1>4, <1>6 DEF Messages, CalleeCalls
  <1>7. ASSUME NEW s \in NftsOf(current), NEW e \in Ends,
               Handle(m, store, << <<"SendNft", s, e>> >>)
        PROVE  ReceiveInv'
    BY <1>2, <1>4, <1>7 DEF Messages, CalleeCalls
  <1> QED
    BY <1>3, <1>5, <1>6, <1>7 DEF Callback

LEMMA PauseKeepsInv ==
  ASSUME ReceiveInv, current # NoPacket, Pause
  PROVE  ReceiveInv'
  <1> DEFINE m == <<"Pause">>
             st == [store EXCEPT !.paused = TRUE]
  <1>1. Handle(m, st, << >>) /\ m[1] \in CalleeCalls
    BY DEF Pause, CalleeCalls
  <1>2. /\ st \in Stores /\ st.owner = store.owner /\ st.registry = store.registry
        /\ st.metadata = store.metadata /\ st.incoming = store.incoming
    BY DEF ReceiveInv, TypeOK, Stores
  <1> HIDE DEF m, st
  <1> QED
    BY <1>1, <1>2, EmptyMessages, CalleeKeepsInv

LEMMA GiveNftKeepsInv ==
  ASSUME ReceiveInv, current # NoPacket, NEW s \in Nft, NEW u \in Users, GiveNft(s, u)
  PROVE  ReceiveInv'
  <1> DEFINE m == <<"GiveNft", s>>
             st == Own(store, s, u)
  <1>1. /\ Handle(m, st, << >>) /\ m[1] = "GiveNft" /\ m[1] \in CalleeCalls
        /\ m[2] = s /\ ~Fails(m)
    BY DEF GiveNft, CalleeCalls, Handle
  <1>2. /\ st \in Stores /\ st.owner = [store.owner EXCEPT ![s] = u]
        /\ st.registry = store.registry
        /\ st.metadata = store.metadata /\ st.incoming = store.incoming
        /\ store \in Stores
    BY DEF ReceiveInv, TypeOK, Stores, Own
  <1> HIDE DEF m, st
  <1>3. store.owner[s] # Nobody
    BY <1>1, CalleeIsUser DEF Fails
  <1>4. \A t \in Nft : store.owner[t] = Nobody => st.owner[t] = Nobody
    BY <1>2, <1>3 DEF Stores
  <1> QED
    BY <1>1, <1>2, <1>4, EmptyMessages, CalleeKeepsInv

LEMMA SendNftKeepsInv ==
  ASSUME ReceiveInv, current # NoPacket, NEW s \in Nft, NEW e \in Ends, SendNft(s, e)
  PROVE  ReceiveInv'
  <1> DEFINE m == <<"SendNft", s, e>>
             st == Own(store, s, Ics721)
             c == <<"ReceiveNft", s, e>>
  <1>1. /\ Handle(m, st, <<c>>) /\ m[1] = "SendNft" /\ m[1] \in CalleeCalls
        /\ m[2] = s /\ ~Fails(m)
        /\ c \in Messages /\ c[1] \in CalleeCalls
    BY DEF SendNft, CalleeCalls, Messages, Handle
  <1>2. /\ st \in Stores /\ st.owner = [store.owner EXCEPT ![s] = Ics721]
        /\ st.registry = store.registry
        /\ st.metadata = store.metadata /\ st.incoming = store.incoming
        /\ store \in Stores
    BY DEF ReceiveInv, TypeOK, Stores, Own
  <1> HIDE DEF m, st, c
  <1>3. store.owner[s] # Nobody
    BY <1>1, CalleeIsUser DEF Fails
  <1>4. \A t \in Nft : store.owner[t] = Nobody => st.owner[t] = Nobody
    BY <1>2, <1>3 DEF Stores
  <1> QED
    BY <1>1, <1>2, <1>4, OneMessage, CalleeKeepsInv

LEMMA ReceiveNftKeepsInv ==
  ASSUME ReceiveInv, current # NoPacket, NEW s \in Nft, NEW e \in Ends, ReceiveNft(s, e)
  PROVE  ReceiveInv'
  <1> DEFINE m == <<"ReceiveNft", s, e>>
             st == Escrow(store, s, e, current.callback)
  <1>1. Handle(m, st, << >>) /\ m[1] \in CalleeCalls
    BY DEF ReceiveNft, CalleeCalls
  <1>2. current.callback \in Users
    BY <1>1, CalleeIsUser
  <1>3. s[1] \in Classes
    BY DEF Nft
  <1>4. /\ st \in Stores /\ st.owner = store.owner
        /\ store.registry \subseteq st.registry
        /\ st.metadata = store.metadata /\ st.incoming = store.incoming
    <2> DEFINE f == [nft |-> s, end |-> e, sender |-> current.callback]
    <2>1. f \in [nft : Nft, end : Ends, sender : Users]
      BY <1>2
    <2>2. st = [store EXCEPT !.registry = @ \cup {s[1]}, !.outgoing[s] = e,
                             !.sent = @ \cup {f}]
      BY DEF Escrow
    <2> HIDE DEF f, st
    <2> QED
      BY <1>3, <2>1, <2>2 DEF ReceiveInv, TypeOK, Stores
  <1> HIDE DEF m, st
  <1> QED
    BY <1>1, <1>4, EmptyMessages, CalleeKeepsInv
-------------------------------------------------------------------------------
(* The messages that make vouchers.                                          *)

\* create_voucher emits an instantiation if the class is new, then the mint.
LEMMA CreatedMessages ==
  LET m == <<"CreateVouchers">>
      emitted == If(current.class \notin store.registry, "Instantiate") \o << <<"Mint">> >>
  IN /\ Follows(m, emitted)
     /\ \A x \in ToSet(emitted) : x[1] \in {"Instantiate", "Mint"}
     /\ \E x \in ToSet(emitted) : x[1] = "Mint"
  <1> DEFINE m == <<"CreateVouchers">>
             first == If(current.class \notin store.registry, "Instantiate")
             mint == <<"Mint">>
             emitted == first \o <<mint>>
  <1>1. m[1] = "CreateVouchers"
    OBVIOUS
  <1>2. /\ first \in Seq(Messages) /\ Ordered(first)
        /\ \A x \in ToSet(first) : x[1] = "Instantiate"
    <2>1. <<"Instantiate">> \in Messages
      BY DEF Messages
    <2>2. CASE current.class \notin store.registry
      BY <2>1, <2>2, OneMessage DEF If
    <2>3. CASE current.class \in store.registry
      BY <2>3, EmptyMessages DEF If
    <2> QED
      BY <2>2, <2>3
  <1>3. mint \in Messages /\ mint[1] = "Mint"
    BY DEF Messages, OwnCalls
  <1> HIDE DEF first, mint
  <1>4. /\ emitted \in Seq(Messages) /\ Ordered(emitted)
        /\ ToSet(emitted) = ToSet(first) \cup {mint}
    <2>1. <<mint>> \in Seq(Messages) /\ Ordered(<<mint>>) /\ ToSet(<<mint>>) = {mint}
      BY <1>3, OneMessage
    <2>2. \A x \in ToSet(first), y \in ToSet(<<mint>>) : MayFollow(x[1], y[1])
      BY <1>2, <1>3, <2>1 DEF MayFollow
    <2>3. /\ emitted \in Seq(Messages)
          /\ ToSet(emitted) = ToSet(first) \cup ToSet(<<mint>>)
      BY <1>2, <2>1, ConcatSet
    <2>4. Ordered(emitted)
      BY <1>2, <2>1, <2>2, ConcatOrdered
    <2> QED
      BY <2>1, <2>3, <2>4
  <1> HIDE DEF emitted
  <1>5. /\ \A x \in ToSet(emitted) : x[1] \in {"Instantiate", "Mint"}
        /\ \E x \in ToSet(emitted) : x[1] = "Mint"
    BY <1>2, <1>3, <1>4
  <1>6. Follows(m, emitted)
    BY <1>1, <1>4, <1>5 DEF Follows, MayFollow, Entries, CalleeCalls
  <1> QED
    BY <1>5, <1>6 DEF emitted, mint, first

LEMMA CreateVouchersKeepsInv ==
  ASSUME ReceiveInv, current # NoPacket, CreateVouchers
  PROVE  ReceiveInv'
  <1> DEFINE m == <<"CreateVouchers">>
             st == [store EXCEPT !.registry = @ \cup {current.class}]
             emitted == If(current.class \notin store.registry, "Instantiate")
                          \o << <<"Mint">> >>
  <1>1. Handle(m, st, emitted) /\ m[1] = "CreateVouchers"
    BY DEF CreateVouchers
  <1>2. /\ store \in Stores /\ current.class \in Classes
        /\ st \in Stores /\ st.registry = store.registry \cup {current.class}
        /\ st.owner = store.owner
        /\ st.metadata = store.metadata /\ st.incoming = store.incoming
    BY DEF ReceiveInv, TypeOK, Stores, Packet
  <1>3. Keeps(store, st)
    BY <1>2, StoreKeeps
  <1>4. /\ Follows(m, emitted)
        /\ \A x \in ToSet(emitted) : x[1] \in {"Instantiate", "Mint"}
        /\ \E x \in ToSet(emitted) : x[1] = "Mint"
    BY CreatedMessages
  <1> HIDE DEF m, st, emitted
  <1>5. ASSUME NEW R \in SUBSET Messages, ReceiptInv(current, store, {m} \cup R)
        PROVE  ReceiptInv(current, st, ToSet(emitted) \cup R)
    <2> DEFINE T == {m} \cup R
               T2 == ToSet(emitted) \cup R
    <2>1. /\ Left(T, {"CreateVouchers", "Mint"}) /\ Left(T2, {"CreateVouchers", "Mint"})
          /\ Left(T2, {"Mint"})
          /\ Left(T, {"AddIncomingChannelEntries"}) /\ Left(T2, {"AddIncomingChannelEntries"})
      BY <1>1, <1>4, <1>5 DEF Left, ReceiptInv, MapsOf
    <2>2. MapsOf(current, st, T2)
      BY <1>3, <1>5, <2>1 DEF ReceiptInv, MapsOf, Recorded, Keeps
    <2>3. DeliveryOf(current, st, T2)
      BY <1>2, <2>1 DEF DeliveryOf
    <2>4. MessagesOf(current, T2)
      BY <1>4, <1>5 DEF ReceiptInv, MessagesOf, Left, CalleeCalls
    <2> QED
      BY <2>2, <2>3, <2>4 DEF ReceiptInv
  <1> QED
    BY <1>1, <1>2, <1>4, <1>5, HandleKeepsInv

LEMMA MintKeepsInv ==
  ASSUME ReceiveInv, current # NoPacket, Mint
  PROVE  ReceiveInv'
  <1> DEFINE m == <<"Mint">>
             st == [store EXCEPT !.metadata = @ \cup NftsOf(current)]
             E == {<<"MintNft", s>> : s \in NftsOf(current)}
  <1>1. Handle(m, st, EachToken("MintNft")) /\ ~Fails(m) /\ m[1] = "Mint"
    BY DEF Mint, Handle
  <1>2. current \in Packet /\ store \in Stores /\ current.class \in store.registry
    BY <1>1 DEF ReceiveInv, TypeOK, Fails
  <1>3. NftsOf(current) \subseteq Nft /\ \A s \in NftsOf(current) : s[1] = current.class
    <2>1. PICK n \in 1..MaxTokens : current.tokens \in [1..n -> Tokens]
      BY <1>2 DEF Packet
    <2> QED
      BY <1>2, <2>1 DEF Packet, NftsOf, ToSet, Nft
  <1>4. /\ st \in Stores /\ st.registry = store.registry /\ st.owner = store.owner
        /\ st.metadata = store.metadata \cup NftsOf(current)
        /\ st.incoming = store.incoming
    BY <1>2, <1>3 DEF Stores
  <1>5. Follows(m, EachToken("MintNft")) /\ ToSet(EachToken("MintNft")) = E
    BY <1>2, EachTokenMessages DEF Follows, MayFollow, Entries, CalleeCalls
  <1>6. \A e \in E : e[1] = "MintNft" /\ e[2] \in NftsOf(current)
    OBVIOUS
  <1>7. ASSUME NEW s \in NftsOf(current), NEW R PROVE LeftFor(E \cup R, s)
    <2> DEFINE e == <<"MintNft", s>>
    <2>1. e \in E \cup R /\ e[1] = "MintNft" /\ e[2] = s
      OBVIOUS
    <2> HIDE DEF e, E
    <2> QED
      BY <2>1 DEF LeftFor
  <1> HIDE DEF m, st, E
  <1>8. ASSUME NEW R \in SUBSET Messages, ReceiptInv(current, store, {m} \cup R),
               \A y \in R : MayFollow(m[1], y[1])
        PROVE  ReceiptInv(current, st, E \cup R)
    <2> DEFINE T == {m} \cup R
               T2 == E \cup R
    <2>1. /\ ~Left(T2, {"CreateVouchers", "Mint"}) /\ Left(T, {"CreateVouchers", "Mint"})
          /\ Left(T, {"AddIncomingChannelEntries"}) /\ Left(T2, {"AddIncomingChannelEntries"})
      BY <1>1, <1>6, <1>8 DEF Left, ReceiptInv, MapsOf, MayFollow, Entries, CalleeCalls
    <2>2. Recorded(store)
      BY <1>8, <2>1 DEF ReceiptInv, MapsOf
    <2>3. MapsOf(current, st, T2)
      BY <1>2, <1>3, <1>4, <2>1, <2>2 DEF MapsOf, Recorded, RecordedAt
    <2>4. DeliveryOf(current, st, T2)
      BY <1>2, <1>4, <1>7 DEF DeliveryOf
    <2>5. MessagesOf(current, T2)
      BY <1>6, <1>8 DEF ReceiptInv, MessagesOf, Left, CalleeCalls
    <2> QED
      BY <2>3, <2>4, <2>5 DEF ReceiptInv
  <1> QED
    BY <1>1, <1>2, <1>4, <1>5, <1>8, HandleKeepsInv

LEMMA MintNftKeepsInv ==
  ASSUME ReceiveInv, current # NoPacket, NEW s \in Nft, MintNft(s)
  PROVE  ReceiveInv'
  <1> DEFINE m == <<"MintNft", s>>
             st == Own(store, s, current.receiver)
  <1>1. Handle(m, st, << >>) /\ m[1] = "MintNft" /\ m[2] = s
    BY DEF MintNft
  <1>2. /\ current \in Packet /\ store \in Stores /\ current.receiver \in Users
    BY DEF ReceiveInv, TypeOK, Packet
  <1>3. /\ st \in Stores /\ st.owner = [store.owner EXCEPT ![s] = current.receiver]
        /\ st.metadata = store.metadata /\ st.incoming = store.incoming
        /\ st.registry = store.registry
    BY <1>2 DEF Own, Stores
  <1> HIDE DEF m, st
  <1>4. ASSUME NEW R \in SUBSET Messages, ReceiptInv(current, store, {m} \cup R),
               \A y \in R : MayFollow(m[1], y[1])
        PROVE  ReceiptInv(current, st, {} \cup R)
    <2> DEFINE T == {m} \cup R
    <2>1. /\ ~Left(T, {"CreateVouchers", "Mint"}) /\ ~Left(R, {"CreateVouchers", "Mint"})
          /\ Left(T, {"AddIncomingChannelEntries"}) /\ Left(R, {"AddIncomingChannelEntries"})
      BY <1>1, <1>4 DEF Left, ReceiptInv, MapsOf, MayFollow, Entries, CalleeCalls
    <2>2. s \in NftsOf(current)
      BY <1>1, <1>4 DEF ReceiptInv, MessagesOf
    <2>3. MapsOf(current, st, R)
      BY <1>2, <1>3, <1>4, <2>1, <2>2 DEF ReceiptInv, MapsOf, RecordedAt, Stores
    <2>4. DeliveryOf(current, st, R)
      BY <1>1, <1>2, <1>3, <1>4 DEF ReceiptInv, DeliveryOf, Left, LeftFor, Stores
    <2>5. MessagesOf(current, R)
      BY <1>4 DEF ReceiptInv, MessagesOf, Left
    <2> QED
      BY <2>3, <2>4, <2>5 DEF ReceiptInv
  <1> QED
    BY <1>1, <1>3, <1>4, EmptyMessages, NothingFollows, HandleKeepsInv

LEMMA AddIncomingKeepsInv ==
  ASSUME ReceiveInv, current # NoPacket, AddIncomingChannelEntries
  PROVE  ReceiveInv'
  <1> DEFINE m == <<"AddIncomingChannelEntries">>
             st == [store EXCEPT !.incoming =
                      [s \in Nft |-> IF s \in NftsOf(current) THEN current.end ELSE @[s]]]
  <1>1. Handle(m, st, << >>) /\ m[1] = "AddIncomingChannelEntries"
    BY DEF AddIncomingChannelEntries
  <1>2. store \in Stores /\ current.end \in Ends /\ current.end # NoEnd
    BY ReceiveAssumption DEF ReceiveInv, TypeOK, Packet
  <1>3. /\ st \in Stores /\ st.owner = store.owner /\ st.registry = store.registry
        /\ st.metadata = store.metadata
        /\ \A s \in Nft : st.incoming[s] = IF s \in NftsOf(current) THEN current.end
                                           ELSE store.incoming[s]
    BY <1>2 DEF Stores
  <1> HIDE DEF m, st
  <1>4. ASSUME NEW R \in SUBSET Messages, ReceiptInv(current, store, {m} \cup R),
               \A y \in R : MayFollow(m[1], y[1])
        PROVE  ReceiptInv(current, st, {} \cup R)
    <2>1. R = {}
      BY <1>1, <1>4 DEF MayFollow, Entries, CalleeCalls
    <2>2. /\ Left({m} \cup R, {"AddIncomingChannelEntries"})
          /\ ~Left({m} \cup R, {"CreateVouchers", "Mint"})
      BY <1>1, <2>1 DEF Left
    <2>3. Recorded(st)
      BY <1>2, <1>3, <1>4, <2>2 DEF ReceiptInv, MapsOf, Recorded, RecordedAt
    <2> QED
      BY <2>1, <2>3 DEF ReceiptInv, MapsOf, DeliveryOf, MessagesOf, Left
  <1> QED
    BY <1>1, <1>3, <1>4, EmptyMessages, NothingFollows, HandleKeepsInv
-------------------------------------------------------------------------------
(* The start and the end of a receipt.                                       *)

\* A packet does not redeem and create: it has a token.
LEMMA NotBothActions ==
  ASSUME NEW p \in Packet PROVE ~(Redeems(p) /\ Creates(p))
  <1>1. PICK n \in 1..MaxTokens : p.tokens \in [1..n -> Tokens]
    BY DEF Packet
  <1>2. 1 \in DOMAIN p.tokens
    BY <1>1
  <1>3. <<p.class, p.tokens[1]>> \in NftsOf(p)
    BY <1>2 DEF NftsOf, ToSet
  <1> QED
    BY <1>3 DEF Redeems, Creates

LEMMA IfMessages ==
  ASSUME NEW c \in BOOLEAN, NEW call, <<call>> \in Messages
  PROVE  /\ If(c, call) \in Seq(Messages) /\ Ordered(If(c, call))
         /\ ToSet(If(c, call)) = IF c THEN {<<call>>} ELSE {}
  <1>1. CASE c
    BY <1>1, OneMessage DEF If
  <1>2. CASE ~c
    BY <1>2, EmptyMessages DEF If
  <1> QED
    BY <1>1, <1>2

LEMMA OperandsMessages ==
  ASSUME NEW p \in Packet, store.proxy \in BOOLEAN
  PROVE  /\ << <<"Conjunction">> >> \o Operands(p) \in Seq(Messages)
         /\ Ordered(<< <<"Conjunction">> >> \o Operands(p))
         /\ ToSet(<< <<"Conjunction">> >> \o Operands(p)) =
              {<<"Conjunction">>}
              \cup (IF store.proxy THEN {<<"Proxy">>} ELSE {})
              \cup (IF Redeems(p) THEN {<<"RedeemVouchers">>} ELSE {})
              \cup (IF Creates(p) THEN {<<"CreateVouchers">>} ELSE {})
              \cup (IF p.callback # Nobody THEN {<<"Callback">>} ELSE {})
              \cup (IF Redeems(p) THEN {<<"RedeemOutgoingChannelEntries">>} ELSE {})
              \cup (IF Creates(p) THEN {<<"AddIncomingChannelEntries">>} ELSE {})
  <1> DEFINE a0 == << <<"Conjunction">> >>
             a1 == If(store.proxy, "Proxy")
             a2 == If(Redeems(p), "RedeemVouchers")
             a3 == If(Creates(p), "CreateVouchers")
             a4 == If(p.callback # Nobody, "Callback")
             a5 == If(Redeems(p), "RedeemOutgoingChannelEntries")
             a6 == If(Creates(p), "AddIncomingChannelEntries")
             b2 == a1 \o a2
             b3 == b2 \o a3
             b4 == b3 \o a4
             b5 == b4 \o a5
             b6 == b5 \o a6
  <1>1. {<<"Conjunction">>, <<"Proxy">>, <<"RedeemVouchers">>, <<"CreateVouchers">>,
         <<"Callback">>, <<"RedeemOutgoingChannelEntries">>,
         <<"AddIncomingChannelEntries">>} \subseteq Messages
    BY DEF Messages, OwnCalls
  <1>2. Redeems(p) \in BOOLEAN /\ Creates(p) \in BOOLEAN /\ ~(Redeems(p) /\ Creates(p))
    BY NotBothActions DEF Redeems, Creates
  <1>3. /\ a0 \in Seq(Messages) /\ Ordered(a0) /\ ToSet(a0) = {<<"Conjunction">>}
    BY <1>1, OneMessage
  <1>4. /\ a1 \in Seq(Messages) /\ Ordered(a1)
        /\ ToSet(a1) = IF store.proxy THEN {<<"Proxy">>} ELSE {}
    BY <1>1, IfMessages
  <1>5. /\ a2 \in Seq(Messages) /\ Ordered(a2)
        /\ ToSet(a2) = IF Redeems(p) THEN {<<"RedeemVouchers">>} ELSE {}
    BY <1>1, <1>2, IfMessages
  <1>6. /\ a3 \in Seq(Messages) /\ Ordered(a3)
        /\ ToSet(a3) = IF Creates(p) THEN {<<"CreateVouchers">>} ELSE {}
    BY <1>1, <1>2, IfMessages
  <1>7. /\ a4 \in Seq(Messages) /\ Ordered(a4)
        /\ ToSet(a4) = IF p.callback # Nobody THEN {<<"Callback">>} ELSE {}
    BY <1>1, IfMessages
  <1>8. /\ a5 \in Seq(Messages) /\ Ordered(a5)
        /\ ToSet(a5) = IF Redeems(p) THEN {<<"RedeemOutgoingChannelEntries">>} ELSE {}
    BY <1>1, <1>2, IfMessages
  <1>9. /\ a6 \in Seq(Messages) /\ Ordered(a6)
        /\ ToSet(a6) = IF Creates(p) THEN {<<"AddIncomingChannelEntries">>} ELSE {}
    BY <1>1, <1>2, IfMessages
  <1>10. Operands(p) = b6
    BY DEF Operands
  <1> HIDE DEF a0, a1, a2, a3, a4, a5, a6
  <1>11. b2 \in Seq(Messages) /\ ToSet(b2) = ToSet(a1) \cup ToSet(a2)
    BY <1>4, <1>5, ConcatSet
  <1>12. Ordered(b2)
    <2>1. \A x \in ToSet(a1), y \in ToSet(a2) : MayFollow(x[1], y[1])
      BY <1>4, <1>5 DEF MayFollow
    <2> QED
      BY <1>4, <1>5, <2>1, ConcatOrdered
  <1> HIDE DEF b2
  <1>13. b3 \in Seq(Messages) /\ ToSet(b3) = ToSet(b2) \cup ToSet(a3)
    BY <1>6, <1>11, ConcatSet
  <1>14. Ordered(b3)
    <2>1. \A x \in ToSet(b2), y \in ToSet(a3) : MayFollow(x[1], y[1])
      BY <1>2, <1>4, <1>5, <1>6, <1>11 DEF MayFollow
    <2> QED
      BY <1>6, <1>11, <1>12, <2>1, ConcatOrdered
  <1>15. \A x \in ToSet(b3) : x[1] \in {"Proxy", "RedeemVouchers", "CreateVouchers"}
    BY <1>4, <1>5, <1>6, <1>11, <1>13
  <1> HIDE DEF b3
  <1>16. b4 \in Seq(Messages) /\ ToSet(b4) = ToSet(b3) \cup ToSet(a4)
    BY <1>7, <1>13, ConcatSet
  <1>17. Ordered(b4)
    <2>1. \A x \in ToSet(b3), y \in ToSet(a4) : MayFollow(x[1], y[1])
      BY <1>7, <1>15 DEF MayFollow, Entries, CalleeCalls
    <2> QED
      BY <1>7, <1>13, <1>14, <2>1, ConcatOrdered
  <1>18. \A x \in ToSet(b4) : x[1] \notin Entries
    BY <1>7, <1>15, <1>16 DEF Entries
  <1> HIDE DEF b4
  <1>19. b5 \in Seq(Messages) /\ ToSet(b5) = ToSet(b4) \cup ToSet(a5)
    BY <1>8, <1>16, ConcatSet
  <1>20. Ordered(b5)
    <2>1. \A x \in ToSet(b4), y \in ToSet(a5) : MayFollow(x[1], y[1])
      BY <1>8, <1>18 DEF MayFollow, Entries
    <2> QED
      BY <1>8, <1>16, <1>17, <2>1, ConcatOrdered
  <1> HIDE DEF b5
  <1>21. b6 \in Seq(Messages) /\ ToSet(b6) = ToSet(b5) \cup ToSet(a6)
    BY <1>9, <1>19, ConcatSet
  <1>22. Ordered(b6)
    <2>1. \A x \in ToSet(b5), y \in ToSet(a6) : MayFollow(x[1], y[1])
      BY <1>2, <1>8, <1>9, <1>18, <1>19 DEF MayFollow, Entries
    <2> QED
      BY <1>9, <1>19, <1>20, <2>1, ConcatOrdered
  <1> HIDE DEF b6
  <1>23. a0 \o b6 \in Seq(Messages) /\ ToSet(a0 \o b6) = ToSet(a0) \cup ToSet(b6)
    BY <1>3, <1>21, ConcatSet
  <1>24. Ordered(a0 \o b6)
    <2>1. \A y \in ToSet(b6) : y[1] \in Entries \cup
            {"Proxy", "RedeemVouchers", "CreateVouchers", "Callback"}
      BY <1>7, <1>8, <1>9, <1>15, <1>16, <1>19, <1>21 DEF Entries
    <2>2. \A x \in ToSet(a0) : x[1] = "Conjunction"
      BY <1>3
    <2>3. \A x \in ToSet(a0), y \in ToSet(b6) : MayFollow(x[1], y[1])
      BY <2>1, <2>2 DEF MayFollow, Entries, CalleeCalls
    <2> QED
      BY <1>3, <1>21, <1>22, <2>3, ConcatOrdered
  <1>25. ToSet(a0 \o b6) = ToSet(a0) \cup ToSet(a1) \cup ToSet(a2) \cup ToSet(a3)
                            \cup ToSet(a4) \cup ToSet(a5) \cup ToSet(a6)
    BY <1>11, <1>13, <1>16, <1>19, <1>21, <1>23
  <1> QED
    BY <1>3, <1>4, <1>5, <1>6, <1>7, <1>8, <1>9, <1>10, <1>23, <1>24, <1>25 DEF a0

LEMMA ReceiveIbcPacketKeepsInv ==
  ASSUME ReceiveInv, NEW p \in Packet, ReceiveIbcPacket(p)
  PROVE  ReceiveInv'
  <1> DEFINE T == ToSet(todo')
  <1>1. /\ current' = p /\ todo' = << <<"Conjunction">> >> \o Operands(p)
        /\ UNCHANGED <<store, saved, acked>>
        /\ Redeems(p) \/ Creates(p)
    BY DEF ReceiveIbcPacket
  <1>2. saved = store /\ store \in Stores /\ store.proxy \in BOOLEAN /\ Recorded(store)
    BY DEF ReceiveIbcPacket, ReceiveInv, TypeOK, Stores
  <1>3. /\ todo' \in Seq(Messages) /\ Ordered(todo')
        /\ T = {<<"Conjunction">>}
              \cup (IF store.proxy THEN {<<"Proxy">>} ELSE {})
              \cup (IF Redeems(p) THEN {<<"RedeemVouchers">>} ELSE {})
              \cup (IF Creates(p) THEN {<<"CreateVouchers">>} ELSE {})
              \cup (IF p.callback # Nobody THEN {<<"Callback">>} ELSE {})
              \cup (IF Redeems(p) THEN {<<"RedeemOutgoingChannelEntries">>} ELSE {})
              \cup (IF Creates(p) THEN {<<"AddIncomingChannelEntries">>} ELSE {})
    BY <1>1, <1>2, OperandsMessages
  <1>4. /\ p \in Packet /\ p # NoPacket /\ p.callback \in Users \cup {Nobody}
    BY ReceiveAssumption DEF Packet
  <1> HIDE DEF T
  <1>5. Redeems(p) \in BOOLEAN /\ Creates(p) \in BOOLEAN
    BY DEF Redeems, Creates
  <1>6. /\ Left(T, {"RedeemVouchers", "CreateVouchers"})
        /\ \A m \in T : m[1] \notin {"TransferNft", "MintNft", "Instantiate", "Mint"}
        /\ \A m \in T : m[1] = "Callback" => p.callback # Nobody
        /\ \A m \in T : m[1] \notin CalleeCalls
        /\ Left(T, {"CreateVouchers"}) <=> Creates(p)
        /\ Left(T, {"AddIncomingChannelEntries"}) <=> Creates(p)
    <2>1. \A m \in T : m \in {<<"Conjunction">>, <<"Proxy">>, <<"RedeemVouchers">>,
                              <<"CreateVouchers">>, <<"Callback">>,
                              <<"RedeemOutgoingChannelEntries">>,
                              <<"AddIncomingChannelEntries">>}
      BY <1>3
    <2>2. \A m \in T : m[1] \in {"Conjunction", "Proxy", "RedeemVouchers",
                                 "CreateVouchers", "Callback",
                                 "RedeemOutgoingChannelEntries",
                                 "AddIncomingChannelEntries"} /\ m = <<m[1]>>
      BY <2>1
    <2>3. /\ <<"Callback">> \in T => p.callback # Nobody
          /\ <<"RedeemVouchers">> \in T <=> Redeems(p)
          /\ <<"CreateVouchers">> \in T <=> Creates(p)
          /\ <<"AddIncomingChannelEntries">> \in T <=> Creates(p)
      BY <1>3, <1>5
    <2>4. \A c : <<c>>[1] = c
      OBVIOUS
    <2>5. \A m \in T : m[1] = "Callback" => p.callback # Nobody
      BY <2>2, <2>3
    <2>6. /\ \A m \in T : m[1] \notin {"TransferNft", "MintNft", "Instantiate", "Mint"}
          /\ \A m \in T : m[1] \notin CalleeCalls
      BY <2>2 DEF CalleeCalls
    <2>7. Left(T, {"CreateVouchers"}) <=> Creates(p)
      BY <2>2, <2>3, <2>4 DEF Left
    <2>8. Left(T, {"AddIncomingChannelEntries"}) <=> Creates(p)
      BY <2>2, <2>3, <2>4 DEF Left
    <2>9. Left(T, {"RedeemVouchers", "CreateVouchers"})
      BY <1>1, <2>3, <2>4 DEF Left
    <2> QED
      BY <2>5, <2>6, <2>7, <2>8, <2>9
  <1>7. MapsOf(p, store, T)
    <2>1. /\ Left(T, {"CreateVouchers", "Instantiate", "Mint", "MintNft"}) => Creates(p)
          /\ Creates(p) => Left(T, {"CreateVouchers", "Mint"})
      BY <1>6 DEF Left
    <2> QED
      BY <1>2, <1>6, <2>1 DEF MapsOf
  <1>8. DeliveryOf(p, store, T)
    BY <1>6 DEF DeliveryOf
  <1>9. MessagesOf(p, T)
    BY <1>4, <1>6 DEF MessagesOf, Left
  <1>10. ReceiptInv(current, store, ToSet(todo))'
    BY <1>1, <1>7, <1>8, <1>9
    DEF T, ReceiptInv, MapsOf, DeliveryOf, MessagesOf, Recorded, RecordedAt, NftsOf
  <1>11. \A i \in DOMAIN todo' : todo'[i] \in Messages
    BY <1>3, LenProperties, ElementOfSeq
  <1> QED
    BY <1>1, <1>3, <1>4, <1>10, <1>11 DEF ReceiveInv, TypeOK, Recorded, RecordedAt

LEMMA RefusePacketKeepsInv ==
  ASSUME ReceiveInv, NEW p \in Packet, RefusePacket(p)
  PROVE  ReceiveInv'
  <1>1. /\ UNCHANGED <<store, saved, current, todo>>
        /\ acked' = <<p.end, "error">> /\ current = NoPacket /\ p.end \in Ends
    BY DEF RefusePacket, Packet
  <1> QED
    BY <1>1 DEF ReceiveInv, TypeOK, Recorded, RecordedAt, Ordered

\* What a receipt leaves is recorded, and nothing is left to do.
LEMMA EndReceiptKeepsInv ==
  ASSUME ReceiveInv, current # NoPacket, NEW st \in Stores, Recorded(st),
         NEW ack \in {"success", "error"}, EndReceipt(st, ack)
  PROVE  ReceiveInv'
  <1>1. /\ current' = NoPacket /\ todo' = << >> /\ store' = st /\ saved' = st
        /\ acked' = <<current.end, ack>> /\ current.end \in Ends
    BY DEF EndReceipt, ReceiveInv, TypeOK, Packet
  <1>2. /\ todo' \in Seq(Messages) /\ Ordered(todo')
        /\ \A i \in DOMAIN todo' : todo'[i] \in Messages
    BY <1>1, EmptyMessages, LenProperties, ElementOfSeq
  <1> QED
    BY <1>1, <1>2 DEF ReceiveInv, TypeOK, Recorded, RecordedAt

LEMMA ReplySuccessKeepsInv ==
  ASSUME ReceiveInv, ReplySuccess
  PROVE  ReceiveInv'
  <1>1. current # NoPacket /\ todo = << >> /\ EndReceipt(store, "success")
    BY DEF ReplySuccess
  <1>2. MapsOf(current, store, {})
    BY <1>1, EmptyMessages DEF ReceiveInv, ReceiptInv
  <1>3. Recorded(store)
    BY <1>2 DEF MapsOf, Left
  <1> QED
    BY <1>1, <1>3, EndReceiptKeepsInv DEF ReceiveInv, TypeOK

LEMMA ReplyErrorKeepsInv ==
  ASSUME ReceiveInv, ReplyError
  PROVE  ReceiveInv'
  <1>1. todo # << >> /\ EndReceipt(saved, "error")
    BY DEF ReplyError, MayFail
  <1>2. current # NoPacket /\ saved \in Stores /\ Recorded(saved)
    BY <1>1 DEF ReceiveInv, TypeOK
  <1> QED
    BY <1>1, <1>2, EndReceiptKeepsInv

LEMMA HandleMessageKeepsInv ==
  ASSUME ReceiveInv, HandleMessage
  PROVE  ReceiveInv'
  BY NothingKeepsInv, RedeemVouchersKeepsInv, CreateVouchersKeepsInv, MintKeepsInv,
     RedeemOutgoingKeepsInv, AddIncomingKeepsInv, CallbackKeepsInv, PauseKeepsInv,
     TransferNftKeepsInv, MintNftKeepsInv, GiveNftKeepsInv, SendNftKeepsInv,
     ReceiveNftKeepsInv
  DEF HandleMessage

-------------------------------------------------------------------------------
(* Transactions of one step.                                                 *)

LEMMA CommitKeepsInv ==
  ASSUME ReceiveInv, NEW st \in Stores, Recorded(st), Commit(st)
  PROVE  ReceiveInv'
  <1>1. /\ current = NoPacket /\ store' = st /\ saved' = st
        /\ UNCHANGED <<current, todo, acked>>
    BY DEF Commit
  <1> QED
    BY <1>1 DEF ReceiveInv, TypeOK, Recorded, RecordedAt, Ordered

\* Between receipts the store is what was saved.
LEMMA CommitRecorded ==
  ASSUME ReceiveInv, NEW st, Commit(st)
  PROVE  store \in Stores /\ Recorded(store)
  BY DEF ReceiveInv, TypeOK, Commit

LEMMA KeepsRecorded ==
  ASSUME NEW st, NEW st2, Keeps(st, st2), Recorded(st)
  PROVE  Recorded(st2)
  BY DEF Keeps, Recorded

LEMMA HolderTransfersKeepsInv ==
  ASSUME ReceiveInv, NEW s \in Nft, NEW u \in Users \cup {Nobody}, HolderTransfers(s, u)
  PROVE  ReceiveInv'
  <1> DEFINE st == Own(store, s, u)
  <1>1. Commit(st) /\ store \in Stores /\ Recorded(store) /\ store.owner[s] \in Users
    BY CommitRecorded DEF HolderTransfers
  <1>2. /\ st \in Stores /\ st.owner = [store.owner EXCEPT ![s] = u]
        /\ st.registry = store.registry
        /\ st.metadata = store.metadata /\ st.incoming = store.incoming
    BY <1>1 DEF Stores, Own
  <1> HIDE DEF st
  <1>3. \A t \in Nft : store.owner[t] = Nobody => st.owner[t] = Nobody
    BY <1>1, <1>2, ReceiveAssumption DEF Stores
  <1>4. Keeps(store, st)
    BY <1>1, <1>2, <1>3, StoreKeeps
  <1>5. Recorded(st)
    BY <1>1, <1>4, KeepsRecorded
  <1> QED
    BY <1>1, <1>2, <1>5, CommitKeepsInv

LEMMA HolderSendsKeepsInv ==
  ASSUME ReceiveInv, NEW s \in Nft, NEW e \in Ends, HolderSends(s, e)
  PROVE  ReceiveInv'
  <1> DEFINE st == Escrow(Own(store, s, Ics721), s, e, store.owner[s])
             f == [nft |-> s, end |-> e, sender |-> store.owner[s]]
  <1>1. Commit(st) /\ store \in Stores /\ Recorded(store) /\ store.owner[s] \in Users
    BY CommitRecorded DEF HolderSends
  <1>2. s[1] \in Classes /\ f \in [nft : Nft, end : Ends, sender : Users]
    BY <1>1 DEF Nft
  <1>3. st = [store EXCEPT !.owner[s] = Ics721, !.registry = @ \cup {s[1]},
                           !.outgoing[s] = e, !.sent = @ \cup {f}]
    BY <1>1 DEF Escrow, Own, Stores
  <1> HIDE DEF f, st
  <1>4. /\ st \in Stores /\ st.owner = [store.owner EXCEPT ![s] = Ics721]
        /\ store.registry \subseteq st.registry
        /\ st.metadata = store.metadata /\ st.incoming = store.incoming
    BY <1>1, <1>2, <1>3 DEF Stores
  <1>5. \A t \in Nft : store.owner[t] = Nobody => st.owner[t] = Nobody
    BY <1>1, <1>4, ReceiveAssumption DEF Stores
  <1>6. Keeps(store, st)
    BY <1>1, <1>4, <1>5, StoreKeeps
  <1>7. Recorded(st)
    BY <1>1, <1>6, KeepsRecorded
  <1> QED
    BY <1>1, <1>4, <1>7, CommitKeepsInv

LEMMA HandlePacketFailKeepsInv ==
  ASSUME ReceiveInv, NEW f \in store.sent, HandlePacketFail(f)
  PROVE  ReceiveInv'
  <1> DEFINE st == [store EXCEPT !.owner[f.nft] = f.sender, !.outgoing[f.nft] = NoEnd,
                                 !.sent = @ \ {f}]
  <1>1. Commit(st) /\ store \in Stores /\ Recorded(store) /\ store.owner[f.nft] = Ics721
    BY CommitRecorded DEF HandlePacketFail
  <1>2. f.nft \in Nft /\ f.sender \in Users
    BY <1>1 DEF Stores
  <1>3. /\ st \in Stores /\ st.owner = [store.owner EXCEPT ![f.nft] = f.sender]
        /\ st.registry = store.registry
        /\ st.metadata = store.metadata /\ st.incoming = store.incoming
    BY <1>1, <1>2 DEF Stores
  <1> HIDE DEF st
  <1>4. \A t \in Nft : store.owner[t] = Nobody => st.owner[t] = Nobody
    BY <1>1, <1>2, <1>3, ReceiveAssumption DEF Stores
  <1>5. Keeps(store, st)
    BY <1>1, <1>3, <1>4, StoreKeeps
  <1>6. Recorded(st)
    BY <1>1, <1>5, KeepsRecorded
  <1> QED
    BY <1>1, <1>3, <1>6, CommitKeepsInv

\* The voucher that is burned loses its entries and its owner.
LEMMA AckSuccessKeepsInv ==
  ASSUME ReceiveInv, NEW f \in store.sent, AckSuccess(f)
  PROVE  ReceiveInv'
  <1>1. CASE store.incoming[f.nft] = f.end
    <2> DEFINE st == [store EXCEPT !.owner[f.nft] = Nobody, !.sent = @ \ {f},
                                   !.incoming[f.nft] = NoEnd, !.metadata = @ \ {f.nft}]
    <2>1. Commit(st) /\ store \in Stores /\ Recorded(store)
      BY <1>1, CommitRecorded DEF AckSuccess
    <2>2. f.nft \in Nft
      BY <2>1 DEF Stores
    <2>3. /\ st \in Stores /\ st.owner = [store.owner EXCEPT ![f.nft] = Nobody]
          /\ st.registry = store.registry
          /\ st.metadata = store.metadata \ {f.nft}
          /\ st.incoming = [store.incoming EXCEPT ![f.nft] = NoEnd]
      BY <2>1, <2>2 DEF Stores
    <2> HIDE DEF st
    <2>4. Recorded(st)
      BY <2>1, <2>2, <2>3 DEF Recorded, RecordedAt, Stores
    <2> QED
      BY <2>1, <2>3, <2>4, CommitKeepsInv
  <1>2. CASE store.incoming[f.nft] # f.end
    <2> DEFINE st == [store EXCEPT !.sent = @ \ {f}]
    <2>1. Commit(st) /\ store \in Stores /\ Recorded(store)
      BY <1>2, CommitRecorded DEF AckSuccess
    <2>2. /\ st \in Stores /\ st.owner = store.owner /\ st.registry = store.registry
          /\ st.metadata = store.metadata /\ st.incoming = store.incoming
      BY <2>1 DEF Stores
    <2> HIDE DEF st
    <2> QED
      BY <2>1, <2>2, StoreKeeps, KeepsRecorded, CommitKeepsInv
  <1> QED
    BY <1>1, <1>2

LEMMA SwitchKeepsInv ==
  ASSUME ReceiveInv, PauseContract \/ \E proxy \in BOOLEAN : Migrate(proxy)
  PROVE  ReceiveInv'
  <1>1. PICK paused \in BOOLEAN, proxy \in BOOLEAN :
          Commit([store EXCEPT !.paused = paused, !.proxy = proxy])
    <2>1. CASE PauseContract
      <3>1. Commit([store EXCEPT !.paused = TRUE])
        BY <2>1 DEF PauseContract
      <3>2. store \in Stores
        BY <3>1, CommitRecorded
      <3>3. /\ [store EXCEPT !.paused = TRUE]
                 = [store EXCEPT !.paused = TRUE, !.proxy = store.proxy]
            /\ store.proxy \in BOOLEAN
        BY <3>2 DEF Stores
      <3> QED
        BY <3>1, <3>3
    <2>2. CASE \E proxy \in BOOLEAN : Migrate(proxy)
      BY <2>2 DEF Migrate
    <2> QED
      BY <2>1, <2>2
  <1> DEFINE st == [store EXCEPT !.paused = paused, !.proxy = proxy]
  <1>2. store \in Stores /\ Recorded(store)
    BY <1>1, CommitRecorded
  <1>3. /\ st \in Stores /\ st.owner = store.owner /\ st.registry = store.registry
        /\ st.metadata = store.metadata /\ st.incoming = store.incoming
    BY <1>2 DEF Stores
  <1>4. Commit(st)
    BY <1>1
  <1> HIDE DEF st
  <1> QED
    BY <1>2, <1>3, <1>4, StoreKeeps, KeepsRecorded, CommitKeepsInv

-------------------------------------------------------------------------------
(* The invariant holds.                                                      *)

LEMMA InitReceiveInv == Init => ReceiveInv
  <1> SUFFICES ASSUME Init PROVE ReceiveInv
    OBVIOUS
  <1>1. PICK holder \in [Tokens -> Users] :
          store = [owner |-> [s \in Nft |-> IF Via[s[1]] = NoEnd THEN holder[s[2]]
                                            ELSE Nobody],
                   registry |-> {}, metadata |-> {}, sent |-> {},
                   outgoing |-> [s \in Nft |-> NoEnd],
                   incoming |-> [s \in Nft |-> NoEnd],
                   proxy |-> FALSE, paused |-> FALSE]
    BY DEF Init
  <1>2. \A s \in Nft : s[2] \in Tokens
    BY DEF Nft
  <1>3. store \in Stores
    BY <1>1, <1>2 DEF Stores
  <1>4. Recorded(store)
    BY <1>1 DEF Recorded, RecordedAt
  <1>5. /\ saved = store /\ current = NoPacket /\ todo = << >>
        /\ acked = <<NoEnd, "none">>
    BY DEF Init
  <1>6. \A i \in DOMAIN todo : todo[i] \in Messages
    BY <1>5, EmptyMessages, LenProperties, ElementOfSeq
  <1> QED
    BY <1>3, <1>4, <1>5, <1>6, EmptyMessages DEF ReceiveInv, TypeOK

LEMMA NextReceiveInv == ReceiveInv /\ [Next]_vars => ReceiveInv'
  <1> SUFFICES ASSUME ReceiveInv, [Next]_vars PROVE ReceiveInv'
    OBVIOUS
  <1>1. CASE Receipt
    <2>1. CASE \E p \in Packet : ReceiveIbcPacket(p) \/ RefusePacket(p)
      BY <2>1, ReceiveIbcPacketKeepsInv, RefusePacketKeepsInv
    <2> QED
      BY <1>1, <2>1, HandleMessageKeepsInv, ReplySuccessKeepsInv, ReplyErrorKeepsInv
      DEF Receipt
  <1>2. CASE OtherTransaction
    BY <1>2, HolderTransfersKeepsInv, HolderSendsKeepsInv, HandlePacketFailKeepsInv,
       AckSuccessKeepsInv, SwitchKeepsInv
    DEF OtherTransaction
  <1>3. CASE UNCHANGED vars
    <2>1. UNCHANGED <<store, saved, current, todo, acked>>
      BY <1>3 DEF vars
    <2> QED
      BY <2>1 DEF ReceiveInv, TypeOK, Recorded, RecordedAt, Ordered, ReceiptInv, MapsOf,
                  DeliveryOf, MessagesOf, Left, LeftFor, ToSet, NftsOf
  <1> QED
    BY <1>1, <1>2, <1>3 DEF Next

\* What the messages still to be handled say about the state they find: what
\* the next one needs is there.
THEOREM ReceiveInvariant == Spec => []ReceiveInv
  BY InitReceiveInv, NextReceiveInv, PTL DEF Spec

\* The variables keep their types, and nothing is left to do between receipts.
THEOREM TypeCorrect == Spec => []TypeOK
  <1>1. ReceiveInv => TypeOK
    BY DEF ReceiveInv
  <1> QED
    BY <1>1, ReceiveInvariant, PTL

\* The registry, TOKEN_METADATA and INCOMING agree after every transaction,
\* for any packets, callbacks and failures, and every voucher is in all three.
THEOREM VouchersAgree == Spec => []VouchersRecorded
  <1>1. ReceiveInv => VouchersRecorded
    <2>1. ReceiveInv /\ current = NoPacket => Recorded(store)
      BY DEF ReceiveInv, TypeOK
    <2> QED
      BY <2>1 DEF VouchersRecorded, Recorded, RecordedAt
  <1> QED
    BY <1>1, ReceiveInvariant, PTL

\* The callback of a packet finds all its NFTs with the receiver, in a
\* registered collection, whatever the packet carries.
THEOREM CallbacksSeeDelivery == Spec => []CallbackSeesDelivery
  <1>1. ASSUME ReceiveInv, todo # << >>, Head(todo) = <<"Callback">>
        PROVE  /\ current.class \in store.registry
               /\ \A s \in NftsOf(current) : store.owner[s] = current.receiver
    <2> DEFINE m == <<"Callback">>
               R == ToSet(Tail(todo))
    <2>1. /\ ToSet(todo) = {m} \cup R /\ \A y \in R : MayFollow(m[1], y[1])
      BY <1>1, TailSet DEF ReceiveInv
    <2>2. DeliveryOf(current, store, {m} \cup R)
      BY <1>1, <2>1 DEF ReceiveInv, TypeOK, ReceiptInv
    <2>3. m[1] = "Callback"
      OBVIOUS
    <2> HIDE DEF m, R
    <2>4. \A y \in {m} \cup R : y[1] \in Entries \cup {"Callback"}
      BY <2>1, <2>3 DEF MayFollow, Entries, CalleeCalls
    <2>5. /\ Left({m} \cup R, {"Callback"})
          /\ ~Left({m} \cup R, {"RedeemVouchers", "CreateVouchers"})
          /\ ~Left({m} \cup R, {"Mint"}) /\ \A s : ~LeftFor({m} \cup R, s)
      BY <2>3, <2>4 DEF Left, LeftFor, Entries
    <2> QED
      BY <2>2, <2>5 DEF DeliveryOf
  <1>2. ReceiveInv => CallbackSeesDelivery
    BY <1>1 DEF CallbackSeesDelivery
  <1> QED
    BY <1>2, ReceiveInvariant, PTL

-------------------------------------------------------------------------------
(* The receipt as one step: what it has done to the savepoint so far.        *)

EarlyCalls == {"Conjunction", "Proxy", "RedeemVouchers", "CreateVouchers",
               "Instantiate", "Mint", "TransferNft", "MintNft", "Callback"}
UseCalls == {"GiveNft", "SendNft", "ReceiveNft"}
Calling(T) == Left(T, EarlyCalls)
Pending(T, s) == Left(T, {"RedeemVouchers", "CreateVouchers", "Mint"}) \/ LeftFor(T, s)
RedeemsFrom(p, sv) == \A s \in NftsOf(p) : p.popped /\ sv.outgoing[s] = p.end

\* Who has had the NFTs of the packet, and which entry they are to have.
TakenFrom(p, sv) == IF RedeemsFrom(p, sv) THEN Ics721 ELSE Nobody
EntryOf(p, sv, T, s) ==
  IF RedeemsFrom(p, sv) /\ ~Left(T, {"RedeemOutgoingChannelEntries"}) THEN NoEnd
  ELSE sv.outgoing[s]

CallsFit(p, sv, T) ==
  IF RedeemsFrom(p, sv)
  THEN ~Left(T, {"CreateVouchers", "Instantiate", "Mint", "MintNft",
                 "AddIncomingChannelEntries"})
  ELSE ~Left(T, {"RedeemVouchers", "TransferNft", "RedeemOutgoingChannelEntries"})

\* NFT s of the packet is still where it was, or delivered, or it is the one
\* that the callback uses.
Handed(p, sv, st, T, t, s) ==
  \/ Pending(T, s) /\ st.owner[s] = sv.owner[s]
  \/ /\ sv.owner[s] = TakenFrom(p, sv)
     /\ \/ st.owner[s] = p.receiver
        \/ s = t /\ ~Calling(T) /\ st.owner[s] \in Users \cup {Ics721}

\* Only the NFTs of the packet are touched; t is the one the callback uses.
Progress(p, sv, st, T, t) ==
  /\ t \in NftsOf(p)
  /\ CallsFit(p, sv, T)
  /\ \A s \in Nft \ NftsOf(p) :
       st.owner[s] = sv.owner[s] /\ st.outgoing[s] = sv.outgoing[s]
  /\ \A s \in NftsOf(p) :
       /\ Handed(p, sv, st, T, t, s)
       /\ Calling(T) \/ st.owner[s] # Ics721 =>
            st.outgoing[s] = EntryOf(p, sv, T, s)
  /\ \A m \in T : m[1] \in UseCalls =>
       m[2] = t /\ (m[1] = "ReceiveNft" => st.owner[t] = Ics721)

RefInv == current # NoPacket =>
  \E t \in Nft : Progress(current, saved, store, ToSet(todo), t)

LEMMA PacketNfts ==
  ASSUME NEW p \in Packet
  PROVE  NftsOf(p) \subseteq Nft /\ NftsOf(p) # {}
  <1>1. PICK n \in 1..MaxTokens : p.tokens \in [1..n -> Tokens]
    BY DEF Packet
  <1>2. NftsOf(p) \subseteq Nft
    BY <1>1 DEF Packet, NftsOf, ToSet, Nft
  <1>3. 1 \in DOMAIN p.tokens
    BY <1>1
  <1>4. <<p.class, p.tokens[1]>> \in NftsOf(p)
    BY <1>3 DEF NftsOf, ToSet
  <1> QED
    BY <1>2, <1>4

LEMMA HandleKeepsProgress ==
  ASSUME ReceiveInv, RefInv, current # NoPacket, NEW m, NEW st, NEW emitted,
         Handle(m, st, emitted), Follows(m, emitted),
         \A R \in SUBSET Messages, t \in Nft :
           /\ Progress(current, saved, store, {m} \cup R, t)
           /\ MessagesOf(current, {m} \cup R)
           /\ \A y \in R : MayFollow(m[1], y[1])
           => \E u \in Nft : Progress(current, saved, st, ToSet(emitted) \cup R, u)
  PROVE  RefInv'
  <1>1. PICK R \in SUBSET Messages :
          /\ ToSet(todo) = {m} \cup R /\ ToSet(todo') = ToSet(emitted) \cup R
          /\ \A y \in R : MayFollow(m[1], y[1])
          /\ todo' \in Seq(Messages) /\ Ordered(todo')
    BY HandleLeaves
  <1>2. store' = st /\ UNCHANGED <<saved, current>>
    BY DEF Handle
  <1>3. PICK t \in Nft : Progress(current, saved, store, {m} \cup R, t)
    BY <1>1 DEF RefInv
  <1>4. MessagesOf(current, {m} \cup R)
    BY <1>1 DEF ReceiveInv, ReceiptInv
  <1>5. PICK u \in Nft : Progress(current, saved, st, ToSet(todo'), u)
    BY <1>1, <1>3, <1>4
  <1>6. Progress(current, saved, store, ToSet(todo), u)'
    BY <1>2, <1>5
    DEF Progress, CallsFit, Handed, Pending, Calling, RedeemsFrom, TakenFrom, EntryOf,
        NftsOf, Left, LeftFor
  <1> QED
    BY <1>2, <1>6 DEF RefInv

\* A message that changes no owner and no entry of OUTGOING.
LEMMA QuietProgress ==
  ASSUME NEW p, NEW sv, NEW st, NEW st2, NEW T, NEW T2, NEW t,
         Progress(p, sv, st, T, t),
         st2.owner = st.owner, st2.outgoing = st.outgoing,
         \A s \in NftsOf(p) : Pending(T, s) => Pending(T2, s),
         Calling(T2) => Calling(T),
         Left(T2, {"RedeemOutgoingChannelEntries"})
           <=> Left(T, {"RedeemOutgoingChannelEntries"}),
         CallsFit(p, sv, T2),
         \A x \in T2 : x[1] \in UseCalls => x \in T
  PROVE  Progress(p, sv, st2, T2, t)
  <1>1. ASSUME NEW s \in NftsOf(p)
        PROVE  /\ Handed(p, sv, st2, T2, t, s)
               /\ Calling(T2) \/ st2.owner[s] # Ics721 =>
                    st2.outgoing[s] = EntryOf(p, sv, T2, s)
    <2>1. Handed(p, sv, st, T, t, s)
      BY <1>1 DEF Progress
    <2>2. Handed(p, sv, st2, T2, t, s)
      BY <2>1 DEF Handed
    <2> QED
      BY <2>2 DEF Progress, EntryOf
  <1> QED
    BY <1>1 DEF Progress

LEMMA NothingProgresses ==
  ASSUME ReceiveInv, RefInv, current # NoPacket, Conjunction \/ Proxy \/ Instantiate
  PROVE  RefInv'
  <1>1. PICK m \in {<<"Conjunction">>, <<"Proxy">>, <<"Instantiate">>} :
          Handle(m, store, << >>)
    BY DEF Conjunction, Proxy, Instantiate
  <1>2. m[1] \in {"Conjunction", "Proxy", "Instantiate"}
    OBVIOUS
  <1>3. ASSUME NEW R \in SUBSET Messages, NEW t \in Nft,
               Progress(current, saved, store, {m} \cup R, t)
        PROVE  Progress(current, saved, store, {} \cup R, t)
    <2> DEFINE T == {m} \cup R
    <2>1. /\ \A s : Pending(T, s) => Pending({} \cup R, s)
          /\ Calling({} \cup R) => Calling(T)
          /\ Left({} \cup R, {"RedeemOutgoingChannelEntries"})
               <=> Left(T, {"RedeemOutgoingChannelEntries"})
          /\ CallsFit(current, saved, T) => CallsFit(current, saved, {} \cup R)
      BY <1>2 DEF Pending, Calling, CallsFit, Left, LeftFor
    <2>2. CallsFit(current, saved, {} \cup R)
      BY <1>3, <2>1 DEF Progress
    <2> QED
      BY <1>3, <2>1, <2>2, QuietProgress
  <1> QED
    BY <1>1, <1>3, EmptyMessages, NothingFollows, HandleKeepsProgress

LEMMA RedeemVouchersProgresses ==
  ASSUME ReceiveInv, RefInv, current # NoPacket, RedeemVouchers
  PROVE  RefInv'
  <1> DEFINE m == <<"RedeemVouchers">>
             E == {<<"TransferNft", s>> : s \in NftsOf(current)}
  <1>1. Handle(m, store, EachToken("TransferNft")) /\ m[1] = "RedeemVouchers"
    BY DEF RedeemVouchers
  <1>2. current \in Packet
    BY DEF ReceiveInv, TypeOK
  <1>3. Follows(m, EachToken("TransferNft")) /\ ToSet(EachToken("TransferNft")) = E
    BY <1>2, EachTokenMessages DEF Follows, MayFollow, Entries, CalleeCalls
  <1>4. \A e \in E : e[1] = "TransferNft"
    OBVIOUS
  <1>5. ASSUME NEW s \in NftsOf(current), NEW R PROVE Pending(E \cup R, s)
    <2> DEFINE e == <<"TransferNft", s>>
    <2>1. e \in E \cup R /\ e[1] = "TransferNft" /\ e[2] = s
      OBVIOUS
    <2> HIDE DEF e, E
    <2> QED
      BY <2>1 DEF Pending, LeftFor
  <1> HIDE DEF m, E
  <1>6. ASSUME NEW R \in SUBSET Messages, NEW t \in Nft,
               Progress(current, saved, store, {m} \cup R, t)
        PROVE  Progress(current, saved, store, E \cup R, t)
    <2>1. /\ Calling({m} \cup R)
          /\ Left(E \cup R, {"RedeemOutgoingChannelEntries"})
               <=> Left({m} \cup R, {"RedeemOutgoingChannelEntries"})
          /\ CallsFit(current, saved, {m} \cup R) => CallsFit(current, saved, E \cup R)
          /\ \A x \in E \cup R : x[1] \in UseCalls => x \in {m} \cup R
      BY <1>1, <1>4 DEF Calling, EarlyCalls, CallsFit, Left, UseCalls
    <2>2. CallsFit(current, saved, E \cup R)
      BY <1>6, <2>1 DEF Progress
    <2> QED
      BY <1>5, <1>6, <2>1, <2>2, QuietProgress
  <1> QED
    BY <1>1, <1>3, <1>6, HandleKeepsProgress

LEMMA MintProgresses ==
  ASSUME ReceiveInv, RefInv, current # NoPacket, Mint
  PROVE  RefInv'
  <1> DEFINE m == <<"Mint">>
             st == [store EXCEPT !.metadata = @ \cup NftsOf(current)]
             E == {<<"MintNft", s>> : s \in NftsOf(current)}
  <1>1. Handle(m, st, EachToken("MintNft")) /\ m[1] = "Mint"
    BY DEF Mint
  <1>2. /\ current \in Packet
        /\ st.owner = store.owner /\ st.outgoing = store.outgoing
    BY DEF ReceiveInv, TypeOK, Stores
  <1>3. Follows(m, EachToken("MintNft")) /\ ToSet(EachToken("MintNft")) = E
    BY <1>2, EachTokenMessages DEF Follows, MayFollow, Entries, CalleeCalls
  <1>4. \A e \in E : e[1] = "MintNft"
    OBVIOUS
  <1>5. ASSUME NEW s \in NftsOf(current), NEW R PROVE Pending(E \cup R, s)
    <2> DEFINE e == <<"MintNft", s>>
    <2>1. e \in E \cup R /\ e[1] = "MintNft" /\ e[2] = s
      OBVIOUS
    <2> HIDE DEF e, E
    <2> QED
      BY <2>1 DEF Pending, LeftFor
  <1> HIDE DEF m, E, st
  <1>6. ASSUME NEW R \in SUBSET Messages, NEW t \in Nft,
               Progress(current, saved, store, {m} \cup R, t)
        PROVE  Progress(current, saved, st, E \cup R, t)
    <2>1. /\ Calling({m} \cup R)
          /\ Left(E \cup R, {"RedeemOutgoingChannelEntries"})
               <=> Left({m} \cup R, {"RedeemOutgoingChannelEntries"})
          /\ CallsFit(current, saved, {m} \cup R) => CallsFit(current, saved, E \cup R)
          /\ \A x \in E \cup R : x[1] \in UseCalls => x \in {m} \cup R
      BY <1>1, <1>4 DEF Calling, EarlyCalls, CallsFit, Left, UseCalls
    <2>2. CallsFit(current, saved, E \cup R)
      BY <1>6, <2>1 DEF Progress
    <2> QED
      BY <1>2, <1>5, <1>6, <2>1, <2>2, QuietProgress
  <1> QED
    BY <1>1, <1>3, <1>6, HandleKeepsProgress

LEMMA CreateVouchersProgresses ==
  ASSUME ReceiveInv, RefInv, current # NoPacket, CreateVouchers
  PROVE  RefInv'
  <1> DEFINE m == <<"CreateVouchers">>
             st == [store EXCEPT !.registry = @ \cup {current.class}]
             first == If(current.class \notin store.registry, "Instantiate")
             emitted == first \o << <<"Mint">> >>
  <1>1. Handle(m, st, emitted) /\ m[1] = "CreateVouchers"
    BY DEF CreateVouchers
  <1>2. st.owner = store.owner /\ st.outgoing = store.outgoing
    BY DEF ReceiveInv, TypeOK, Stores
  <1>3. /\ Follows(m, emitted)
        /\ \A x \in ToSet(emitted) : x[1] \in {"Instantiate", "Mint"}
        /\ \E x \in ToSet(emitted) : x[1] = "Mint"
    BY CreatedMessages
  <1> HIDE DEF m, emitted, st
  <1>4. ASSUME NEW R \in SUBSET Messages, NEW t \in Nft,
               Progress(current, saved, store, {m} \cup R, t)
        PROVE  Progress(current, saved, st, ToSet(emitted) \cup R, t)
    <2> DEFINE T2 == ToSet(emitted) \cup R
    <2>1. /\ Calling({m} \cup R)
          /\ \A s : Pending(T2, s)
          /\ Left(T2, {"RedeemOutgoingChannelEntries"})
               <=> Left({m} \cup R, {"RedeemOutgoingChannelEntries"})
          /\ CallsFit(current, saved, {m} \cup R) => CallsFit(current, saved, T2)
          /\ \A x \in T2 : x[1] \in UseCalls => x \in {m} \cup R
      BY <1>1, <1>3 DEF Calling, EarlyCalls, CallsFit, Left, UseCalls, Pending
    <2>2. CallsFit(current, saved, T2)
      BY <1>4, <2>1 DEF Progress
    <2> QED
      BY <1>2, <1>4, <2>1, <2>2, QuietProgress
  <1> QED
    BY <1>1, <1>3, <1>4, HandleKeepsProgress

\* An NFT that is delivered was where all of them came from.
LEMMA DeliveredProgress ==
  ASSUME NEW p \in Packet, NEW sv, NEW st, NEW st2, NEW m, NEW R, NEW t, NEW a \in Nft,
         Progress(p, sv, st, {m} \cup R, t), MessagesOf(p, {m} \cup R),
         \A y \in R : MayFollow(m[1], y[1]),
         m[1] \in {"TransferNft", "MintNft"}, m[2] = a,
         st.owner[a] = IF m[1] = "TransferNft" THEN Ics721 ELSE Nobody,
         p.receiver # st.owner[a],
         st.owner \in [Nft -> Users \cup {Ics721, Nobody}],
         st2.owner = [st.owner EXCEPT ![a] = p.receiver], st2.outgoing = st.outgoing
  PROVE  Progress(p, sv, st2, {} \cup R, t)
  <1> DEFINE T == {m} \cup R
  <1>1. a \in NftsOf(p) /\ Calling(T)
    BY DEF MessagesOf, Calling, EarlyCalls, Left
  <1>2. /\ CallsFit(p, sv, T) => CallsFit(p, sv, R)
        /\ Left(R, {"RedeemOutgoingChannelEntries"})
             <=> Left(T, {"RedeemOutgoingChannelEntries"})
        /\ \A s : s # a => (Pending(R, s) <=> Pending(T, s))
    BY DEF CallsFit, Left, Pending, LeftFor
  <1>3. st.owner[a] = TakenFrom(p, sv)
    BY DEF Progress, CallsFit, Left, TakenFrom
  <1>4. sv.owner[a] = TakenFrom(p, sv)
    BY <1>1, <1>3 DEF Progress, Handed
  <1>5. Handed(p, sv, st2, R, t, a)
    BY <1>4 DEF Handed
  <1>6. ASSUME NEW s \in NftsOf(p), s # a PROVE Handed(p, sv, st2, R, t, s)
    <2>1. s \in Nft
      BY PacketNfts
    <2>2. st2.owner[s] = st.owner[s]
      BY <1>6, <2>1
    <2> QED
      BY <1>1, <1>2, <1>6, <2>2 DEF Progress, Handed
  <1>7. ASSUME NEW s \in NftsOf(p)
        PROVE  st2.outgoing[s] = EntryOf(p, sv, R, s)
    BY <1>1, <1>2 DEF Progress, EntryOf
  <1>8. ASSUME NEW s \in Nft \ NftsOf(p)
        PROVE  st2.owner[s] = sv.owner[s] /\ st2.outgoing[s] = sv.outgoing[s]
    BY <1>1 DEF Progress
  <1>9. \A x \in R : x[1] \notin UseCalls
    BY DEF MayFollow, UseCalls, Entries
  <1> QED
    BY <1>2, <1>5, <1>6, <1>7, <1>8, <1>9 DEF Progress

LEMMA TransferNftProgresses ==
  ASSUME ReceiveInv, RefInv, current # NoPacket, NEW a \in Nft, TransferNft(a)
  PROVE  RefInv'
  <1> DEFINE m == <<"TransferNft", a>>
             st == Own(store, a, current.receiver)
  <1>1. Handle(m, st, << >>) /\ m[1] = "TransferNft" /\ m[2] = a /\ ~Fails(m)
    BY DEF TransferNft, Handle
  <1>2. /\ current \in Packet /\ current.receiver \in Users /\ store \in Stores
        /\ current.receiver # Ics721
    BY ReceiveAssumption DEF ReceiveInv, TypeOK, Packet
  <1>3. /\ st.owner = [store.owner EXCEPT ![a] = current.receiver]
        /\ st.outgoing = store.outgoing /\ store.owner \in [Nft -> Users \cup {Ics721, Nobody}]
    BY <1>2 DEF Own, Stores
  <1>4. store.owner[a] = Ics721
    BY <1>1 DEF Fails
  <1> HIDE DEF m, st
  <1>5. ASSUME NEW R \in SUBSET Messages, NEW t \in Nft,
               Progress(current, saved, store, {m} \cup R, t),
               MessagesOf(current, {m} \cup R), \A y \in R : MayFollow(m[1], y[1])
        PROVE  Progress(current, saved, st, {} \cup R, t)
    BY <1>1, <1>2, <1>3, <1>4, <1>5, DeliveredProgress
  <1> QED
    BY <1>1, <1>5, EmptyMessages, NothingFollows, HandleKeepsProgress

LEMMA MintNftProgresses ==
  ASSUME ReceiveInv, RefInv, current # NoPacket, NEW a \in Nft, MintNft(a)
  PROVE  RefInv'
  <1> DEFINE m == <<"MintNft", a>>
             st == Own(store, a, current.receiver)
  <1>1. Handle(m, st, << >>) /\ m[1] = "MintNft" /\ m[2] = a /\ ~Fails(m)
    BY DEF MintNft, Handle
  <1>2. /\ current \in Packet /\ current.receiver \in Users /\ store \in Stores
        /\ current.receiver # Nobody
    BY ReceiveAssumption DEF ReceiveInv, TypeOK, Packet
  <1>3. /\ st.owner = [store.owner EXCEPT ![a] = current.receiver]
        /\ st.outgoing = store.outgoing /\ store.owner \in [Nft -> Users \cup {Ics721, Nobody}]
    BY <1>2 DEF Own, Stores
  <1>4. store.owner[a] = Nobody
    BY <1>1 DEF Fails
  <1> HIDE DEF m, st
  <1>5. ASSUME NEW R \in SUBSET Messages, NEW t \in Nft,
               Progress(current, saved, store, {m} \cup R, t),
               MessagesOf(current, {m} \cup R), \A y \in R : MayFollow(m[1], y[1])
        PROVE  Progress(current, saved, st, {} \cup R, t)
    BY <1>1, <1>2, <1>3, <1>4, <1>5, DeliveredProgress
  <1> QED
    BY <1>1, <1>5, EmptyMessages, NothingFollows, HandleKeepsProgress

LEMMA RedeemOutgoingProgresses ==
  ASSUME ReceiveInv, RefInv, current # NoPacket, RedeemOutgoingChannelEntries
  PROVE  RefInv'
  <1> DEFINE m == <<"RedeemOutgoingChannelEntries">>
             st == [store EXCEPT !.outgoing =
                      [s \in Nft |-> IF s \in NftsOf(current) THEN NoEnd ELSE @[s]]]
  <1>1. Handle(m, st, << >>) /\ m[1] = "RedeemOutgoingChannelEntries"
    BY DEF RedeemOutgoingChannelEntries
  <1>2. /\ st.owner = store.owner
        /\ \A s \in Nft : st.outgoing[s] = IF s \in NftsOf(current) THEN NoEnd
                                           ELSE store.outgoing[s]
    BY DEF ReceiveInv, TypeOK, Stores
  <1>3. NftsOf(current) \subseteq Nft
    BY PacketNfts DEF ReceiveInv, TypeOK
  <1> HIDE DEF m, st
  <1>4. ASSUME NEW R \in SUBSET Messages, NEW t \in Nft,
               Progress(current, saved, store, {m} \cup R, t),
               \A y \in R : MayFollow(m[1], y[1])
        PROVE  Progress(current, saved, st, {} \cup R, t)
    <2>1. R = {}
      BY <1>1, <1>4 DEF MayFollow, Entries, CalleeCalls
    <2>2. RedeemsFrom(current, saved)
      BY <1>1, <1>4 DEF Progress, CallsFit, Left
    <2>3. ~Calling({m} \cup R) /\ ~Calling(R)
          /\ \A s : ~Pending({m} \cup R, s)
      BY <1>1, <2>1 DEF Calling, EarlyCalls, Pending, Left, LeftFor
    <2>4. ASSUME NEW s \in NftsOf(current) PROVE Handed(current, saved, st, R, t, s)
      BY <1>2, <1>4, <2>3 DEF Progress, Handed
    <2>5. \A s \in NftsOf(current) : EntryOf(current, saved, R, s) = NoEnd
      BY <2>1, <2>2 DEF EntryOf, Left
    <2> QED
      BY <1>2, <1>3, <1>4, <2>1, <2>4, <2>5 DEF Progress, CallsFit, Left
  <1> QED
    BY <1>1, <1>4, EmptyMessages, NothingFollows, HandleKeepsProgress

LEMMA AddIncomingProgresses ==
  ASSUME ReceiveInv, RefInv, current # NoPacket, AddIncomingChannelEntries
  PROVE  RefInv'
  <1> DEFINE m == <<"AddIncomingChannelEntries">>
             st == [store EXCEPT !.incoming =
                      [s \in Nft |-> IF s \in NftsOf(current) THEN current.end ELSE @[s]]]
  <1>1. Handle(m, st, << >>) /\ m[1] = "AddIncomingChannelEntries"
    BY DEF AddIncomingChannelEntries
  <1>2. st.owner = store.owner /\ st.outgoing = store.outgoing
    BY DEF ReceiveInv, TypeOK, Stores
  <1> HIDE DEF m, st
  <1>3. ASSUME NEW R \in SUBSET Messages, NEW t \in Nft,
               Progress(current, saved, store, {m} \cup R, t)
        PROVE  Progress(current, saved, st, {} \cup R, t)
    <2> DEFINE T == {m} \cup R
    <2>1. /\ \A s : Pending(T, s) => Pending({} \cup R, s)
          /\ Calling({} \cup R) => Calling(T)
          /\ Left({} \cup R, {"RedeemOutgoingChannelEntries"})
               <=> Left(T, {"RedeemOutgoingChannelEntries"})
          /\ CallsFit(current, saved, T) => CallsFit(current, saved, {} \cup R)
      BY <1>1 DEF Pending, Calling, CallsFit, Left, LeftFor
    <2>2. CallsFit(current, saved, {} \cup R)
      BY <1>3, <2>1 DEF Progress
    <2> QED
      BY <1>2, <1>3, <2>1, <2>2, QuietProgress
  <1> QED
    BY <1>1, <1>3, EmptyMessages, NothingFollows, HandleKeepsProgress

\* When the callback is called, any one NFT may be the one that it uses.
LEMMA CallbackProgresses ==
  ASSUME ReceiveInv, RefInv, current # NoPacket, Callback
  PROVE  RefInv'
  <1> DEFINE m == <<"Callback">>
  <1>1. m[1] = "Callback"
    OBVIOUS
  <1>2. NftsOf(current) \subseteq Nft /\ current.receiver \in Users
    BY PacketNfts DEF ReceiveInv, TypeOK, Packet
  <1> HIDE DEF m
  <1>3. ASSUME NEW E \in SUBSET Messages, NEW a \in NftsOf(current),
               \A x \in E : x[1] \in CalleeCalls \ {"ReceiveNft"},
               \A x \in E : x[1] \in UseCalls => x[2] = a,
               NEW R \in SUBSET Messages, NEW t \in Nft,
               Progress(current, saved, store, {m} \cup R, t),
               \A y \in R : MayFollow(m[1], y[1])
        PROVE  Progress(current, saved, store, E \cup R, a)
    <2>1. \A y \in R : y[1] \in Entries
      BY <1>1, <1>3 DEF MayFollow, Entries, CalleeCalls
    <2>2. /\ Calling({m} \cup R) /\ ~Calling(E \cup R)
          /\ \A s : ~Pending({m} \cup R, s)
      BY <1>1, <1>3, <2>1
      DEF Calling, EarlyCalls, Pending, Left, LeftFor, Entries, CalleeCalls
    <2>3. /\ Left(E \cup R, {"RedeemOutgoingChannelEntries"})
               <=> Left({m} \cup R, {"RedeemOutgoingChannelEntries"})
          /\ CallsFit(current, saved, {m} \cup R) => CallsFit(current, saved, E \cup R)
      BY <1>1, <1>3 DEF Left, CallsFit, CalleeCalls
    <2>4. ASSUME NEW s \in NftsOf(current)
          PROVE  /\ Handed(current, saved, store, E \cup R, a, s)
                 /\ store.outgoing[s] = EntryOf(current, saved, E \cup R, s)
      BY <1>3, <2>2, <2>3 DEF Progress, Handed, EntryOf
    <2>5. ASSUME NEW x \in E \cup R, x[1] \in UseCalls
          PROVE  x[2] = a /\ x[1] # "ReceiveNft"
      BY <1>3, <2>1, <2>5 DEF UseCalls, Entries
    <2> QED
      BY <1>3, <2>3, <2>4, <2>5 DEF Progress
  <1>4. ASSUME NEW emitted \in Seq(Messages), Ordered(emitted), NEW a \in NftsOf(current),
               \A x \in ToSet(emitted) : x[1] \in CalleeCalls \ {"ReceiveNft"},
               \A x \in ToSet(emitted) : x[1] \in UseCalls => x[2] = a,
               Handle(m, store, emitted)
        PROVE  RefInv'
    <2>1. Follows(m, emitted)
      BY <1>1, <1>4 DEF Follows, MayFollow, CalleeCalls, Entries
    <2>2. ToSet(emitted) \in SUBSET Messages
      BY <1>4, LenProperties, ElementOfSeq DEF ToSet
    <2>3. a \in Nft
      BY <1>2
    <2> QED
      BY <1>3, <1>4, <2>1, <2>2, <2>3, HandleKeepsProgress
  <1>5. PICK a : a \in NftsOf(current)
    BY PacketNfts DEF ReceiveInv, TypeOK
  <1>6. CASE Handle(m, store, << >>)
    BY <1>4, <1>5, <1>6, EmptyMessages
  <1>7. CASE Handle(m, store, << <<"Pause">> >>)
    <2> DEFINE c == <<"Pause">>
    <2>1. c \in Messages /\ c[1] \in CalleeCalls \ {"ReceiveNft"} /\ c[1] \notin UseCalls
      BY DEF Messages, CalleeCalls, UseCalls
    <2> HIDE DEF c
    <2>2. Handle(m, store, <<c>>)
      BY <1>7 DEF c
    <2> QED
      BY <1>4, <1>5, <2>1, <2>2, OneMessage
  <1>8. ASSUME NEW b \in NftsOf(current), Handle(m, store, << <<"GiveNft", b>> >>)
        PROVE  RefInv'
    <2> DEFINE c == <<"GiveNft", b>>
    <2>1. c \in Messages /\ c[1] \in CalleeCalls \ {"ReceiveNft"} /\ c[2] = b
      BY <1>2 DEF Messages, CalleeCalls
    <2> HIDE DEF c
    <2>2. Handle(m, store, <<c>>)
      BY <1>8 DEF c
    <2> QED
      BY <1>4, <2>1, <2>2, OneMessage
  <1>9. ASSUME NEW b \in NftsOf(current), NEW e \in Ends,
               Handle(m, store, << <<"SendNft", b, e>> >>)
        PROVE  RefInv'
    <2> DEFINE c == <<"SendNft", b, e>>
    <2>1. c \in Messages /\ c[1] \in CalleeCalls \ {"ReceiveNft"} /\ c[2] = b
      BY <1>2 DEF Messages, CalleeCalls
    <2> HIDE DEF c
    <2>2. Handle(m, store, <<c>>)
      BY <1>9 DEF c
    <2> QED
      BY <1>4, <2>1, <2>2, OneMessage
  <1> QED
    BY <1>6, <1>7, <1>8, <1>9 DEF Callback, m

LEMMA PauseProgresses ==
  ASSUME ReceiveInv, RefInv, current # NoPacket, Pause
  PROVE  RefInv'
  <1> DEFINE m == <<"Pause">>
             st == [store EXCEPT !.paused = TRUE]
  <1>1. Handle(m, st, << >>) /\ m[1] = "Pause"
    BY DEF Pause
  <1>2. st.owner = store.owner /\ st.outgoing = store.outgoing
    BY DEF ReceiveInv, TypeOK, Stores
  <1> HIDE DEF m, st
  <1>3. ASSUME NEW R \in SUBSET Messages, NEW t \in Nft,
               Progress(current, saved, store, {m} \cup R, t)
        PROVE  Progress(current, saved, st, {} \cup R, t)
    <2> DEFINE T == {m} \cup R
    <2>1. /\ \A s : Pending(T, s) => Pending({} \cup R, s)
          /\ Calling({} \cup R) => Calling(T)
          /\ Left({} \cup R, {"RedeemOutgoingChannelEntries"})
               <=> Left(T, {"RedeemOutgoingChannelEntries"})
          /\ CallsFit(current, saved, T) => CallsFit(current, saved, {} \cup R)
      BY <1>1 DEF Pending, Calling, CallsFit, Left, LeftFor
    <2>2. CallsFit(current, saved, {} \cup R)
      BY <1>3, <2>1 DEF Progress
    <2> QED
      BY <1>2, <1>3, <2>1, <2>2, QuietProgress
  <1> QED
    BY <1>1, <1>3, EmptyMessages, NothingFollows, HandleKeepsProgress

\* The callback's use of its NFT a is handled: only the channel entries are left,
\* or the call it has made.
LEMMA UseProgress ==
  ASSUME ReceiveInv, RefInv, current # NoPacket,
         NEW m, NEW a \in Nft, m[1] \in UseCalls, m[2] = a,
         NEW st, st.owner \in [Nft -> Users \cup {Ics721, Nobody}],
         st.owner[a] \in Users \cup {Ics721},
         \A s \in Nft \ {a} : /\ st.owner[s] = store.owner[s]
                              /\ st.outgoing[s] = store.outgoing[s],
         st.owner[a] # Ics721 =>
           store.owner[a] # Ics721 /\ st.outgoing[a] = store.outgoing[a],
         NEW emitted \in Seq(Messages), Ordered(emitted),
         \A x \in ToSet(emitted) : x[1] = "ReceiveNft" /\ x[2] = a,
         ToSet(emitted) # {} => st.owner[a] = Ics721,
         Handle(m, st, emitted)
  PROVE  RefInv'
  <1>1. Follows(m, emitted)
    BY DEF Follows, MayFollow, CalleeCalls, UseCalls, Entries
  <1>2. NftsOf(current) \subseteq Nft
    BY PacketNfts DEF ReceiveInv, TypeOK
  <1>3. ASSUME NEW R \in SUBSET Messages, NEW t \in Nft,
               Progress(current, saved, store, {m} \cup R, t),
               \A y \in R : MayFollow(m[1], y[1])
        PROVE  Progress(current, saved, st, ToSet(emitted) \cup R, t)
    <2> DEFINE T == {m} \cup R
               T2 == ToSet(emitted) \cup R
    <2>1. a = t /\ t \in NftsOf(current)
      BY <1>3 DEF Progress
    <2>2. \A y \in R : y[1] \in Entries
      BY <1>3 DEF MayFollow, Entries, CalleeCalls, UseCalls
    <2>3. /\ ~Calling(T) /\ ~Calling(T2)
          /\ \A s : ~Pending(T, s)
          /\ Left(T2, {"RedeemOutgoingChannelEntries"})
               <=> Left(T, {"RedeemOutgoingChannelEntries"})
          /\ CallsFit(current, saved, T) => CallsFit(current, saved, T2)
      BY <2>2 DEF Calling, EarlyCalls, Pending, Left, LeftFor, Entries, UseCalls, CallsFit
    <2>4. \A s \in NftsOf(current) :
            /\ saved.owner[s] = TakenFrom(current, saved)
            /\ s # t => store.owner[s] = current.receiver
            /\ store.owner[s] # Ics721 => store.outgoing[s] = EntryOf(current, saved, T, s)
      BY <1>3, <2>3 DEF Progress, Handed
    <2>5. ASSUME NEW s \in NftsOf(current) PROVE Handed(current, saved, st, T2, t, s)
      BY <1>2, <2>1, <2>3, <2>4 DEF Handed
    <2>6. ASSUME NEW s \in NftsOf(current), st.owner[s] # Ics721
          PROVE  st.outgoing[s] = EntryOf(current, saved, T2, s)
      <3>1. store.owner[s] # Ics721 /\ st.outgoing[s] = store.outgoing[s]
        BY <1>2, <2>6
      <3> QED
        BY <2>3, <2>4, <3>1 DEF EntryOf
    <2>7. ASSUME NEW s \in Nft \ NftsOf(current)
          PROVE  st.owner[s] = saved.owner[s] /\ st.outgoing[s] = saved.outgoing[s]
      BY <1>3, <2>1 DEF Progress
    <2>8. ASSUME NEW x \in T2, x[1] \in UseCalls
          PROVE  x[2] = t /\ st.owner[t] = Ics721
      BY <2>1, <2>2, <2>8 DEF UseCalls, Entries
    <2> QED
      BY <1>3, <2>1, <2>3, <2>5, <2>6, <2>7, <2>8 DEF Progress
  <1> QED
    BY <1>1, <1>3, HandleKeepsProgress

LEMMA GiveNftProgresses ==
  ASSUME ReceiveInv, RefInv, current # NoPacket, NEW a \in Nft, NEW u \in Users,
         GiveNft(a, u)
  PROVE  RefInv'
  <1> DEFINE m == <<"GiveNft", a>>
             st == Own(store, a, u)
  <1>1. Handle(m, st, << >>) /\ m[1] = "GiveNft" /\ m[1] \in UseCalls /\ m[2] = a /\ ~Fails(m)
    BY DEF GiveNft, Handle, UseCalls
  <1>2. /\ st.owner = [store.owner EXCEPT ![a] = u] /\ st.outgoing = store.outgoing
        /\ store.owner \in [Nft -> Users \cup {Ics721, Nobody}]
    BY DEF ReceiveInv, TypeOK, Stores, Own
  <1>3. store.owner[a] \in Users
    <2>1. m[1] \in CalleeCalls
      BY <1>1 DEF CalleeCalls
    <2>2. current.callback \in Users
      BY <1>1, <2>1, CalleeIsUser
    <2> QED
      BY <1>1, <2>2 DEF Fails
  <1> HIDE DEF m, st
  <1>4. /\ st.owner \in [Nft -> Users \cup {Ics721, Nobody}] /\ st.owner[a] \in Users
        /\ \A s \in Nft \ {a} : /\ st.owner[s] = store.owner[s]
                                /\ st.outgoing[s] = store.outgoing[s]
        /\ store.owner[a] # Ics721 /\ st.outgoing[a] = store.outgoing[a]
    BY <1>2, <1>3, ReceiveAssumption
  <1> QED
    BY <1>1, <1>4, EmptyMessages, UseProgress

LEMMA SendNftProgresses ==
  ASSUME ReceiveInv, RefInv, current # NoPacket, NEW a \in Nft, NEW e \in Ends,
         SendNft(a, e)
  PROVE  RefInv'
  <1> DEFINE m == <<"SendNft", a, e>>
             st == Own(store, a, Ics721)
             c == <<"ReceiveNft", a, e>>
  <1>1. /\ Handle(m, st, <<c>>) /\ m[1] \in UseCalls /\ m[2] = a
        /\ c \in Messages /\ c[1] = "ReceiveNft" /\ c[2] = a
    BY DEF SendNft, UseCalls, Messages
  <1>2. /\ st.owner = [store.owner EXCEPT ![a] = Ics721] /\ st.outgoing = store.outgoing
        /\ store.owner \in [Nft -> Users \cup {Ics721, Nobody}]
    BY DEF ReceiveInv, TypeOK, Stores, Own
  <1> HIDE DEF m, st, c
  <1>3. /\ st.owner \in [Nft -> Users \cup {Ics721, Nobody}] /\ st.owner[a] = Ics721
        /\ \A s \in Nft \ {a} : /\ st.owner[s] = store.owner[s]
                                /\ st.outgoing[s] = store.outgoing[s]
    BY <1>2
  <1>4. /\ <<c>> \in Seq(Messages) /\ Ordered(<<c>>)
        /\ \A x \in ToSet(<<c>>) : x[1] = "ReceiveNft" /\ x[2] = a
    BY <1>1, OneMessage
  <1> QED
    BY <1>1, <1>3, <1>4, UseProgress

LEMMA ReceiveNftProgresses ==
  ASSUME ReceiveInv, RefInv, current # NoPacket, NEW a \in Nft, NEW e \in Ends,
         ReceiveNft(a, e)
  PROVE  RefInv'
  <1> DEFINE m == <<"ReceiveNft", a, e>>
             st == Escrow(store, a, e, current.callback)
  <1>1. /\ Handle(m, st, << >>) /\ m[1] = "ReceiveNft" /\ m[1] \in UseCalls /\ m[2] = a
    BY DEF ReceiveNft, UseCalls
  <1>2. /\ st.owner = store.owner /\ st.outgoing = [store.outgoing EXCEPT ![a] = e]
        /\ store.owner \in [Nft -> Users \cup {Ics721, Nobody}]
        /\ store.outgoing \in [Nft -> Ends \cup {NoEnd}]
    <2>1. store \in Stores
      BY DEF ReceiveInv, TypeOK
    <2> QED
      BY <2>1 DEF Stores, Escrow
  <1> HIDE DEF m, st
  <1>3. store.owner[a] = Ics721
    <2>1. m \in ToSet(todo)
      <3>1. todo \in Seq(Messages) /\ todo # << >> /\ Head(todo) = m
        BY <1>1 DEF Handle, ReceiveInv
      <3> QED
        BY <3>1, TailSet
    <2> QED
      BY <1>1, <2>1 DEF RefInv, Progress
  <1>4. \A s \in Nft \ {a} : /\ st.owner[s] = store.owner[s]
                             /\ st.outgoing[s] = store.outgoing[s]
    BY <1>2
  <1> QED
    BY <1>1, <1>2, <1>3, <1>4, EmptyMessages, UseProgress

LEMMA BeginsProgress ==
  ASSUME ReceiveInv, NEW p \in Packet, ReceiveIbcPacket(p)
  PROVE  RefInv'
  <1> DEFINE T == ToSet(todo')
  <1>1. /\ current' = p /\ todo' = << <<"Conjunction">> >> \o Operands(p)
        /\ UNCHANGED <<store, saved>>
        /\ Redeems(p) \/ Creates(p)
        /\ saved = store /\ store.proxy \in BOOLEAN
    BY DEF ReceiveIbcPacket, ReceiveInv, TypeOK, Stores
  <1>2. Redeems(p) \in BOOLEAN /\ Creates(p) \in BOOLEAN /\ ~(Redeems(p) /\ Creates(p))
    BY NotBothActions DEF Redeems, Creates
  <1>3. RedeemsFrom(p, saved) <=> Redeems(p)
    BY <1>1 DEF RedeemsFrom, Redeems, ReturningToSource
  <1>4. PICK t : t \in NftsOf(p) /\ t \in Nft
    BY PacketNfts
  <1>5. T = {<<"Conjunction">>}
              \cup (IF store.proxy THEN {<<"Proxy">>} ELSE {})
              \cup (IF Redeems(p) THEN {<<"RedeemVouchers">>} ELSE {})
              \cup (IF Creates(p) THEN {<<"CreateVouchers">>} ELSE {})
              \cup (IF p.callback # Nobody THEN {<<"Callback">>} ELSE {})
              \cup (IF Redeems(p) THEN {<<"RedeemOutgoingChannelEntries">>} ELSE {})
              \cup (IF Creates(p) THEN {<<"AddIncomingChannelEntries">>} ELSE {})
    BY <1>1, OperandsMessages
  <1> HIDE DEF T
  <1>6. /\ \A m \in T : m[1] \notin UseCalls
        /\ Left(T, {"RedeemVouchers", "CreateVouchers"})
        /\ Redeems(p) => Left(T, {"RedeemOutgoingChannelEntries"})
        /\ CallsFit(p, saved, T)
    <2>1. \A c : <<c>>[1] = c
      OBVIOUS
    <2>2. /\ <<"RedeemVouchers">> \in T <=> Redeems(p)
          /\ <<"CreateVouchers">> \in T <=> Creates(p)
          /\ <<"RedeemOutgoingChannelEntries">> \in T <=> Redeems(p)
          /\ <<"AddIncomingChannelEntries">> \in T <=> Creates(p)
      BY <1>2, <1>5
    <2>3. \A m \in T : m \in {<<"Conjunction">>, <<"Proxy">>, <<"RedeemVouchers">>,
                              <<"CreateVouchers">>, <<"Callback">>,
                              <<"RedeemOutgoingChannelEntries">>,
                              <<"AddIncomingChannelEntries">>}
      BY <1>5
    <2>4. \A m \in T : /\ m[1] \in {"Conjunction", "Proxy", "RedeemVouchers",
                                    "CreateVouchers", "Callback",
                                    "RedeemOutgoingChannelEntries",
                                    "AddIncomingChannelEntries"}
                       /\ m = <<m[1]>>
      BY <2>3
    <2>5. \A m \in T : m[1] \notin UseCalls
      BY <2>4 DEF UseCalls
    <2>6. /\ Left(T, {"RedeemVouchers", "CreateVouchers"})
          /\ Redeems(p) => Left(T, {"RedeemOutgoingChannelEntries"})
      BY <1>1, <2>1, <2>2 DEF Left
    <2>7. CASE Redeems(p)
      <3>1. \A m \in T : m[1] \notin {"CreateVouchers", "Instantiate", "Mint", "MintNft",
                                      "AddIncomingChannelEntries"}
        BY <1>2, <2>2, <2>4, <2>7
      <3> QED
        BY <1>3, <2>5, <2>6, <2>7, <3>1 DEF CallsFit, Left
    <2>8. CASE ~Redeems(p)
      <3>1. \A m \in T : m[1] \notin {"RedeemVouchers", "TransferNft",
                                      "RedeemOutgoingChannelEntries"}
        BY <2>2, <2>4, <2>8
      <3> QED
        BY <1>3, <2>5, <2>6, <2>8, <3>1 DEF CallsFit, Left
    <2> QED
      BY <2>7, <2>8
  <1>7. \A s : Pending(T, s)
    BY <1>6 DEF Pending, Left
  <1>8. \A s \in NftsOf(p) : EntryOf(p, saved, T, s) = saved.outgoing[s]
    BY <1>3, <1>6 DEF EntryOf
  <1>9. Progress(p, saved, store, T, t)
    BY <1>1, <1>4, <1>6, <1>7, <1>8 DEF Progress, Handed
  <1>10. Progress(current, saved, store, ToSet(todo), t)'
    BY <1>1, <1>9
    DEF T, Progress, CallsFit, Handed, Pending, Calling, RedeemsFrom, TakenFrom, EntryOf,
        NftsOf, Left, LeftFor
  <1> QED
    BY <1>4, <1>10 DEF RefInv

LEMMA NextRefInv == ReceiveInv /\ RefInv /\ [Next]_vars => RefInv'
  <1> SUFFICES ASSUME ReceiveInv, RefInv, [Next]_vars PROVE RefInv'
    OBVIOUS
  <1>1. CASE HandleMessage
    BY <1>1, NothingProgresses, RedeemVouchersProgresses, CreateVouchersProgresses,
       MintProgresses, RedeemOutgoingProgresses, AddIncomingProgresses,
       CallbackProgresses, PauseProgresses, TransferNftProgresses, MintNftProgresses,
       GiveNftProgresses, SendNftProgresses, ReceiveNftProgresses
    DEF HandleMessage
  <1>2. CASE \E p \in Packet : ReceiveIbcPacket(p)
    BY <1>2, BeginsProgress
  <1>3. CASE \/ \E p \in Packet : RefusePacket(p)
             \/ ReplySuccess \/ ReplyError \/ OtherTransaction
    <2>1. current' = NoPacket
      BY <1>3 DEF RefusePacket, ReplySuccess, ReplyError, EndReceipt, OtherTransaction,
                  HolderTransfers, HolderSends, HandlePacketFail, AckSuccess,
                  PauseContract, Migrate, Commit
    <2> QED
      BY <2>1 DEF RefInv
  <1>4. CASE UNCHANGED vars
    <2>1. UNCHANGED <<store, saved, current, todo>>
      BY <1>4 DEF vars
    <2> QED
      BY <2>1
      DEF RefInv, Progress, CallsFit, Handed, Pending, Calling, RedeemsFrom, TakenFrom,
          EntryOf, NftsOf, Left, LeftFor, ToSet
  <1> QED
    BY <1>1, <1>2, <1>3, <1>4 DEF Next, Receipt

-------------------------------------------------------------------------------
(* The refinement: nothing moves until reply, which then takes the one step. *)

\* All messages are handled: the receipt is what AtomicReceipt calls a success.
LEMMA SuccessIsAtomic ==
  ASSUME ReceiveInv, RefInv, ReplySuccess
  PROVE  \E S \in SUBSET Nft, u \in Users, e \in Ends : Atomic!Succeed(S, u, e)
  <1> DEFINE S == NftsOf(current)
             u == current.receiver
             e == current.end
  <1>1. /\ current # NoPacket /\ todo = << >>
        /\ store' = store /\ saved' = store /\ acked' = <<e, "success">>
    BY DEF ReplySuccess, EndReceipt
  <1>2. /\ current \in Packet /\ u \in Users /\ e \in Ends
        /\ store \in Stores /\ saved \in Stores
    BY <1>1 DEF ReceiveInv, TypeOK, Packet
  <1>3. S \in SUBSET Nft /\ S # {}
    BY <1>2, PacketNfts
  <1>4. PICK t \in Nft : Progress(current, saved, store, {}, t)
    BY <1>1, EmptyMessages DEF RefInv
  <1>5. ~Calling({}) /\ \A s : ~Pending({}, s)
    BY DEF Calling, Pending, Left, LeftFor
  <1>6. \A s \in S : /\ saved.owner[s] = TakenFrom(current, saved)
                     /\ \/ store.owner[s] = u
                        \/ s = t /\ store.owner[s] \in Users \cup {Ics721}
    BY <1>4, <1>5 DEF Progress, Handed
  <1>7. \A s \in S : store.owner[s] # Ics721 =>
          store.outgoing[s] = IF saved.owner[s] = Ics721 THEN NoEnd ELSE saved.outgoing[s]
    <2>1. \A s \in S : EntryOf(current, saved, {}, s) =
            IF RedeemsFrom(current, saved) THEN NoEnd ELSE saved.outgoing[s]
      BY DEF EntryOf, Left
    <2>2. \A s \in S : saved.owner[s] = Ics721 <=> RedeemsFrom(current, saved)
      BY <1>6, ReceiveAssumption DEF TakenFrom
    <2> QED
      BY <1>4, <2>1, <2>2 DEF Progress
  <1>8. \/ \A s \in S : saved.owner[s] = Ics721 /\ saved.outgoing[s] = e
        \/ \A s \in S : saved.owner[s] = Nobody
    BY <1>6 DEF TakenFrom, RedeemsFrom
  <1>9. t \in S /\ \A s \in S \ {t} : store.owner[s] = u
    BY <1>4, <1>6 DEF Progress
  <1>10. /\ store.owner \in [Nft -> Users \cup {Ics721, Nobody}]
         /\ store.outgoing \in [Nft -> Ends \cup {NoEnd}]
    BY <1>2 DEF Stores
  <1>11. \A s \in S : store.owner[s] # Nobody
    BY <1>2, <1>6, ReceiveAssumption
  <1>12. \A s \in Nft \ S : store.owner[s] = saved.owner[s] /\ store.outgoing[s] = saved.outgoing[s]
    BY <1>4 DEF Progress
  <1> HIDE DEF S, u, e
  <1>13. Atomic!Succeed(S, u, e)
    <2>1. saved'.owner = store.owner /\ saved'.outgoing = store.outgoing
      BY <1>1
    <2>2. ASSUME NEW s \in Nft
          PROVE  CASE s \notin S -> /\ store.owner[s] = saved.owner[s]
                                    /\ store.outgoing[s] = saved.outgoing[s]
                   [] s \in S /\ store.owner[s] # Ics721 ->
                        /\ store.owner[s] # Nobody
                        /\ store.outgoing[s] = IF saved.owner[s] = Ics721 THEN NoEnd
                                               ELSE saved.outgoing[s]
                   [] OTHER -> TRUE
      <3>1. CASE s \notin S
        BY <1>12, <3>1
      <3>2. CASE s \in S /\ store.owner[s] # Ics721
        BY <1>7, <1>11, <3>2
      <3>3. CASE s \in S /\ store.owner[s] = Ics721
        BY <3>3
      <3> QED
        BY <3>1, <3>2, <3>3
    <2>3. \E x \in S : \A s \in S \ {x} : store.owner[s] = u
      BY <1>9
    <2> QED
      BY <1>1, <1>3, <1>8, <1>10, <2>1, <2>2, <2>3 DEF Atomic!Succeed
  <1> QED
    BY <1>2, <1>3, <1>13 DEF u, e

LEMMA OtherIsAtomic ==
  ASSUME ReceiveInv, OtherTransaction
  PROVE  Atomic!Next \/ UNCHANGED Atomic!vars
  <1>1. ASSUME NEW st, Commit(st)
        PROVE  /\ saved = store /\ saved' = st /\ acked' = acked /\ store \in Stores
    BY <1>1 DEF Commit, ReceiveInv, TypeOK
  <1>2. ASSUME NEW s \in Nft, NEW u \in Users \cup {Nobody}, HolderTransfers(s, u)
        PROVE  Atomic!Give(s)
    <2> DEFINE st == Own(store, s, u)
    <2>1. Commit(st) /\ store.owner[s] \in Users
      BY <1>2 DEF HolderTransfers
    <2>2. saved = store /\ saved' = st /\ acked' = acked /\ store \in Stores
      BY <1>1, <2>1
    <2>3. st.owner = [store.owner EXCEPT ![s] = u] /\ st.outgoing = store.outgoing
      BY <2>2 DEF Stores, Own
    <2> HIDE DEF st
    <2> QED
      BY <2>1, <2>2, <2>3 DEF Atomic!Give
  <1>3. ASSUME NEW s \in Nft, NEW e \in Ends, HolderSends(s, e)
        PROVE  Atomic!Send(s, e)
    <2> DEFINE st == Escrow(Own(store, s, Ics721), s, e, store.owner[s])
    <2>1. Commit(st) /\ store.owner[s] \in Users
      BY <1>3 DEF HolderSends
    <2>2. saved = store /\ saved' = st /\ acked' = acked /\ store \in Stores
      BY <1>1, <2>1
    <2>3. /\ st.owner = [store.owner EXCEPT ![s] = Ics721]
          /\ st.outgoing = [store.outgoing EXCEPT ![s] = e]
      BY <2>2 DEF Stores, Own, Escrow
    <2> HIDE DEF st
    <2> QED
      BY <2>1, <2>2, <2>3 DEF Atomic!Send
  <1>4. ASSUME NEW f \in store.sent, HandlePacketFail(f)
        PROVE  f.nft \in Nft /\ Atomic!Refund(f.nft)
    <2> DEFINE st == [store EXCEPT !.owner[f.nft] = f.sender, !.outgoing[f.nft] = NoEnd,
                                   !.sent = @ \ {f}]
    <2>1. Commit(st) /\ store.owner[f.nft] = Ics721
      BY <1>4 DEF HandlePacketFail
    <2>2. saved = store /\ saved' = st /\ acked' = acked /\ store \in Stores
      BY <1>1, <2>1
    <2>3. /\ st.owner = [store.owner EXCEPT ![f.nft] = f.sender]
          /\ st.outgoing = [store.outgoing EXCEPT ![f.nft] = NoEnd]
          /\ f.nft \in Nft /\ f.sender \in Users
      BY <2>2 DEF Stores
    <2> HIDE DEF st
    <2> QED
      BY <2>1, <2>2, <2>3 DEF Atomic!Refund
  <1>5. ASSUME NEW f \in store.sent, AckSuccess(f)
        PROVE  \/ f.nft \in Nft /\ Atomic!Burn(f.nft)
               \/ UNCHANGED Atomic!vars
    <2>1. CASE store.incoming[f.nft] = f.end
      <3> DEFINE st == [store EXCEPT !.owner[f.nft] = Nobody, !.sent = @ \ {f},
                                     !.incoming[f.nft] = NoEnd, !.metadata = @ \ {f.nft}]
      <3>1. Commit(st) /\ store.owner[f.nft] = Ics721
        BY <1>5, <2>1 DEF AckSuccess
      <3>2. saved = store /\ saved' = st /\ acked' = acked /\ store \in Stores
        BY <1>1, <3>1
      <3>3. /\ st.owner = [store.owner EXCEPT ![f.nft] = Nobody]
            /\ st.outgoing = store.outgoing /\ f.nft \in Nft
        BY <3>2 DEF Stores
      <3> HIDE DEF st
      <3> QED
        BY <3>1, <3>2, <3>3 DEF Atomic!Burn
    <2>2. CASE store.incoming[f.nft] # f.end
      <3> DEFINE st == [store EXCEPT !.sent = @ \ {f}]
      <3>1. Commit(st)
        BY <1>5, <2>2 DEF AckSuccess
      <3>2. saved = store /\ saved' = st /\ acked' = acked /\ store \in Stores
        BY <1>1, <3>1
      <3>3. st.owner = store.owner /\ st.outgoing = store.outgoing
        BY <3>2 DEF Stores
      <3> HIDE DEF st
      <3> QED
        BY <3>2, <3>3 DEF Atomic!vars
    <2> QED
      BY <2>1, <2>2
  <1>6. CASE PauseContract
    <2>1. Commit([store EXCEPT !.paused = TRUE])
      BY <1>6 DEF PauseContract
    <2>2. saved = store /\ saved' = [store EXCEPT !.paused = TRUE] /\ acked' = acked
      BY <1>1, <2>1
    <2> QED
      BY <1>1, <2>1, <2>2 DEF Atomic!vars, Stores
  <1>7. ASSUME NEW proxy \in BOOLEAN, Migrate(proxy)
        PROVE  UNCHANGED Atomic!vars
    <2>1. Commit([store EXCEPT !.paused = FALSE, !.proxy = proxy])
      BY <1>7 DEF Migrate
    <2>2. /\ saved = store /\ saved' = [store EXCEPT !.paused = FALSE, !.proxy = proxy]
          /\ acked' = acked /\ store \in Stores
      BY <1>1, <2>1
    <2> QED
      BY <2>2 DEF Atomic!vars, Stores
  <1> QED
    BY <1>2, <1>3, <1>4, <1>5, <1>6, <1>7 DEF OtherTransaction, Atomic!Next

LEMMA StepIsAtomic ==
  ReceiveInv /\ RefInv /\ [Next]_vars => [Atomic!Next]_(Atomic!vars)
  <1> SUFFICES ASSUME ReceiveInv, RefInv, [Next]_vars
               PROVE  Atomic!Next \/ UNCHANGED Atomic!vars
    OBVIOUS
  <1>1. CASE UNCHANGED <<saved, acked>>
    BY <1>1 DEF Atomic!vars
  <1>2. ASSUME NEW p \in Packet, RefusePacket(p)
        PROVE  p.end \in Ends /\ Atomic!Fail(p.end)
    BY <1>2 DEF RefusePacket, Atomic!Fail, Packet
  <1>3. CASE ReplySuccess
    BY <1>3, SuccessIsAtomic DEF Atomic!Next
  <1>4. CASE ReplyError
    <2>1. current.end \in Ends
      BY <1>4 DEF ReplyError, MayFail, ReceiveInv, TypeOK, Packet
    <2>2. Atomic!Fail(current.end)
      BY <1>4 DEF ReplyError, EndReceipt, Atomic!Fail
    <2> QED
      BY <2>1, <2>2 DEF Atomic!Next
  <1>5. CASE HandleMessage \/ \E p \in Packet : ReceiveIbcPacket(p)
    BY <1>1, <1>5
    DEF HandleMessage, ReceiveIbcPacket, Conjunction, Proxy, RedeemVouchers, CreateVouchers,
        Instantiate, Mint, RedeemOutgoingChannelEntries, AddIncomingChannelEntries,
        Callback, Pause, TransferNft, MintNft, GiveNft, SendNft, ReceiveNft, Handle
  <1>6. CASE UNCHANGED vars
    BY <1>1, <1>6 DEF vars
  <1> QED
    BY <1>2, <1>3, <1>4, <1>5, <1>6, OtherIsAtomic DEF Next, Receipt, Atomic!Next

\* The receipt of a packet, message by message, with any callback and with any
\* failure in its middle, is the one step of AtomicReceipt, for packets of any
\* size.
THEOREM ReceiptIsAtomic == Spec => ReceiptSpec
  <1>1. Init => RefInv
    BY DEF Init, RefInv
  <1>2. Init => Atomic!Init
    <2> SUFFICES ASSUME Init PROVE Atomic!Init
      OBVIOUS
    <2>1. PICK holder \in [Tokens -> Users] :
            /\ store.owner = [s \in Nft |-> IF Via[s[1]] = NoEnd THEN holder[s[2]]
                                            ELSE Nobody]
            /\ store.outgoing = [s \in Nft |-> NoEnd]
      BY DEF Init
    <2>2. \A s \in Nft : s[2] \in Tokens
      BY DEF Nft
    <2>3. store.owner \in [Nft -> Users \cup {Nobody}]
      BY <2>1, <2>2
    <2>4. saved = store /\ acked = <<NoEnd, "none">>
      BY DEF Init
    <2> QED
      BY <2>1, <2>3, <2>4 DEF Atomic!Init
  <1>3. Spec => []RefInv
    BY <1>1, ReceiveInvariant, NextRefInv, PTL DEF Spec
  <1>4. Spec => Atomic!Init /\ [][Atomic!Next]_(Atomic!vars)
    BY <1>2, <1>3, ReceiveInvariant, StepIsAtomic, PTL DEF Spec
  <1> QED
    BY <1>4 DEF ReceiptSpec, Atomic!Spec
===============================================================================
