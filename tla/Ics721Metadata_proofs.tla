------------------------ MODULE Ics721Metadata_proofs ------------------------
(***************************************************************************)
(* Proofs about Ics721Metadata: validate is what keeps zip_optional from   *)
(* dropping tokens, for batches of every length, and an NFT has the data   *)
(* of its source on a line of any length.                                  *)
(***************************************************************************)
EXTENDS Ics721Metadata, SequenceTheorems, TLAPS

\* Zipping a list with one of its length, or with none, keeps it all.
LEMMA ZipKeepsAll ==
  ASSUME NEW S, NEW a \in Seq(S), NEW b, b = None \/ Len(b[1]) = Len(a)
  PROVE  ZipOptional(a, b) = [i \in 1..Len(a) |-> <<a[i], Nth(b, i)>>]
<1>1. Len(a) \in Nat OBVIOUS
<1>2. CASE b = None BY <1>2 DEF ZipOptional, Nth
<1>3. CASE b # None
  <2>1. Len(b[1]) = Len(a) BY <1>3
  <2>2. ZipOptional(a, b) = [i \in 1..Len(a) |-> <<a[i], Some(b[1][i])>>]
    BY <1>1, <1>3, <2>1 DEF ZipOptional
  <2>3. \A i \in 1..Len(a) : Nth(b, i) = Some(b[1][i])
    BY <1>1, <1>3, <2>1 DEF Nth
  <2> QED BY <2>2, <2>3
<1> QED BY <1>2, <1>3

\* A packet that validate accepts is taken apart into all its tokens, in order,
\* each with the uri and the data at its own place (create_voucher_and_channel_messages).
THEOREM ValidTokensAreKept ==
  ASSUME NEW Ids, NEW data, data.token_ids \in Seq(Ids), Validate(data)
  PROVE  Tokens(data) =
           [i \in 1..Len(data.token_ids) |->
              [id |-> data.token_ids[i], uri |-> Nth(data.token_uris, i),
               data |-> Nth(data.token_data, i)]]
<1> DEFINE ids == data.token_ids
           first == ZipOptional(ids, data.token_uris)
           second == ZipOptional(first, data.token_data)
<1>1. Len(ids) \in Nat OBVIOUS
<1>2. /\ data.token_uris = None \/ Len(data.token_uris[1]) = Len(ids)
      /\ data.token_data = None \/ Len(data.token_data[1]) = Len(ids)
  BY DEF Validate
<1>3. first = [i \in 1..Len(ids) |-> <<ids[i], Nth(data.token_uris, i)>>]
  BY <1>2, ZipKeepsAll DEF None
<1>4. first \in Seq(Range(first)) /\ Len(first) = Len(ids)
  <2> HIDE DEF first
  <2>1. \A i \in 1..Len(ids) : first[i] \in Range(first) BY <1>3 DEF Range
  <2>2. first \in [1..Len(ids) -> Range(first)] BY <1>3, <2>1
  <2>3. first \in Seq(Range(first)) BY <1>1, <2>2, SeqDef
  <2> QED BY <1>1, <2>2, <2>3, LenProperties
<1>5. second = [i \in 1..Len(ids) |-> <<first[i], Nth(data.token_data, i)>>]
  <2> DEFINE b == data.token_data
  <2>1. b = None \/ Len(b[1]) = Len(first) BY <1>2, <1>4
  <2> HIDE DEF first, b
  <2>2. ZipOptional(first, b) = [i \in 1..Len(first) |-> <<first[i], Nth(b, i)>>]
    BY <1>4, <2>1, ZipKeepsAll
  <2> QED BY <1>4, <2>2 DEF b
<1>6. DOMAIN second = 1..Len(ids) BY <1>5
<1>7. \A i \in 1..Len(ids) :
        /\ second[i][1][1] = ids[i] /\ second[i][1][2] = Nth(data.token_uris, i)
        /\ second[i][2] = Nth(data.token_data, i)
  <2> HIDE DEF first, second
  <2> QED BY <1>3, <1>5
<1>8. Tokens(data) = [i \in DOMAIN second |->
                        [id |-> second[i][1][1], uri |-> second[i][1][2], data |-> second[i][2]]]
  BY DEF Tokens
<1> QED
  <2> HIDE DEF first, second
  <2> QED BY <1>6, <1>7, <1>8

\* Zipping never makes a list longer, and drops its end if the other is shorter.
THEOREM ZipDrops ==
  ASSUME NEW S, NEW a \in Seq(S), NEW T, NEW b \in Seq(T), Len(b) < Len(a)
  PROVE  DOMAIN ZipOptional(a, Some(b)) = 1..Len(b)
BY DEF ZipOptional, Some, None

-------------------------------------------------------------------------------
(* The invariant.                                                            *)

\* What is said of class k at its source.
ClassFits(k, classData) ==
  IF form[k] = "none" THEN classData = None
  ELSE classData # None /\ classData[1].form = form[k]

Shape ==
  /\ DOMAIN class = Chains /\ DOMAIN name = Chains
  /\ \A c \in Chains : DOMAIN class[c] = Classes /\ DOMAIN name[c] = Classes
  /\ DOMAIN uri = Chains /\ DOMAIN metadata = Chains
  /\ \A c \in Chains : DOMAIN uri[c] = Nfts /\ DOMAIN metadata[c] = Nfts
  /\ DOMAIN place = Nfts /\ DOMAIN given = Nfts

\* The classes that are stored are the source's, and collections have its name.
ClassesInv ==
  /\ form \in Forms
  /\ \A c \in Chains, k \in Classes : class[c][k] # None =>
       /\ class[c][k][1].uri # Some(Empty)
       /\ ClassFits(k, class[c][k][1].data)
  /\ NamesCarried

\* A packet of ICS721 has one NFT, and an optional uri and data of it.
PacketFits(p) ==
  /\ p.from \in 0..N /\ p.to \in 0..N /\ (p.to = p.from + 1 \/ p.from = p.to + 1)
  /\ p.data.token_ids \in Seq(Nfts)
  /\ p.data.class_id \in Classes \cup {Empty}
  /\ \A t \in Range(p.data.token_ids) : p.data.class_id \in {ClassOf(t), Empty}
  /\ p.data.class_id \in Classes /\ p.data.class_data # Some(NoBytes) =>
       ClassFits(p.data.class_id, p.data.class_data)
  /\ IF p.from = 0 THEN Range(p.data.token_ids) \subseteq Foreign
     ELSE /\ p.data.class_id \in Classes
          /\ \E t \in Nfts : p.data.token_ids = <<t>>
          /\ p.data.class_uri # Some(Empty) /\ p.data.class_data # Some(NoBytes)
          /\ \A list \in {p.data.token_uris, p.data.token_data} :
               list # None => list = Some(<<list[1][1]>>)
PacketsInv == \A p \in packets : PacketFits(p)
AcksInv == \A a \in acks :
  /\ a.from \in 0..N /\ a.to \in 0..N /\ a.from # a.to
  /\ Range(a.ids) \subseteq Nfts

\* Where an NFT has come, its class has.
StoredInv == \A c \in Chains, t \in Nfts :
  uri[c][t] # None => class[c][ClassOf(t)] # None \/ (c = 1 /\ t \in Home)

Travels(p, t) == t \in Range(p.data.token_ids)
Failed(a, t) == t \in Range(a.ids) /\ a.ack # "result"
Burns(a, c, t) == a.from = c /\ a.to < c /\ t \in Range(a.ids) /\ a.ack = "result"

\* The chain that has t, or has sent it and is not told of its arrival.
At(t, c) == \/ place[t] = c
            \/ \E p \in packets : Travels(p, t) /\ p.from = c
            \/ \E a \in acks : Failed(a, t) /\ a.from = c
UpTo(t, c) == \E d \in 0..N : At(t, d) /\ c <= d

\* NFT t is in one place, one packet or one failed acknowledgement.
OnePlace(t) ==
  /\ place[t] \in 0..Moving
  /\ place[t] = Moving <=> \/ \E p \in packets : Travels(p, t)
                           \/ \E a \in acks : Failed(a, t)
  /\ \A p, q \in packets : Travels(p, t) /\ Travels(q, t) => p = q
  /\ \A a, b \in acks : Failed(a, t) /\ Failed(b, t) => a = b
  /\ \A p \in packets, a \in acks : ~(Travels(p, t) /\ Failed(a, t))

\* The collections have t up to there, and further away only to burn it, once.
Minted(t) == \A c \in Chains :
  /\ UpTo(t, c) => uri[c][t] # None
  /\ uri[c][t] # None => UpTo(t, c) \/ ToBeBurned(c, t)
  /\ ToBeBurned(c, t) => uri[c][t] # None /\ ~UpTo(t, c)
  /\ \A a, b \in acks : Burns(a, c, t) /\ Burns(b, c, t) => a = b

\* What is stored of t, and sent of it, is what its source gave it.
IsOption(o) == o = None \/ o = Some(o[1])
Kept(t) ==
  /\ IsOption(given[t].uri) /\ IsOption(given[t].data)
  /\ t \in Home => given[t].data = None
  /\ \A c \in Chains : uri[c][t] # None =>
       /\ uri[c][t] = Some(uri[c][t][1]) /\ IsOption(uri[c][t][1])
       /\ IF c = 1 /\ t \in Home THEN metadata[c][t] = None
          ELSE metadata[c][t] = Some(metadata[c][t][1]) /\ IsOption(metadata[c][t][1])
       /\ ~ToBeBurned(c, t) =>
            /\ uri[c][t] = Some(given[t].uri)
            /\ (c = 1 /\ t \in Home) \/ metadata[c][t] = Some(given[t].data)
  /\ \A p \in packets : Travels(p, t) /\ p.from # 0 =>
       /\ Nth(p.data.token_uris, 1) = given[t].uri
       /\ Nth(p.data.token_data, 1) = given[t].data

MetadataInv ==
  /\ Shape /\ ClassesInv /\ PacketsInv /\ AcksInv /\ StoredInv
  /\ \A t \in Nfts : OnePlace(t) /\ Minted(t) /\ Kept(t)

\* An NFT has one chain that has it or has sent it.
LEMMA AtOne ==
  ASSUME NEW t, OnePlace(t), NEW c \in 0..N, NEW d \in 0..N, At(t, c), At(t, d)
  PROVE  c = d
  <1>1. N \in Nat /\ Moving \notin 0..N
    BY MetadataAssumption DEF Moving
  <1>2. CASE place[t] = Moving
    BY <1>1, <1>2 DEF OnePlace, At
  <1>3. CASE place[t] # Moving
    BY <1>3 DEF OnePlace, At
  <1> QED
    BY <1>2, <1>3

-------------------------------------------------------------------------------
(* What may happen to one NFT.                                               *)

\* Nothing.
LEMMA Stays ==
  ASSUME NEW t, OnePlace(t), Minted(t), Kept(t),
         place'[t] = place[t], given'[t] = given[t],
         \A p : Travels(p, t) => (p \in packets' <=> p \in packets),
         \A a : Failed(a, t) \/ (\E c \in Chains : Burns(a, c, t)) =>
                  (a \in acks' <=> a \in acks),
         \A c \in Chains : uri'[c][t] = uri[c][t] /\ metadata'[c][t] = metadata[c][t]
  PROVE  (OnePlace(t) /\ Minted(t) /\ Kept(t))'
  <1>1. \A c : At(t, c)' <=> At(t, c)
    BY DEF At, Travels, Failed
  <1>2. \A c : UpTo(t, c)' <=> UpTo(t, c)
    BY <1>1 DEF UpTo
  <1>3. \A c \in Chains : ToBeBurned(c, t)' <=> ToBeBurned(c, t)
    BY DEF ToBeBurned, Burns
  <1>4. OnePlace(t)'
    BY DEF OnePlace, Travels, Failed
  <1>5. Minted(t)'
    BY <1>2, <1>3 DEF Minted, Burns
  <1>6. Kept(t)'
    <2>1. \A p \in packets' : Travels(p, t) => p \in packets
      OBVIOUS
    <2> QED
      BY <1>3, <2>1 DEF Kept, Nth, Travels
  <1> QED
    BY <1>4, <1>5, <1>6

\* It is sent by the chain that has it.
LEMMA Leaves ==
  ASSUME NEW t, OnePlace(t), Minted(t), Kept(t),
         NEW c \in 0..N, place[t] = c, place'[t] = Moving,
         NEW p, Travels(p, t), p.from = c, packets' = packets \cup {p},
         c # 0 => /\ Nth(p.data.token_uris, 1) = given[t].uri
                  /\ Nth(p.data.token_data, 1) = given[t].data,
         UNCHANGED <<uri, metadata, acks, given>>
  PROVE  (OnePlace(t) /\ Minted(t) /\ Kept(t))'
  <1>1. N \in Nat /\ Moving \notin 0..N /\ Moving \in 0..Moving
    BY MetadataAssumption DEF Moving
  <1>2. /\ \A q \in packets : ~Travels(q, t)
        /\ \A a \in acks : ~Failed(a, t)
    BY <1>1 DEF OnePlace
  <1>3. \A d \in 0..N : At(t, d)' <=> At(t, d)
    BY <1>1, <1>2 DEF At, Travels, Failed
  <1>4. \A d : UpTo(t, d)' <=> UpTo(t, d)
    BY <1>3 DEF UpTo
  <1>5. OnePlace(t)'
    BY <1>1, <1>2 DEF OnePlace, Travels, Failed
  <1>6. Minted(t)'
    BY <1>4 DEF Minted, ToBeBurned, Burns
  <1>7. Kept(t)'
    BY <1>2 DEF Kept, Travels, ToBeBurned, Nth
  <1> QED
    BY <1>5, <1>6, <1>7

\* A packet with it is refused.
LEMMA IsRefused ==
  ASSUME NEW t, OnePlace(t), Minted(t), Kept(t),
         NEW p \in packets, Travels(p, t), packets' = packets \ {p},
         NEW a, Failed(a, t), a.from = p.from, acks' = acks \cup {a},
         UNCHANGED <<place, uri, metadata, given>>
  PROVE  (OnePlace(t) /\ Minted(t) /\ Kept(t))'
  <1>1. /\ \A q \in packets' : ~Travels(q, t)
        /\ \A b \in acks : ~Failed(b, t)
    BY DEF OnePlace
  <1>2. \A d : At(t, d)' <=> At(t, d)
    BY <1>1 DEF At, Travels, Failed, OnePlace
  <1>3. \A d : UpTo(t, d)' <=> UpTo(t, d)
    BY <1>2 DEF UpTo
  <1>4. \A d : ToBeBurned(d, t)' <=> ToBeBurned(d, t)
    BY DEF ToBeBurned, Failed
  <1>5. OnePlace(t)'
    BY <1>1 DEF OnePlace, Travels, Failed
  <1>6. Minted(t)'
    BY <1>3, <1>4 DEF Minted, Burns, Failed
  <1>7. Kept(t)'
    BY <1>1, <1>4 DEF Kept, Travels, Nth
  <1> QED
    BY <1>5, <1>6, <1>7

\* It is refunded.
LEMMA IsRefunded ==
  ASSUME NEW t, OnePlace(t), Minted(t), Kept(t),
         NEW a \in acks, Failed(a, t), a.from \in 0..N, acks' = acks \ {a},
         place'[t] = a.from,
         \A c \in Chains : uri'[c][t] = uri[c][t] /\ metadata'[c][t] = metadata[c][t],
         UNCHANGED <<packets, given>>
  PROVE  (OnePlace(t) /\ Minted(t) /\ Kept(t))'
  <1>1. N \in Nat /\ Moving \notin 0..N /\ a.from \in 0..Moving
    BY MetadataAssumption DEF Moving
  <1>2. /\ \A q \in packets : ~Travels(q, t)
        /\ \A b \in acks' : ~Failed(b, t)
        /\ place[t] = Moving
    BY DEF OnePlace
  <1>3. \A d \in 0..N : At(t, d)' <=> At(t, d)
    BY <1>1, <1>2 DEF At, Travels, Failed, OnePlace
  <1>4. \A d : UpTo(t, d)' <=> UpTo(t, d)
    BY <1>3 DEF UpTo
  <1>5. \A d : ToBeBurned(d, t)' <=> ToBeBurned(d, t)
    BY DEF ToBeBurned, Failed
  <1>6. OnePlace(t)'
    BY <1>1, <1>2 DEF OnePlace, Travels, Failed
  <1>7. Minted(t)'
    BY <1>4, <1>5 DEF Minted, Burns
  <1>8. Kept(t)'
    BY <1>2, <1>5 DEF Kept, Travels, Nth
  <1> QED
    BY <1>6, <1>7, <1>8

\* It is released one chain back, and has to be burned where it came from.
LEMMA Returns ==
  ASSUME NEW t, OnePlace(t), Minted(t), Kept(t),
         NEW p \in packets, Travels(p, t), packets' = packets \ {p},
         p.from \in 0..N, p.to \in 0..N, p.from = p.to + 1, place'[t] = p.to,
         NEW a, Burns(a, p.from, t), acks' = acks \cup {a},
         UNCHANGED <<uri, metadata, given>>
  PROVE  (OnePlace(t) /\ Minted(t) /\ Kept(t))'
  <1>1. /\ N \in Nat /\ Moving \notin 0..N /\ p.to \in 0..Moving
        /\ p.from \in Chains /\ p.to < p.from
    BY MetadataAssumption DEF Moving, Chains
  <1>2. /\ \A q \in packets' : ~Travels(q, t)
        /\ \A b \in acks' : ~Failed(b, t)
        /\ place[t] = Moving
    BY DEF OnePlace, Burns, Failed
  <1>3. \A d \in 0..N : (At(t, d) <=> d = p.from) /\ (At(t, d)' <=> d = p.to)
    <2>1. At(t, p.from)
      BY DEF At
    <2>2. \A d \in 0..N : At(t, d) => d = p.from
      BY <2>1, AtOne
    <2>3. \A d \in 0..N : At(t, d)' <=> d = p.to
      BY <1>1, <1>2 DEF At, Travels, Failed
    <2> QED
      BY <2>1, <2>2, <2>3
  <1>4. \A d \in Chains : (UpTo(t, d) <=> d <= p.from) /\ (UpTo(t, d)' <=> d <= p.to)
    BY <1>3 DEF UpTo
  <1>5. \A d \in Chains : ToBeBurned(d, t)' <=> ToBeBurned(d, t) \/ d = p.from
    BY <1>1 DEF ToBeBurned, Burns
  <1>6. OnePlace(t)'
    BY <1>1, <1>2 DEF OnePlace, Travels, Failed
  <1>7. ~ToBeBurned(p.from, t) /\ uri[p.from][t] # None
    BY <1>1, <1>4 DEF Minted
  <1>8. Minted(t)'
    <2>1. ASSUME NEW d \in Chains
          PROVE  /\ UpTo(t, d)' => uri[d][t] # None
                 /\ uri[d][t] # None => UpTo(t, d)' \/ ToBeBurned(d, t)'
                 /\ ToBeBurned(d, t)' => uri[d][t] # None /\ ~UpTo(t, d)'
      <3>1. d \in Nat /\ p.from \in Nat /\ p.to \in Nat
        BY <1>1 DEF Chains
      <3>2. d <= p.to => d <= p.from
        BY <3>1
      <3>3. d <= p.from => d <= p.to \/ d = p.from
        BY <3>1
      <3>4. ~(p.from <= p.to)
        BY <3>1
      <3> QED
        BY <1>4, <1>5, <1>7, <3>2, <3>3, <3>4 DEF Minted
    <2>2. ASSUME NEW d \in Chains, NEW x \in acks', NEW y \in acks',
                 Burns(x, d, t), Burns(y, d, t)
          PROVE  x = y
      <3>1. CASE d = p.from
        BY <1>7, <2>2, <3>1 DEF ToBeBurned, Burns
      <3>2. CASE d # p.from
        BY <2>2, <3>2 DEF Minted, Burns
      <3> QED
        BY <3>1, <3>2
    <2> QED
      BY <2>1, <2>2 DEF Minted, Burns
  <1>9. Kept(t)'
    BY <1>2, <1>5 DEF Kept, Travels, Nth
  <1> QED
    BY <1>6, <1>8, <1>9

\* The voucher that was left behind is burned.
LEMMA IsBurned ==
  ASSUME NEW t, OnePlace(t), Minted(t), Kept(t),
         NEW a \in acks, NEW b \in Chains, Burns(a, b, t), acks' = acks \ {a},
         place'[t] = place[t], uri'[b][t] = None,
         \A c \in Chains \ {b} : uri'[c][t] = uri[c][t] /\ metadata'[c][t] = metadata[c][t],
         UNCHANGED <<packets, given>>
  PROVE  (OnePlace(t) /\ Minted(t) /\ Kept(t))'
  <1>1. /\ ~Failed(a, t)
        /\ \A x \in acks : Burns(x, b, t) => x = a
        /\ ToBeBurned(b, t) /\ ~UpTo(t, b)
    BY DEF Failed, Burns, Minted, ToBeBurned
  <1>2. \A d : At(t, d)' <=> At(t, d)
    BY <1>1 DEF At, Travels, Failed
  <1>3. \A d : UpTo(t, d)' <=> UpTo(t, d)
    BY <1>2 DEF UpTo
  <1>4. \A d \in Chains : ToBeBurned(d, t)' <=> ToBeBurned(d, t) /\ d # b
    BY <1>1 DEF ToBeBurned, Burns
  <1>5. OnePlace(t)'
    BY <1>1 DEF OnePlace, Travels, Failed
  <1>6. Minted(t)'
    <2>1. \A d \in Chains, x, y \in acks' : Burns(x, d, t) /\ Burns(y, d, t) => x = y
      BY DEF Minted
    <2>2. \A d \in Chains :
            /\ UpTo(t, d)' => uri'[d][t] # None
            /\ uri'[d][t] # None => UpTo(t, d)' \/ ToBeBurned(d, t)'
            /\ ToBeBurned(d, t)' => uri'[d][t] # None /\ ~UpTo(t, d)'
      BY <1>1, <1>3, <1>4 DEF Minted
    <2> QED
      BY <2>1, <2>2 DEF Minted, Burns
  <1>7. Kept(t)'
    BY <1>4 DEF Kept, Travels, Nth
  <1> QED
    BY <1>5, <1>6, <1>7

\* It arrives one chain further.
LEMMA Arrives ==
  ASSUME NEW t, OnePlace(t), Minted(t), Kept(t),
         NEW p \in packets, Travels(p, t), packets' = packets \ {p},
         p.from \in 0..N, p.to \in 0..N, p.to = p.from + 1, place'[t] = p.to,
         NEW a, a.from = p.from, a.to = p.to, a.ack = "result", acks' = acks \cup {a},
         uri[p.to][t] = None, NEW u, NEW v, IsOption(u), IsOption(v),
         uri'[p.to][t] = Some(u), metadata'[p.to][t] = Some(v),
         \A c \in Chains \ {p.to} :
            uri'[c][t] = uri[c][t] /\ metadata'[c][t] = metadata[c][t],
         t \in Home => p.from # 0,
         given'[t].uri = u /\ given'[t].data = v,
         p.from # 0 => given'[t] = given[t]
  PROVE  (OnePlace(t) /\ Minted(t) /\ Kept(t))'
  <1>1. /\ N \in Nat /\ Moving \notin 0..N /\ p.to \in 0..Moving
        /\ p.to \in Chains
    BY MetadataAssumption DEF Moving, Chains
  <1>2. /\ \A q \in packets' : ~Travels(q, t)
        /\ \A b \in acks' : ~Failed(b, t)
        /\ \A d \in Chains : ~Burns(a, d, t)
    BY DEF OnePlace, Failed, Burns
  <1>3. \A d \in 0..N : (At(t, d) <=> d = p.from) /\ (At(t, d)' <=> d = p.to)
    <2>1. At(t, p.from)
      BY DEF At
    <2>2. \A d \in 0..N : At(t, d) => d = p.from
      BY <2>1, AtOne
    <2>3. \A d \in 0..N : At(t, d)' <=> d = p.to
      BY <1>1, <1>2 DEF At, Travels, Failed
    <2> QED
      BY <2>1, <2>2, <2>3
  <1>4. \A d \in Chains : (UpTo(t, d) <=> d <= p.from) /\ (UpTo(t, d)' <=> d <= p.to)
    BY <1>3 DEF UpTo
  <1>5. \A d \in Chains : ToBeBurned(d, t)' <=> ToBeBurned(d, t)
    BY <1>2 DEF ToBeBurned, Burns
  <1>6. OnePlace(t)'
    BY <1>1, <1>2 DEF OnePlace, Travels, Failed
  <1>7. ~ToBeBurned(p.to, t)
    BY <1>1 DEF Minted
  <1>8. Minted(t)'
    <2>1. ASSUME NEW d \in Chains
          PROVE  /\ UpTo(t, d)' => uri'[d][t] # None
                 /\ uri'[d][t] # None => UpTo(t, d)' \/ ToBeBurned(d, t)'
                 /\ ToBeBurned(d, t)' => uri'[d][t] # None /\ ~UpTo(t, d)'
      <3>1. d \in Nat /\ p.from \in Nat /\ p.to \in Nat /\ p.to = p.from + 1
        BY <1>1 DEF Chains
      <3>2. d <= p.to <=> d <= p.from \/ d = p.to
        BY <3>1
      <3>3. Some(u) # None
        BY DEF Some, None
      <3>4. CASE d = p.to
        BY <1>1, <1>4, <1>5, <1>7, <3>2, <3>3, <3>4
      <3>5. CASE d # p.to
        BY <1>4, <1>5, <3>2, <3>5 DEF Minted
      <3> QED
        BY <3>4, <3>5
    <2>2. \A d \in Chains, x, y \in acks' : Burns(x, d, t) /\ Burns(y, d, t) => x = y
      BY <1>2 DEF Minted
    <2> QED
      BY <2>1, <2>2 DEF Minted, Burns
  <1>9. Kept(t)'
    <2>1. Some(u)[1] = u /\ Some(v)[1] = v
      BY DEF Some
    <2>2. ASSUME NEW d \in Chains, uri'[d][t] # None
          PROVE  /\ uri'[d][t] = Some(uri'[d][t][1]) /\ IsOption(uri'[d][t][1])
                 /\ IF d = 1 /\ t \in Home THEN metadata'[d][t] = None
                    ELSE /\ metadata'[d][t] = Some(metadata'[d][t][1])
                         /\ IsOption(metadata'[d][t][1])
                 /\ ~ToBeBurned(d, t)' =>
                      /\ uri'[d][t] = Some(given'[t].uri)
                      /\ (d = 1 /\ t \in Home) \/ metadata'[d][t] = Some(given'[t].data)
      <3>1. CASE d = p.to
        <4>1. ~(d = 1 /\ t \in Home)
          BY <1>1, <3>1
        <4> QED
          BY <1>1, <2>1, <3>1, <4>1
      <3>2. CASE d # p.to /\ p.from # 0
        BY <1>5, <2>2, <3>2 DEF Kept
      <3>3. CASE d # p.to /\ p.from = 0
        <4>1. ~UpTo(t, d)
          BY <1>4, <3>3 DEF Chains
        <4>2. ToBeBurned(d, t)'
          BY <1>5, <2>2, <3>3, <4>1 DEF Minted
        <4> QED
          BY <2>2, <3>3, <4>2 DEF Kept
      <3> QED
        BY <3>1, <3>2, <3>3
    <2>3. t \in Home => given'[t].data = None
      BY DEF Kept
    <2> QED
      BY <1>2, <2>2, <2>3 DEF Kept, Travels, IsOption
  <1> QED
    BY <1>6, <1>8, <1>9

-------------------------------------------------------------------------------
(* Facts about the data.                                                     *)

\* What an Option of something holds.
LEMMA SomeIsNotNone == \A x : Some(x) # None /\ Some(x)[1] = x /\ Len(Some(x)) = 1
  BY DEF Some, None

\* The elements of a sequence.
LEMMA SeqRange ==
  ASSUME NEW S, NEW q \in Seq(S) PROVE Range(q) \subseteq S
  BY LenProperties, ElementOfSeq DEF Range

\* The elements of a packet of one NFT.
LEMMA OneRange == \A t : Range(<<t>>) = {t}
  BY DEF Range

\* Every NFT has a class.
LEMMA ClassOfNft == \A t : ClassOf(t) \in Classes
  BY DEF ClassOf, Classes

\* An option sent as a list is read as that option.
LEMMA OptionAsList ==
  ASSUME NEW o, IsOption(o), NEW list, list = IF o = None THEN None ELSE Some(o)
  PROVE  /\ Nth(list, 1) = o
         /\ list # None => list = Some(<<list[1][1]>>)
  <1>1. CASE o = None
    BY <1>1 DEF Nth
  <1>2. CASE o # None
    <2>1. o = Some(o[1]) /\ Len(o) = 1 /\ list[1] = o /\ list # None
      BY <1>2, SomeIsNotNone DEF IsOption
    <2>2. Nth(list, 1) = Some(o[1])
      BY <2>1 DEF Nth
    <2> QED
      BY <1>2, <2>1, <2>2 DEF Some
  <1> QED
    BY <1>1, <1>2

\* zip_optional gives every token an optional uri and data.
LEMMA NthIsOption == \A list, i : IsOption(Nth(list, i))
  BY SomeIsNotNone DEF Nth, IsOption

\* What the source says of a class is not a Binary of no bytes.
LEMMA FitsIsValid ==
  ASSUME form \in Forms, NEW k \in Classes, NEW d, ClassFits(k, d)
  PROVE  d # Some(NoBytes)
  <1>1. form[k] # "empty"
    BY DEF Forms, Classes
  <1>2. Some(NoBytes)[1].form = "empty" /\ Some(NoBytes) # None
    BY SomeIsNotNone DEF NoBytes
  <1> QED
    BY <1>1, <1>2 DEF ClassFits

\* The name that is made of a class's data is the source's.
LEMMA FitsIsNamed ==
  ASSUME form \in Forms, NEW k \in Classes, NEW d, ClassFits(k, d)
  PROVE  NameOf(d) = IF form[k] \in {"collection", "extended"} THEN "source name"
                     ELSE "class id"
  BY DEF ClassFits, NameOf, IsCollectionData, Forms, Classes

\* A class is stored, and its collection named if it is new.
LEMMA ClassIsStored ==
  ASSUME Shape, ClassesInv, NEW c \in Chains, NEW k \in Classes, NEW r,
         r.uri # Some(Empty), ClassFits(k, r.data),
         class' = [class EXCEPT ![c][k] = Some(r)], form' = form,
         \/ name' = name
         \/ name' = [name EXCEPT ![c][k] = IF @ # None THEN @ ELSE Some(NameOf(r.data))]
  PROVE  /\ ClassesInv'
         /\ DOMAIN class' = Chains /\ DOMAIN name' = Chains
         /\ \A x \in Chains : DOMAIN class'[x] = Classes /\ DOMAIN name'[x] = Classes
         /\ class'[c][k] # None
         /\ \A x \in Chains, y \in Classes : class[x][y] # None => class'[x][y] # None
  <1>1. \A x \in Chains, y \in Classes :
          class'[x][y] = IF x = c /\ y = k THEN Some(r) ELSE class[x][y]
    BY DEF Shape
  <1>2. /\ DOMAIN class' = Chains /\ DOMAIN name' = Chains
        /\ \A x \in Chains : DOMAIN class'[x] = Classes /\ DOMAIN name'[x] = Classes
    BY DEF Shape
  <1>3. \A x \in Chains, y \in Classes : class'[x][y] # None =>
          /\ class'[x][y][1].uri # Some(Empty)
          /\ ClassFits(y, class'[x][y][1].data)
    BY <1>1, SomeIsNotNone DEF ClassesInv
  <1>4. \A x \in Chains, y \in Classes : name'[x][y] # None =>
          name'[x][y] = Some(IF form[y] \in {"collection", "extended"} THEN "source name"
                             ELSE "class id")
    <2>1. CASE name' = name
      BY <2>1 DEF ClassesInv, NamesCarried
    <2>2. CASE name' = [name EXCEPT ![c][k] = IF @ # None THEN @ ELSE Some(NameOf(r.data))]
      <3>1. \A x \in Chains, y \in Classes :
              name'[x][y] = IF x = c /\ y = k /\ name[x][y] = None
                            THEN Some(NameOf(r.data)) ELSE name[x][y]
        BY <2>2 DEF Shape
      <3>2. NameOf(r.data) = IF form[k] \in {"collection", "extended"} THEN "source name"
                             ELSE "class id"
        BY FitsIsNamed DEF ClassesInv
      <3>3. ASSUME NEW x \in Chains, NEW y \in Classes, name'[x][y] # None
            PROVE  name'[x][y] = Some(IF form[y] \in {"collection", "extended"}
                                      THEN "source name" ELSE "class id")
        <4>1. CASE x = c /\ y = k /\ name[x][y] = None
          BY <3>1, <3>2, <4>1
        <4>2. CASE ~(x = c /\ y = k /\ name[x][y] = None)
          <5>1. name'[x][y] = name[x][y]
            BY <3>1, <4>2
          <5> QED
            BY <3>3, <5>1 DEF ClassesInv, NamesCarried
        <4> QED
          BY <4>1, <4>2
      <3> QED
        BY <3>3
    <2> QED
      BY <2>1, <2>2
  <1>5. ClassesInv'
    <2>1. NamesCarried'
      BY <1>4 DEF NamesCarried
    <2>2. form' \in Forms
      BY DEF ClassesInv
    <2>3. (\A x \in Chains, y \in Classes : class[x][y] # None =>
             /\ class[x][y][1].uri # Some(Empty)
             /\ ClassFits(y, class[x][y][1].data))'
      BY <1>3 DEF ClassFits
    <2> QED
      BY <2>1, <2>2, <2>3 DEF ClassesInv
  <1> QED
    BY <1>1, <1>2, <1>5, SomeIsNotNone

-------------------------------------------------------------------------------
(* The actions keep the invariant.                                           *)

\* A step that changes nothing of what the invariant is about.
LEMMA SameKeepsInv ==
  ASSUME MetadataInv,
         UNCHANGED <<form, class, name, uri, metadata, place, packets, acks, given>>
  PROVE  MetadataInv'
  <1>1. ASSUME NEW t \in Nfts PROVE (OnePlace(t) /\ Minted(t) /\ Kept(t))'
    BY Stays DEF MetadataInv
  <1>2. (Shape /\ ClassesInv /\ PacketsInv /\ AcksInv /\ StoredInv)'
    BY DEF MetadataInv, Shape, ClassesInv, PacketsInv, PacketFits, AcksInv, StoredInv,
           NamesCarried, ClassFits
  <1> QED
    BY <1>1, <1>2 DEF MetadataInv

\* Classes, names and what collections and TOKEN_METADATA hold stay.
LEMMA StoresStay ==
  ASSUME MetadataInv, UNCHANGED <<form, class, name, uri, metadata, given>>,
         DOMAIN place' = Nfts
  PROVE  (Shape /\ ClassesInv /\ StoredInv)'
  BY DEF MetadataInv, Shape, ClassesInv, StoredInv, NamesCarried, ClassFits

\* A packet that is well built may be sent.
LEMMA PacketGoes ==
  ASSUME MetadataInv, NEW p, PacketFits(p), packets' = packets \cup {p}, form' = form
  PROVE  PacketsInv'
  BY DEF MetadataInv, PacketsInv, PacketFits, ClassFits

\* A packet is gone when it is answered, and the answer is about its NFTs.
LEMMA PacketIsAnswered ==
  ASSUME MetadataInv, NEW p \in packets, NEW ack, Answer(p, ack), form' = form
  PROVE  (PacketsInv /\ AcksInv)'
  <1>1. PacketFits(p)
    BY DEF MetadataInv, PacketsInv
  <1>2. p.from # p.to
    BY <1>1, MetadataAssumption DEF PacketFits
  <1>3. Range(p.data.token_ids) \subseteq Nfts
    BY <1>1, SeqRange DEF PacketFits
  <1>4. AcksInv'
    BY <1>1, <1>2, <1>3 DEF Answer, AcksInv, MetadataInv, PacketFits
  <1>5. PacketsInv'
    BY DEF Answer, MetadataInv, PacketsInv, PacketFits, ClassFits
  <1> QED
    BY <1>4, <1>5

\* The class of the module at 0 may change: what is stored of it may be old.
LEMMA UpdateSourceKeepsInv ==
  ASSUME MetadataInv, UpdateSource PROVE MetadataInv'
  BY SameKeepsInv DEF UpdateSource

\* receive_nft sends the uri of the collection and the data of TOKEN_METADATA.
LEMMA SendKeepsInv ==
  ASSUME MetadataInv, NEW c \in Chains, NEW t \in Nfts, NEW to \in {c - 1, c + 1} \cap 0..N,
         Send(c, t, to)
  PROVE  MetadataInv'
  <1> DEFINE d == PacketData(c, t)
             p == [seq |-> sent + 1, from |-> c, to |-> to, data |-> d]
             k == ClassOf(t)
  <1>1. /\ place[t] = c /\ packets' = packets \cup {p}
        /\ place' = [x \in Nfts |-> IF x \in Range(d.token_ids) THEN Moving ELSE place[x]]
        /\ class' = [class EXCEPT ![c][k] = Some(SenderClass(c, k))]
        /\ UNCHANGED <<form, version, name, uri, metadata, acks, given>>
    BY DEF Send, NewPacket
  <1>2. c \in 0..N /\ c # 0 /\ c \in Nat
    BY MetadataAssumption DEF Chains
  <1>3. OnePlace(t) /\ Minted(t) /\ Kept(t) /\ k \in Classes /\ form \in Forms
    BY ClassOfNft DEF MetadataInv, ClassesInv
  <1>4. /\ uri[c][t] # None /\ ~ToBeBurned(c, t)
    <2>1. UpTo(t, c)
      BY <1>1, <1>2 DEF UpTo, At
    <2> QED
      BY <1>3, <2>1 DEF Minted
  <1>5. /\ uri[c][t][1] = given[t].uri /\ IsOption(given[t].uri)
        /\ (IF metadata[c][t] = None THEN None ELSE metadata[c][t][1]) = given[t].data
        /\ IsOption(given[t].data)
    <2>1. uri[c][t] = Some(given[t].uri)
      BY <1>3, <1>4 DEF Kept
    <2>2. CASE c = 1 /\ t \in Home
      BY <1>3, <1>4, <2>1, <2>2, SomeIsNotNone DEF Kept
    <2>3. CASE ~(c = 1 /\ t \in Home)
      BY <1>3, <1>4, <2>1, <2>3, SomeIsNotNone DEF Kept
    <2> QED
      BY <2>2, <2>3
  <1>6. SenderClass(c, k).uri # Some(Empty) /\ ClassFits(k, SenderClass(c, k).data)
    <2>1. CASE class[c][k] # None
      BY <1>3, <2>1 DEF SenderClass, MetadataInv, ClassesInv
    <2>2. CASE class[c][k] = None
      <3>1. t \in Home
        BY <1>4, <2>2 DEF MetadataInv, StoredInv
      <3>2. k = "home" /\ form.home \in {"collection", "extended"}
        BY <1>3, <3>1 DEF ClassOf, Forms
      <3>3. SenderClass(c, k) = [uri |-> None, data |-> Some([form |-> form.home, version |-> 1])]
        BY <2>2 DEF SenderClass
      <3> QED
        BY <3>2, <3>3, SomeIsNotNone DEF ClassFits
    <2> QED
      BY <2>1, <2>2
  <1>7. /\ d.class_id = k /\ d.token_ids = <<t>>
        /\ d.class_uri = SenderClass(c, k).uri /\ d.class_data = SenderClass(c, k).data
        /\ d.token_uris = IF given[t].uri = None THEN None ELSE Some(given[t].uri)
        /\ d.token_data = IF given[t].data = None THEN None ELSE Some(given[t].data)
    BY <1>5 DEF PacketData
  <1>8. p.from = c /\ p.to = to /\ p.data = d
    OBVIOUS
  <1> HIDE DEF d, p, k
  <1>9. /\ Nth(d.token_uris, 1) = given[t].uri /\ Nth(d.token_data, 1) = given[t].data
        /\ \A list \in {d.token_uris, d.token_data} :
             list # None => list = Some(<<list[1][1]>>)
    BY <1>5, <1>7, OptionAsList
  <1>10. PacketFits(p)
    <2>1. p.to \in 0..N /\ (p.to = p.from + 1 \/ p.from = p.to + 1)
      BY <1>2, <1>8
    <2>2. d.class_data # Some(NoBytes)
      BY <1>3, <1>6, <1>7, FitsIsValid
    <2>3. <<t>> \in Seq(Nfts) /\ Range(<<t>>) = {t}
      BY OneRange
    <2> QED
      BY <1>2, <1>3, <1>6, <1>7, <1>8, <1>9, <2>1, <2>2, <2>3 DEF PacketFits, k
  <1>11. \A x : Travels(p, x) <=> x = t
    BY <1>7, <1>8, OneRange DEF Travels
  <1>12. place' = [x \in Nfts |-> IF x = t THEN Moving ELSE place[x]]
    BY <1>1, <1>7, OneRange
  <1>13. ASSUME NEW x \in Nfts PROVE (OnePlace(x) /\ Minted(x) /\ Kept(x))'
    <2>1. OnePlace(x) /\ Minted(x) /\ Kept(x)
      BY DEF MetadataInv
    <2>2. CASE x = t
      <3>1. place'[t] = Moving /\ Travels(p, t)
        BY <1>11, <1>12
      <3> QED
        BY <1>1, <1>2, <1>8, <1>9, <2>1, <2>2, <3>1, Leaves
    <2>3. CASE x # t
      <3>1. place'[x] = place[x] /\ \A q : Travels(q, x) => (q \in packets' <=> q \in packets)
        BY <1>1, <1>11, <1>12, <2>3
      <3> QED
        BY <1>1, <2>1, <3>1, Stays
    <2> QED
      BY <2>2, <2>3
  <1>14. PacketsInv' /\ AcksInv'
    BY <1>1, <1>10, PacketGoes DEF MetadataInv, AcksInv
  <1>15. (Shape /\ ClassesInv /\ StoredInv)'
    <2>1. /\ ClassesInv'
          /\ DOMAIN class' = Chains /\ DOMAIN name' = Chains
          /\ \A x \in Chains : DOMAIN class'[x] = Classes /\ DOMAIN name'[x] = Classes
          /\ \A x \in Chains, y \in Classes : class[x][y] # None => class'[x][y] # None
      BY <1>1, <1>3, <1>6, ClassIsStored DEF MetadataInv
    <2>2. Shape'
      BY <1>1, <1>12, <2>1 DEF MetadataInv, Shape
    <2>3. StoredInv'
      BY <1>1, <2>1, ClassOfNft DEF MetadataInv, StoredInv
    <2> QED
      BY <2>1, <2>2, <2>3
  <1> QED
    BY <1>13, <1>14, <1>15 DEF MetadataInv

\* An error keeps the NFTs with their acknowledgement.
LEMMA RefuseKeepsInv ==
  ASSUME MetadataInv, NEW p \in packets, Refuse(p)
  PROVE  MetadataInv'
  <1>1. PICK ack \in {"error", "unparsable"} : Answer(p, ack)
    BY DEF Refuse
  <1> DEFINE a == [seq |-> p.seq, from |-> p.from, to |-> p.to,
                   ids |-> p.data.token_ids, ack |-> ack]
  <1>2. /\ packets' = packets \ {p} /\ acks' = acks \cup {a}
        /\ UNCHANGED <<form, class, name, uri, metadata, place, given>>
    BY <1>1 DEF Answer, Refuse
  <1>3. /\ a.from = p.from /\ a.ack # "result"
        /\ \A x : Failed(a, x) <=> Travels(p, x)
        /\ \A x, c : ~Burns(a, c, x)
    BY DEF Failed, Travels, Burns
  <1> HIDE DEF a
  <1>4. ASSUME NEW x \in Nfts PROVE (OnePlace(x) /\ Minted(x) /\ Kept(x))'
    <2>1. OnePlace(x) /\ Minted(x) /\ Kept(x)
      BY DEF MetadataInv
    <2>2. CASE Travels(p, x)
      BY <1>2, <1>3, <2>1, <2>2, IsRefused
    <2>3. CASE ~Travels(p, x)
      <3>1. /\ \A q : Travels(q, x) => (q \in packets' <=> q \in packets)
            /\ \A b : Failed(b, x) \/ (\E c \in Chains : Burns(b, c, x)) =>
                        (b \in acks' <=> b \in acks)
        BY <1>2, <1>3, <2>3
      <3> QED
        BY <1>2, <2>1, <3>1, Stays
    <2> QED
      BY <2>2, <2>3
  <1>5. DOMAIN place' = Nfts
    BY <1>2 DEF MetadataInv, Shape
  <1> QED
    BY <1>1, <1>2, <1>4, <1>5, StoresStay, PacketIsAnswered DEF MetadataInv

\* A packet that comes back releases its NFTs; its vouchers are still to be burned.
LEMMA ReceiveReturningKeepsInv ==
  ASSUME MetadataInv, NEW p \in packets, ReceiveReturning(p)
  PROVE  MetadataInv'
  <1> DEFINE a == [seq |-> p.seq, from |-> p.from, to |-> p.to,
                   ids |-> p.data.token_ids, ack |-> "result"]
  <1>1. /\ packets' = packets \ {p} /\ acks' = acks \cup {a} /\ p.from > p.to
        /\ place' = [t \in Nfts |-> IF t \in Range(p.data.token_ids) THEN p.to ELSE place[t]]
        /\ UNCHANGED <<form, class, name, uri, metadata, given>>
        /\ Answer(p, "result")
    BY DEF Answer, ReceiveReturning, Arrive
  <1>2. /\ p.from \in 0..N /\ p.to \in 0..N /\ p.from = p.to + 1 /\ p.to < p.from
    <2>1. PacketFits(p)
      BY DEF MetadataInv, PacketsInv
    <2> QED
      BY <1>1, <2>1, MetadataAssumption DEF PacketFits
  <1>3. /\ \A x : ~Failed(a, x)
        /\ \A x, c : Burns(a, c, x) <=> c = p.from /\ Travels(p, x)
    BY <1>2 DEF Failed, Travels, Burns
  <1> HIDE DEF a
  <1>4. ASSUME NEW x \in Nfts PROVE (OnePlace(x) /\ Minted(x) /\ Kept(x))'
    <2>1. OnePlace(x) /\ Minted(x) /\ Kept(x)
      BY DEF MetadataInv
    <2>2. CASE Travels(p, x)
      <3>1. place'[x] = p.to /\ Burns(a, p.from, x)
        BY <1>1, <1>3, <2>2 DEF Travels
      <3> QED
        BY <1>1, <1>2, <2>1, <2>2, <3>1, Returns
    <2>3. CASE ~Travels(p, x)
      <3>1. /\ \A q : Travels(q, x) => (q \in packets' <=> q \in packets)
            /\ \A b : Failed(b, x) \/ (\E c \in Chains : Burns(b, c, x)) =>
                        (b \in acks' <=> b \in acks)
            /\ place'[x] = place[x]
        BY <1>1, <1>3, <2>3 DEF Travels
      <3> QED
        BY <1>1, <2>1, <3>1, Stays
    <2> QED
      BY <2>2, <2>3
  <1>5. DOMAIN place' = Nfts
    BY <1>1
  <1> QED
    BY <1>1, <1>4, <1>5, StoresStay, PacketIsAnswered DEF MetadataInv

\* NFTs are refunded or vouchers are burned, never both.
LEMMA AcknowledgeKeepsInv ==
  ASSUME MetadataInv, NEW a \in acks, Acknowledge(a)
  PROVE  MetadataInv'
  <1> DEFINE burned == IF TryGetAckError(a.ack) \/ a.from < a.to THEN {} ELSE Range(a.ids)
             refunded == IF TryGetAckError(a.ack) THEN Range(a.ids) ELSE {}
  <1>1. /\ acks' = acks \ {a}
        /\ place' = [t \in Nfts |-> IF t \in refunded THEN a.from ELSE place[t]]
        /\ IF a.from = 0 THEN UNCHANGED <<uri, metadata>>
           ELSE /\ uri' = [uri EXCEPT ![a.from] =
                             [t \in Nfts |-> IF t \in burned THEN None ELSE @[t]]]
                /\ metadata' = [metadata EXCEPT ![a.from] =
                                  [t \in Nfts |-> IF t \in burned THEN None ELSE @[t]]]
        /\ UNCHANGED <<form, class, name, packets, given>>
    BY DEF Acknowledge
  <1>2. /\ a.from \in 0..N /\ a.to \in 0..N /\ a.from # a.to
        /\ a.from # 0 => a.from \in Chains
    BY MetadataAssumption DEF MetadataInv, AcksInv, Chains
  <1>3. /\ \A x : x \in refunded <=> Failed(a, x)
        /\ \A x : x \in burned <=> Burns(a, a.from, x)
        /\ \A x, c : Burns(a, c, x) => c = a.from
        /\ burned # {} => a.from # 0
        /\ \A x : ~(x \in burned /\ x \in refunded)
    <2>1. TryGetAckError(a.ack) <=> a.ack # "result"
      BY DEF TryGetAckError
    <2>2. a.from < a.to <=> ~(a.to < a.from)
      BY <1>2, MetadataAssumption
    <2>3. a.to < a.from => a.from # 0
      BY <1>2
    <2> QED
      BY <2>1, <2>2, <2>3 DEF Failed, Burns
  <1> HIDE DEF burned, refunded
  <1>4. \A c \in Chains, x \in Nfts :
          /\ uri'[c][x] = IF c = a.from /\ x \in burned THEN None ELSE uri[c][x]
          /\ metadata'[c][x] = IF c = a.from /\ x \in burned THEN None ELSE metadata[c][x]
    <2>1. CASE a.from = 0
      <3>1. \A c \in Chains : c # a.from
        BY <2>1 DEF Chains
      <3> QED
        BY <1>1, <2>1, <3>1
    <2>2. CASE a.from # 0
      <3>1. /\ uri' = [uri EXCEPT ![a.from] =
                         [t \in Nfts |-> IF t \in burned THEN None ELSE @[t]]]
            /\ metadata' = [metadata EXCEPT ![a.from] =
                              [t \in Nfts |-> IF t \in burned THEN None ELSE @[t]]]
            /\ DOMAIN uri = Chains /\ DOMAIN metadata = Chains
        BY <1>1, <2>2 DEF MetadataInv, Shape
      <3> QED
        BY <3>1
    <2> QED
      BY <2>1, <2>2
  <1>5. ASSUME NEW x \in Nfts PROVE (OnePlace(x) /\ Minted(x) /\ Kept(x))'
    <2>1. OnePlace(x) /\ Minted(x) /\ Kept(x)
      BY DEF MetadataInv
    <2>2. CASE x \in refunded
      <3>1. /\ Failed(a, x) /\ place'[x] = a.from
            /\ \A c \in Chains : uri'[c][x] = uri[c][x] /\ metadata'[c][x] = metadata[c][x]
        BY <1>1, <1>3, <1>4, <2>2
      <3> QED
        BY <1>1, <1>2, <2>1, <3>1, IsRefunded
    <2>3. CASE x \in burned
      <3>1. /\ Burns(a, a.from, x) /\ a.from \in Chains
            /\ place'[x] = place[x] /\ uri'[a.from][x] = None
            /\ \A c \in Chains \ {a.from} :
                 uri'[c][x] = uri[c][x] /\ metadata'[c][x] = metadata[c][x]
        BY <1>1, <1>2, <1>3, <1>4, <2>3
      <3> QED
        BY <1>1, <2>1, <3>1, IsBurned
    <2>4. CASE x \notin refunded /\ x \notin burned
      <3>1. /\ place'[x] = place[x]
            /\ \A b : Failed(b, x) \/ (\E c \in Chains : Burns(b, c, x)) =>
                        (b \in acks' <=> b \in acks)
            /\ \A c \in Chains : uri'[c][x] = uri[c][x] /\ metadata'[c][x] = metadata[c][x]
        BY <1>1, <1>3, <1>4, <2>4
      <3> QED
        BY <1>1, <2>1, <3>1, Stays
    <2> QED
      BY <2>2, <2>3, <2>4
  <1>6. (Shape /\ ClassesInv /\ PacketsInv /\ AcksInv /\ StoredInv)'
    <2>1. Shape'
      BY <1>1, <1>2 DEF MetadataInv, Shape
    <2>2. ClassesInv'
      BY <1>1 DEF MetadataInv, ClassesInv, NamesCarried, ClassFits
    <2>3. PacketsInv'
      BY <1>1 DEF MetadataInv, PacketsInv, PacketFits, ClassFits
    <2>4. AcksInv'
      BY <1>1 DEF MetadataInv, AcksInv
    <2>5. StoredInv'
      BY <1>1, <1>4 DEF MetadataInv, StoredInv
    <2> QED
      BY <2>1, <2>2, <2>3, <2>4, <2>5
  <1> QED
    BY <1>5, <1>6 DEF MetadataInv

\* A packet of the module at 0 has NFTs of its class, and data of it if any.
LEMMA SpoiledFits ==
  ASSUME form \in Forms, NEW data \in WellFormed, NEW sentData \in {data} \cup Spoiled(data)
  PROVE  /\ sentData.class_id \in {"foreign", Empty}
         /\ sentData.token_ids \in Seq(Foreign)
         /\ sentData.class_data = Some(NoBytes) \/ ClassFits("foreign", sentData.class_data)
  <1>1. PICK ids \in Batches : data \in
          [class_id : {"foreign"},
           class_uri : {None, Some("uri")},
           class_data : IF form.foreign = "none" THEN {None}
                        ELSE {Some([form |-> form.foreign, version |-> version])},
           token_ids : {ids},
           token_uris : {None, ListOf(Len(ids))},
           token_data : {None, ListOf(Len(ids))}]
    BY DEF WellFormed
  <1>2. ids \in Seq(Foreign)
    <2>1. ids \in UNION {[1..n -> Foreign] : n \in 1..MaxBatch}
      BY DEF Batches
    <2>2. PICK n \in 1..MaxBatch : ids \in [1..n -> Foreign]
      BY <2>1
    <2>3. n \in Nat
      BY MetadataAssumption
    <2> QED
      BY <2>2, <2>3, SeqDef
  <1>3. /\ data.class_id = "foreign" /\ data.token_ids \in Seq(Foreign)
        /\ ClassFits("foreign", data.class_data)
    <2>1. CASE form.foreign = "none"
      BY <1>1, <1>2, <2>1 DEF ClassFits
    <2>2. CASE form.foreign # "none"
      BY <1>1, <1>2, <2>2, SomeIsNotNone DEF ClassFits
    <2> QED
      BY <2>1, <2>2
  <1>4. /\ <<>> \in Seq(Foreign)
        /\ data.token_ids \o data.token_ids \in Seq(Foreign)
    BY <1>3
  <1>5. CASE sentData = data
    BY <1>3, <1>5
  <1>6. CASE sentData \in Spoiled(data)
    BY <1>1, <1>3, <1>4, <1>6 DEF Spoiled
  <1> QED
    BY <1>5, <1>6

\* The module at 0 may send what validate refuses, but only what it has.
LEMMA ForeignSendKeepsInv ==
  ASSUME MetadataInv, ForeignSend PROVE MetadataInv'
  <1>1. PICK data \in WellFormed :
          \E sentData \in {data} \cup IF Malformed THEN Spoiled(data) ELSE {} :
            /\ \A t \in Range(sentData.token_ids) : place[t] = 0
            /\ NewPacket(0, 1, sentData)
    BY DEF ForeignSend
  <1>2. PICK d \in {data} \cup Spoiled(data) :
          /\ \A t \in Range(d.token_ids) : place[t] = 0
          /\ NewPacket(0, 1, d)
    BY <1>1
  <1> DEFINE p == [seq |-> sent + 1, from |-> 0, to |-> 1, data |-> d]
  <1>3. /\ packets' = packets \cup {p}
        /\ place' = [t \in Nfts |-> IF t \in Range(d.token_ids) THEN Moving ELSE place[t]]
        /\ p.from = 0 /\ p.to = 1 /\ p.data = d
        /\ UNCHANGED <<form, class, name, uri, metadata, acks, given>>
    BY <1>2 DEF NewPacket, ForeignSend
  <1> HIDE DEF p
  <1>4. /\ d.class_id \in {"foreign", Empty}
        /\ d.token_ids \in Seq(Foreign)
        /\ d.class_data = Some(NoBytes) \/ ClassFits("foreign", d.class_data)
    BY SpoiledFits DEF MetadataInv, ClassesInv
  <1>5. Range(d.token_ids) \subseteq Foreign /\ d.token_ids \in Seq(Nfts)
    BY <1>4, SeqRange DEF Nfts
  <1>6. PacketFits(p)
    <2>1. \A t \in Foreign : ClassOf(t) = "foreign"
      BY MetadataAssumption DEF ClassOf
    <2>2. 0 \in 0..N /\ 1 \in 0..N
      BY MetadataAssumption
    <2>3. "foreign" \in Classes
      BY DEF Classes
    <2>4. d.class_id \in Classes => d.class_id = "foreign"
      BY <1>4 DEF Classes, Empty
    <2> QED
      BY <1>3, <1>4, <1>5, <2>1, <2>2, <2>3, <2>4 DEF PacketFits
  <1>7. ASSUME NEW t \in Nfts PROVE (OnePlace(t) /\ Minted(t) /\ Kept(t))'
    <2>1. OnePlace(t) /\ Minted(t) /\ Kept(t)
      BY DEF MetadataInv
    <2>2. CASE Travels(p, t)
      <3>1. place[t] = 0 /\ place'[t] = Moving /\ 0 \in 0..N
        BY <1>2, <1>3, <2>2, MetadataAssumption DEF Travels
      <3> QED
        BY <1>3, <2>1, <2>2, <3>1, Leaves
    <2>3. CASE ~Travels(p, t)
      <3>1. place'[t] = place[t] /\ \A q : Travels(q, t) => (q \in packets' <=> q \in packets)
        BY <1>3, <2>3 DEF Travels
      <3> QED
        BY <1>3, <2>1, <3>1, Stays
    <2> QED
      BY <2>2, <2>3
  <1>8. DOMAIN place' = Nfts
    BY <1>3
  <1>9. PacketsInv' /\ AcksInv'
    BY <1>3, <1>6, PacketGoes DEF MetadataInv, AcksInv
  <1> QED
    BY <1>3, <1>7, <1>8, <1>9, StoresStay DEF MetadataInv

\* Every token that validate has let through is minted with what is its own.
LEMMA ReceiveVouchersKeepsInv ==
  ASSUME MetadataInv, NEW p \in packets, ReceiveVouchers(p)
  PROVE  MetadataInv'
  <1> DEFINE c == p.to
             d == p.data
             k == d.class_id
             tokens == Tokens(d)
             ids == {tokens[i].id : i \in DOMAIN tokens}
             At1(t) == CHOOSE i \in DOMAIN tokens : tokens[i].id = t
             At2(t) == CHOOSE i \in DOMAIN d.token_ids : d.token_ids[i] = t
             a == [seq |-> p.seq, from |-> p.from, to |-> p.to,
                   ids |-> d.token_ids, ack |-> "result"]
             r == [uri |-> d.class_uri, data |-> d.class_data]
  <1>1. /\ p.from < c /\ Validate(d) /\ CanMint(c, tokens)
        /\ class' = [class EXCEPT ![c][k] = Some(r)]
        /\ name' = [name EXCEPT ![c][k] = IF @ # None THEN @ ELSE Some(NameOf(r.data))]
        /\ uri' = [uri EXCEPT ![c] =
                     [t \in Nfts |-> IF t \in ids THEN Some(tokens[At1(t)].uri) ELSE @[t]]]
        /\ metadata' = [metadata EXCEPT ![c] =
                          [t \in Nfts |-> IF t \in ids THEN Some(tokens[At1(t)].data) ELSE @[t]]]
        /\ place' = [t \in Nfts |-> IF t \in ids THEN c ELSE place[t]]
        /\ packets' = packets \ {p} /\ acks' = acks \cup {a}
        /\ form' = form /\ Answer(p, "result")
    BY DEF ReceiveVouchers, Arrive, Answer
  <1>2. given' = IF p.from # 0 THEN given ELSE
                   [t \in Nfts |->
                      IF \A i \in DOMAIN d.token_ids : ~(d.token_ids[i] = t) THEN given[t]
                      ELSE [uri |-> Nth(d.token_uris, At2(t)),
                            data |-> Nth(d.token_data, At2(t))]]
    BY DEF ReceiveVouchers
  <1>3. /\ a.from = p.from /\ a.to = p.to /\ a.ack = "result"
        /\ r.uri = d.class_uri /\ r.data = d.class_data
    OBVIOUS
  <1>4. PacketFits(p)
    BY DEF MetadataInv, PacketsInv
  <1>5. /\ p.from \in 0..N /\ p.to \in 0..N /\ p.to = p.from + 1
        /\ c \in Chains /\ d.token_ids \in Seq(Nfts)
    BY <1>1, <1>4, MetadataAssumption DEF PacketFits, Chains
  <1>6. /\ k \in Classes /\ \A t \in Range(d.token_ids) : k = ClassOf(t)
        /\ r.uri # Some(Empty) /\ ClassFits(k, r.data)
    BY <1>1, <1>3, <1>4 DEF PacketFits, Validate
  <1>7. tokens = [i \in 1..Len(d.token_ids) |->
                    [id |-> d.token_ids[i], uri |-> Nth(d.token_uris, i),
                     data |-> Nth(d.token_data, i)]]
    BY <1>1, <1>5, ValidTokensAreKept
  <1>8. DOMAIN d.token_ids = 1..Len(d.token_ids)
    BY <1>5
  <1> HIDE DEF tokens, a, r
  <1>9. /\ \A t : t \in ids <=> Travels(p, t)
        /\ \A i, j \in DOMAIN d.token_ids : i # j => d.token_ids[i] # d.token_ids[j]
        /\ \A t \in ids : uri[c][t] = None
    <2>1. \A i \in DOMAIN d.token_ids :
            i \in DOMAIN tokens /\ tokens[i].id = d.token_ids[i]
      BY <1>7, <1>8
    <2>2. DOMAIN tokens = DOMAIN d.token_ids
      BY <1>7, <1>8
    <2>3. \A t : t \in ids <=> Travels(p, t)
      BY <2>1, <2>2 DEF Travels, Range
    <2>4. \A i, j \in DOMAIN d.token_ids : i # j => d.token_ids[i] # d.token_ids[j]
      BY <1>1, <2>1 DEF CanMint
    <2>5. \A t \in ids : uri[c][t] = None
      BY <1>1 DEF CanMint
    <2> QED
      BY <2>3, <2>4, <2>5
  <1>10. ASSUME NEW t, Travels(p, t)
         PROVE  /\ At1(t) \in DOMAIN d.token_ids /\ d.token_ids[At1(t)] = t
                /\ At2(t) = At1(t)
                /\ tokens[At1(t)].uri = Nth(d.token_uris, At1(t))
                /\ tokens[At1(t)].data = Nth(d.token_data, At1(t))
    <2>1. PICK i \in DOMAIN d.token_ids : d.token_ids[i] = t
      BY <1>10 DEF Travels, Range
    <2>2. At2(t) \in DOMAIN d.token_ids /\ d.token_ids[At2(t)] = t
      BY <2>1
    <2>3. At1(t) \in DOMAIN tokens /\ tokens[At1(t)].id = t
      BY <1>7, <1>8, <2>1
    <2> HIDE DEF At1, At2
    <2>4. At1(t) \in DOMAIN d.token_ids /\ d.token_ids[At1(t)] = t
      BY <1>7, <1>8, <2>3
    <2> QED
      BY <1>7, <1>8, <1>9, <2>2, <2>4
  <1> HIDE DEF At1, At2, ids
  <1>11. \A x \in Chains, t \in Nfts :
           /\ uri'[x][t] = IF x = c /\ Travels(p, t) THEN Some(tokens[At1(t)].uri)
                           ELSE uri[x][t]
           /\ metadata'[x][t] = IF x = c /\ Travels(p, t) THEN Some(tokens[At1(t)].data)
                                ELSE metadata[x][t]
    BY <1>1, <1>5, <1>9 DEF MetadataInv, Shape
  <1>12. ASSUME NEW t \in Nfts PROVE (OnePlace(t) /\ Minted(t) /\ Kept(t))'
    <2>1. OnePlace(t) /\ Minted(t) /\ Kept(t)
      BY DEF MetadataInv
    <2>2. CASE Travels(p, t)
      <3> DEFINE u == Nth(d.token_uris, At1(t))
                 v == Nth(d.token_data, At1(t))
      <3>1. /\ uri'[c][t] = Some(u) /\ metadata'[c][t] = Some(v)
            /\ uri[c][t] = None /\ place'[t] = c
            /\ \A x \in Chains \ {c} : uri'[x][t] = uri[x][t] /\ metadata'[x][t] = metadata[x][t]
        BY <1>1, <1>5, <1>9, <1>10, <1>11, <2>2
      <3>2. t \in Home => p.from # 0
        BY <1>4, <2>2, MetadataAssumption DEF PacketFits, Travels
      <3>3. given'[t].uri = u /\ given'[t].data = v /\ (p.from # 0 => given'[t] = given[t])
        <4>1. CASE p.from = 0
          BY <1>2, <1>10, <2>2, <4>1
        <4>2. CASE p.from # 0
          <5>1. At1(t) = 1
            <6>1. \E x \in Nfts : d.token_ids = <<x>>
              BY <1>4, <4>2 DEF PacketFits
            <6> QED
              BY <1>10, <2>2, <6>1
          <5> QED
            BY <1>2, <2>1, <2>2, <4>2, <5>1 DEF Kept
        <4> QED
          BY <4>1, <4>2
      <3>4. IsOption(u) /\ IsOption(v)
        BY NthIsOption
      <3> HIDE DEF u, v
      <3> QED
        BY <1>1, <1>3, <1>5, <2>1, <2>2, <3>1, <3>2, <3>3, <3>4, Arrives
    <2>3. CASE ~Travels(p, t)
      <3>1. /\ place'[t] = place[t] /\ given'[t] = given[t]
            /\ \A x \in Chains : uri'[x][t] = uri[x][t] /\ metadata'[x][t] = metadata[x][t]
        BY <1>1, <1>2, <1>9, <1>11, <2>3 DEF Travels, Range
      <3>2. /\ \A q : Travels(q, t) => (q \in packets' <=> q \in packets)
            /\ \A b : Failed(b, t) \/ (\E x \in Chains : Burns(b, x, t)) =>
                        (b \in acks' <=> b \in acks)
        BY <1>1, <1>3, <1>5, <2>3 DEF Failed, Burns
      <3> QED
        BY <2>1, <3>1, <3>2, Stays
    <2> QED
      BY <2>2, <2>3
  <1>13. /\ ClassesInv'
         /\ DOMAIN class' = Chains /\ DOMAIN name' = Chains
         /\ \A x \in Chains : DOMAIN class'[x] = Classes /\ DOMAIN name'[x] = Classes
         /\ class'[c][k] # None
         /\ \A x \in Chains, y \in Classes : class[x][y] # None => class'[x][y] # None
    BY <1>1, <1>5, <1>6, ClassIsStored DEF MetadataInv
  <1>14. Shape'
    <2>1. DOMAIN place' = Nfts /\ DOMAIN given' = Nfts
      BY <1>1, <1>2 DEF MetadataInv, Shape
    <2>2. DOMAIN uri' = Chains /\ \A x \in Chains : DOMAIN uri'[x] = Nfts
      BY <1>1 DEF MetadataInv, Shape
    <2>3. DOMAIN metadata' = Chains /\ \A x \in Chains : DOMAIN metadata'[x] = Nfts
      BY <1>1 DEF MetadataInv, Shape
    <2> QED
      BY <1>13, <2>1, <2>2, <2>3 DEF Shape
  <1>15. StoredInv'
    <2> SUFFICES ASSUME NEW x \in Chains, NEW t \in Nfts, uri'[x][t] # None
                 PROVE  class'[x][ClassOf(t)] # None \/ (x = 1 /\ t \in Home)
      BY DEF StoredInv
    <2>1. CASE x = c /\ Travels(p, t)
      BY <1>6, <1>13, <2>1 DEF Travels
    <2>2. CASE ~(x = c /\ Travels(p, t))
      BY <1>11, <1>13, <2>2, ClassOfNft DEF MetadataInv, StoredInv
    <2> QED
      BY <2>1, <2>2
  <1> QED
    BY <1>1, <1>12, <1>13, <1>14, <1>15, PacketIsAnswered DEF MetadataInv

\* The invariant holds at first,
LEMMA InitMetadataInv == Init => MetadataInv
  <1> SUFFICES ASSUME Init PROVE MetadataInv
    OBVIOUS
  <1>1. Shape
    BY DEF Init, Shape
  <1>2. form \in Forms
    BY DEF Init
  <1>3. NamesCarried
    <2>1. \A x \in Chains, y \in Classes : name[x][y] # None => y = "home" /\ name[x][y] = Some("source name")
      BY DEF Init
    <2>2. form["home"] \in {"collection", "extended"}
      BY <1>2 DEF Forms
    <2> QED
      BY <2>1, <2>2 DEF NamesCarried
  <1>4. ClassesInv /\ PacketsInv /\ AcksInv
    BY <1>2, <1>3 DEF Init, ClassesInv, PacketsInv, AcksInv
  <1>5. \A c \in Chains, t \in Nfts :
          uri[c][t] = IF c = 1 /\ t \in Home THEN Some(given[t].uri) ELSE None
    BY DEF Init
  <1>6. StoredInv
    BY <1>5 DEF StoredInv
  <1>7. ASSUME NEW t \in Nfts PROVE OnePlace(t) /\ Minted(t) /\ Kept(t)
    <2>1. N \in Nat /\ N >= 1 /\ Moving \notin 0..N /\ 0 \in 0..Moving /\ 1 \in 0..Moving
      BY MetadataAssumption DEF Moving
    <2>2. place[t] = (IF t \in Home THEN 1 ELSE 0) /\ packets = {} /\ acks = {}
      BY DEF Init
    <2>3. OnePlace(t)
      <3>1. place[t] \in 0..Moving /\ place[t] # Moving
        BY <2>1, <2>2
      <3> QED
        BY <2>2, <3>1 DEF OnePlace
    <2>4. \A c \in Chains : UpTo(t, c) <=> c = 1 /\ t \in Home
      <3>1. \A d : At(t, d) <=> d = IF t \in Home THEN 1 ELSE 0
        BY <2>2 DEF At
      <3>2. \A c \in Chains : c \in Nat /\ c >= 1
        BY <2>1 DEF Chains
      <3>3. 0 \in 0..N /\ 1 \in 0..N
        BY <2>1
      <3> QED
        BY <3>1, <3>2, <3>3 DEF UpTo
    <2>5. Minted(t)
      BY <1>5, <2>2, <2>4, SomeIsNotNone DEF Minted, ToBeBurned
    <2>6. /\ given[t].uri \in {None, Some(1)} /\ given[t].data = None
      BY DEF Init
    <2>7. IsOption(given[t].uri) /\ IsOption(given[t].data)
      BY <2>6, SomeIsNotNone DEF IsOption
    <2>8. Kept(t)
      <3>1. \A c \in Chains : c = 1 /\ t \in Home => metadata[c][t] = None
        BY DEF Init
      <3> QED
        BY <1>5, <2>2, <2>6, <2>7, <3>1, SomeIsNotNone DEF Kept
    <2> QED
      BY <2>3, <2>5, <2>8
  <1> QED
    BY <1>1, <1>4, <1>6, <1>7 DEF MetadataInv

\* and every step keeps it.
LEMMA NextMetadataInv == MetadataInv /\ [Next]_vars => MetadataInv'
  <1> SUFFICES ASSUME MetadataInv, [Next]_vars PROVE MetadataInv'
    OBVIOUS
  <1>1. CASE UNCHANGED vars
    BY <1>1, SameKeepsInv DEF vars
  <1>2. CASE UpdateSource
    BY <1>2, UpdateSourceKeepsInv
  <1>3. CASE ForeignSend
    BY <1>3, ForeignSendKeepsInv
  <1>4. CASE \E c \in Chains, t \in Nfts : \E to \in {c - 1, c + 1} \cap 0..N : Send(c, t, to)
    BY <1>4, SendKeepsInv
  <1>5. CASE \E p \in packets : ReceiveVouchers(p) \/ ReceiveReturning(p) \/ Refuse(p)
    BY <1>5, ReceiveVouchersKeepsInv, ReceiveReturningKeepsInv, RefuseKeepsInv
  <1>6. CASE \E a \in acks : Acknowledge(a)
    BY <1>6, AcknowledgeKeepsInv
  <1> QED
    BY <1>1, <1>2, <1>3, <1>4, <1>5, <1>6 DEF Next

-------------------------------------------------------------------------------
(* The theorems.                                                             *)

\* The invariant: an NFT is in one place, one packet or one failed acknowledgement;
\* the collections have it up to there, and every one its data.
THEOREM MetadataInvariant == Spec => []MetadataInv
  BY InitMetadataInv, NextMetadataInv, PTL DEF Spec

\* No NFT is lost between the lists of a packet, or for an acknowledgement that
\* cannot be parsed (try_get_ack_error, zip_optional), however many NFTs it has.
THEOREM NothingIsLost == Spec => []NothingLost
  <1>1. MetadataInv => NothingLost
    BY DEF MetadataInv, OnePlace, NothingLost, Travels, Failed
  <1> QED
    BY <1>1, MetadataInvariant, PTL

\* On a line of any length, an NFT has the uri and data of its source on every
\* chain, unless it is only there to be burned (receive_nft, callback_mint).
THEOREM MetadataIsKept == Spec => []MetadataKept
  <1>1. MetadataInv => MetadataKept
    BY DEF MetadataInv, Kept, MetadataKept
  <1> QED
    BY <1>1, MetadataInvariant, PTL

\* ICS721 sends nothing that validate refuses, whatever it has been sent.
THEOREM SentIsAlwaysValid == Spec => []SentIsValid
  <1>1. MetadataInv => SentIsValid
    <2> SUFFICES ASSUME MetadataInv, NEW p \in packets, p.from # 0
                 PROVE  /\ p.data.class_uri # Some(Empty) /\ p.data.class_data # Some(NoBytes)
                        /\ \A list \in {p.data.token_uris, p.data.token_data} :
                             list # None => Len(list[1]) = Len(p.data.token_ids)
      BY DEF SentIsValid
    <2>1. PacketFits(p)
      BY DEF MetadataInv, PacketsInv
    <2>2. \A x : Some(<<x>>)[1] = <<x>> /\ Len(<<x>>) = 1
      BY DEF Some
    <2> QED
      BY <2>1, <2>2 DEF PacketFits
  <1> QED
    BY <1>1, MetadataInvariant, PTL

\* However far a class has come, its collection is named as its source is.
THEOREM NamesAreCarried == Spec => []NamesCarried
  <1>1. MetadataInv => NamesCarried
    BY DEF MetadataInv, ClassesInv
  <1> QED
    BY <1>1, MetadataInvariant, PTL
===============================================================================
