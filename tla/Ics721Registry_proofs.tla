------------------------ MODULE Ics721Registry_proofs ------------------------
(* The registry invariant of Ics721Registry and what follows from it, for    *)
(* every set of classes and codes, every address length and every sequence   *)
(* of registrations and migrations.                                          *)
EXTENDS Ics721Registry, FiniteSetTheorems, TLAPS

\* The initial registry is empty, and the older map sound.
LEMMA RegistryInit == Init => RegistryInv
<1> USE RegistryAssumption
<1> SUFFICES ASSUME Init PROVE RegistryInv
  OBVIOUS
<1>1. PICK sent \in SUBSET Collections, made \in Made : legacy = LegacyMap(sent, made)
  BY DEF Init
<1>2. ASSUME NEW a \in Addresses, a \notin Collections
      PROVE  a \in Instantiated /\ a.class \in Vouchers
  BY <1>2 DEF Addresses, Instantiated
<1>3. legacy \in [Addresses -> Classes \cup {NoClass}]
  BY <1>1, <1>2 DEF Classes, LegacyMap
<1>4. ASSUME NEW a \in Addresses, legacy[a] # NoClass
      PROVE  /\ IF a \in Collections THEN legacy[a] = a ELSE legacy[a] = a.class
             /\ \A b \in Addresses : legacy[b] = legacy[a] => b = a
  <2>1. IF a \in Collections THEN legacy[a] = a
        ELSE legacy[a] = a.class /\ made[a.class] = a
    BY <1>1, <1>4 DEF LegacyMap
  <2>2. ASSUME NEW b \in Addresses, legacy[b] = legacy[a] PROVE b = a
    <3>1. IF b \in Collections THEN legacy[b] = b
          ELSE legacy[b] = b.class /\ made[b.class] = b
      BY <1>1, <1>4, <2>2 DEF LegacyMap
    <3>2. CASE a \in Collections
      BY <1>2, <2>1, <2>2, <3>1, <3>2
    <3>3. CASE a \notin Collections
      BY <1>2, <2>1, <2>2, <3>1, <3>3
    <3> QED
      BY <3>2, <3>3
  <2> QED
    BY <2>1, <2>2
<1>5. metadata \in SUBSET Classes
  BY <1>3 DEF Init
<1>6. TypeOK
  BY <1>3, <1>5 DEF Init, TypeOK, Addresses, NoListing, Listings
<1>7. LegacySound
  BY <1>4 DEF LegacySound, Init
<1>8. Registered = {}
  BY DEF Registered, Init
<1> QED
  BY <1>6, <1>7, <1>8
  DEF RegistryInv, IndexAgrees, ClassIdFor, NftContractFor, OwnContract,
      RegisteredExists, ClassesKnown, Init

\* Steps that leave the maps and the contracts alone keep the invariant.
LEMMA RegistryUntouched ==
  ASSUME RegistryInv, TypeOK',
         UNCHANGED <<contract, byAddress, legacy, live, contracts>>,
         metadata \subseteq metadata'
  PROVE  RegistryInv'
BY DEF RegistryInv, LegacySound, IndexAgrees, ClassIdFor, NftContractFor,
       OwnContract, RegisteredExists, ClassesKnown, Registered

\* Saving a class without a record under an address of its own keeps the two
\* indexes in agreement.
LEMMA SaveAgrees ==
  ASSUME RegistryInv, NEW k \in Classes, NEW a \in Addresses,
         contract[k] = NoAddress, Save(k, a)
  PROVE  /\ contract' \in [Classes -> Addresses \cup {NoAddress}]
         /\ byAddress' \in [Addresses -> Classes \cup {NoClass}]
         /\ IndexAgrees'
         /\ Registered' = Registered \cup {k}
         /\ contract'[k] = a /\ byAddress'[a] = k
         /\ \A l \in Classes \ {k} : contract'[l] = contract[l]
         /\ \A b \in Addresses \ {a} : byAddress'[b] = byAddress[b]
<1> USE RegistryAssumption DEF RegistryInv, TypeOK
<1>1. contract' \in [Classes -> Addresses \cup {NoAddress}]
  BY DEF Save
<1>2. byAddress' \in [Addresses -> Classes \cup {NoClass}]
  BY DEF Save
<1>3. \A l \in Classes : contract'[l] = IF l = k THEN a ELSE contract[l]
  BY DEF Save
<1>4. \A b \in Addresses : byAddress'[b] = IF b = a THEN k ELSE byAddress[b]
  BY DEF Save
<1>5. ASSUME NEW l \in Classes, NEW b \in Addresses
      PROVE  byAddress'[b] = l <=> contract'[l] = b
  <2>1. byAddress[b] = l <=> contract[l] = b
    BY DEF IndexAgrees, ClassIdFor, NftContractFor
  <2>2. byAddress[a] \in {NoClass, k}
    BY DEF Save
  <2>3. byAddress[a] = k <=> contract[k] = a
    BY DEF IndexAgrees, ClassIdFor, NftContractFor
  <2> QED
    BY <1>3, <1>4, <2>1, <2>2, <2>3
<1>6. Registered' = Registered \cup {k}
  BY <1>3 DEF Registered
<1> QED
  BY <1>1, <1>2, <1>3, <1>4, <1>5, <1>6 DEF IndexAgrees, ClassIdFor, NftContractFor

\* A local collection that no contract stands for has no record.
LEMMA CollectionRegisters ==
  ASSUME RegistryInv, NEW x \in Collections, RegisterCollection(x)
  PROVE  RegistryInv' /\ contract[x] = NoAddress
<1> USE RegistryAssumption
<1>1. x \in Classes /\ x \in Addresses
  BY DEF Classes, Addresses
<1>2. contract[x] = NoAddress
  BY <1>1 DEF RegisterCollection, RegistryInv, OwnContract, IndexAgrees, ClassIdFor,
              NftContractFor, Registered
<1>3. Save(x, x)
  BY DEF RegisterCollection
<1>4. /\ contract' \in [Classes -> Addresses \cup {NoAddress}]
      /\ byAddress' \in [Addresses -> Classes \cup {NoClass}]
      /\ IndexAgrees'
      /\ Registered' = Registered \cup {x}
      /\ contract'[x] = x
      /\ \A l \in Classes \ {x} : contract'[l] = contract[l]
  BY <1>1, <1>2, <1>3, SaveAgrees
<1>5. metadata' = metadata \cup {x}
  BY DEF RegisterCollection
<1>6. UNCHANGED <<legacy, live, contracts, codeId, length, listing>> /\ live
  BY DEF RegisterCollection, config
<1>7. TypeOK'
  BY <1>1, <1>4, <1>5, <1>6 DEF RegistryInv, TypeOK
<1>8. LegacySound'
  BY <1>5, <1>6 DEF RegistryInv, LegacySound
<1>9. ASSUME NEW k \in Registered'
      PROVE  /\ IF k \in Collections THEN contract'[k] = k
                ELSE contract'[k] \in Instantiated /\ contract'[k].class = k
             /\ contract'[k] \in contracts' /\ k \in metadata'
  <2>1. CASE k = x
    BY <1>4, <1>5, <1>6, <2>1 DEF RegistryInv
  <2>2. CASE k # x
    <3>1. k \in Registered /\ k \in Classes \ {x}
      BY <1>4, <2>2 DEF Registered
    <3> QED
      BY <1>4, <1>5, <1>6, <3>1
      DEF RegistryInv, OwnContract, RegisteredExists, ClassesKnown
  <2> QED
    BY <2>1, <2>2
<1>10. OwnContract' /\ RegisteredExists' /\ ClassesKnown'
  BY <1>9 DEF OwnContract, RegisteredExists, ClassesKnown
<1> QED
  BY <1>2, <1>4, <1>6, <1>7, <1>8, <1>10 DEF RegistryInv

\* The reply finds the real address in the index only if it is the predicted
\* one: an entry of another class would name a contract that exists already.
LEMMA NewClassRegisters ==
  ASSUME RegistryInv, NEW k \in Vouchers, ReceiveNewClass(k)
  PROVE  RegistryInv'
<1> USE RegistryAssumption
<1> DEFINE p == Predicted(codeId, k)
           a == Address(codeId, k, ChainLength)
<1>1. k \in Classes /\ p \in Instantiated /\ a \in Instantiated
      /\ p.class = k /\ p \in Addresses /\ a \in Addresses
  BY DEF Classes, Predicted, Address, Instantiated, Addresses, RegistryInv, TypeOK
<1>2. contract[k] = NoAddress /\ Save(k, p)
  BY DEF ReceiveNewClass
<1>3. /\ contract' \in [Classes -> Addresses \cup {NoAddress}]
      /\ byAddress' \in [Addresses -> Classes \cup {NoClass}]
      /\ IndexAgrees'
      /\ Registered' = Registered \cup {k}
      /\ contract'[k] = p
      /\ \A l \in Classes \ {k} : contract'[l] = contract[l]
      /\ \A b \in Addresses \ {p} : byAddress'[b] = byAddress[b]
  <2> HIDE DEF p
  <2> QED
    BY <1>1, <1>2, SaveAgrees
<1>4. /\ a \notin contracts /\ byAddress'[a] # NoClass
      /\ contracts' = contracts \cup {a}
      /\ metadata' = metadata \cup {k}
      /\ UNCHANGED <<legacy, live, codeId, length, listing>> /\ live
  BY DEF ReceiveNewClass, InstantiateCw721Reply, config
<1> HIDE DEF p, a
<1>5. a = p
  <2> SUFFICES ASSUME a # p PROVE FALSE
    OBVIOUS
  <2>1. byAddress[a] # NoClass
    BY <1>1, <1>3, <1>4
  <2>2. byAddress[a] \in Classes
    BY <1>1, <2>1 DEF RegistryInv, TypeOK
  <2>3. contract[byAddress[a]] = a
    BY <1>1, <2>2 DEF RegistryInv, IndexAgrees, ClassIdFor, NftContractFor
  <2>4. byAddress[a] \in Registered
    BY <1>1, <2>2, <2>3 DEF Registered
  <2> QED
    BY <1>4, <2>3, <2>4 DEF RegistryInv, RegisteredExists
<1>6. TypeOK'
  BY <1>1, <1>3, <1>4 DEF RegistryInv, TypeOK
<1>7. LegacySound'
  BY <1>4 DEF RegistryInv, LegacySound
<1>8. ASSUME NEW l \in Registered'
      PROVE  /\ IF l \in Collections THEN contract'[l] = l
                ELSE contract'[l] \in Instantiated /\ contract'[l].class = l
             /\ contract'[l] \in contracts' /\ l \in metadata'
  <2>1. CASE l = k
    BY <1>1, <1>3, <1>4, <1>5, <2>1
  <2>2. CASE l # k
    <3>1. l \in Registered /\ l \in Classes \ {k}
      BY <1>3, <2>2 DEF Registered
    <3> QED
      BY <1>3, <1>4, <3>1
      DEF RegistryInv, OwnContract, RegisteredExists, ClassesKnown
  <2> QED
    BY <2>1, <2>2
<1>9. OwnContract' /\ RegisteredExists' /\ ClassesKnown'
  BY <1>8 DEF OwnContract, RegisteredExists, ClassesKnown
<1> QED
  BY <1>3, <1>4, <1>6, <1>7, <1>9 DEF RegistryInv

\* A migration copies a sound map into an empty one, or touches neither.
LEMMA MigrationKeeps ==
  ASSUME RegistryInv, NEW code \in CodeIds, NEW n \in Lengths \cup {HashLength},
         Migrate(code, n)
  PROVE  RegistryInv'
<1> USE RegistryAssumption
<1>1. /\ live' /\ codeId' = code /\ length' = n
      /\ UNCHANGED <<metadata, legacy, contracts, listing>>
  BY DEF Migrate
<1>2. LegacySound' /\ Collections \subseteq contracts'
  BY <1>1 DEF RegistryInv, LegacySound
<1>3. CASE Registered # {}
  <2>1. UNCHANGED <<contract, byAddress>> /\ live
    BY <1>3 DEF Migrate, RegistryInv
  <2>2. live' = live
    BY <1>1, <2>1 DEF RegistryInv, TypeOK, Migrate
  <2>3. TypeOK'
    BY <1>1, <2>1, <2>2 DEF RegistryInv, TypeOK
  <2> QED
    BY <1>1, <2>1, <2>2, <2>3, RegistryUntouched
<1>4. CASE Registered = {}
  <2>1. /\ contract' = [k \in Classes |->
             IF \E a \in Addresses : legacy[a] = k
             THEN CHOOSE a \in Addresses : legacy[a] = k ELSE NoAddress]
        /\ byAddress' = legacy
    <3>1. CopyLegacy
      BY <1>4 DEF Migrate
    <3>2. \A k \in Classes : contract[k] = NoAddress
      BY <1>4 DEF Registered
    <3>3. \A a \in Addresses : byAddress[a] = NoClass
      BY <3>2 DEF RegistryInv, TypeOK, IndexAgrees, ClassIdFor, NftContractFor
    <3>4. \A a \in Addresses : byAddress'[a] = legacy[a]
      BY <3>1, <3>3 DEF CopyLegacy
    <3>5. byAddress' = legacy
      BY <3>1, <3>4 DEF CopyLegacy, RegistryInv, TypeOK
    <3>6. contract' = [k \in Classes |-> LegacyContract(k)]
      BY <3>1 DEF CopyLegacy
    <3>7. \A k \in Classes : LegacyContract(k) =
             IF \E a \in Addresses : legacy[a] = k
             THEN CHOOSE a \in Addresses : legacy[a] = k ELSE NoAddress
      BY <3>2 DEF LegacyContract
    <3> QED
      BY <3>5, <3>6, <3>7
  <2>2. ASSUME NEW k \in Classes
        PROVE  \/ contract'[k] = NoAddress /\ \A a \in Addresses : legacy[a] # k
               \/ contract'[k] \in Addresses /\ legacy[contract'[k]] = k
    BY <2>1
  <2>3. contract' \in [Classes -> Addresses \cup {NoAddress}]
    BY <2>1
  <2>4. TypeOK'
    BY <1>1, <2>1, <2>3 DEF RegistryInv, TypeOK, Migrate
  <2>5. IndexAgrees'
    <3> SUFFICES ASSUME NEW k \in Classes, NEW a \in Addresses
                 PROVE  legacy[a] = k <=> contract'[k] = a
      BY <2>1 DEF IndexAgrees, ClassIdFor, NftContractFor
    <3>1. ASSUME legacy[a] = k PROVE contract'[k] = a
      BY <2>2, <3>1 DEF RegistryInv, LegacySound
    <3>2. ASSUME contract'[k] = a PROVE legacy[a] = k
      BY <2>2, <3>2
    <3> QED
      BY <3>1, <3>2
  <2>6. ASSUME NEW k \in Registered'
        PROVE  /\ IF k \in Collections THEN contract'[k] = k
                  ELSE contract'[k] \in Instantiated /\ contract'[k].class = k
               /\ contract'[k] \in contracts' /\ k \in metadata'
    <3>1. k \in Classes /\ contract'[k] # NoAddress
      BY DEF Registered
    <3>2. contract'[k] \in Addresses /\ legacy[contract'[k]] = k
      BY <2>2, <3>1
    <3>3. /\ contract'[k] \in contracts /\ k \in metadata
          /\ IF contract'[k] \in Collections THEN k = contract'[k]
             ELSE k = contract'[k].class
      BY <3>1, <3>2 DEF RegistryInv, LegacySound
    <3>4. contract'[k] \notin Collections =>
            contract'[k] \in Instantiated /\ contract'[k].class \in Vouchers
      BY <3>2 DEF Addresses, Instantiated
    <3> QED
      BY <1>1, <3>3, <3>4
  <2>7. OwnContract' /\ RegisteredExists' /\ ClassesKnown'
    BY <2>6 DEF OwnContract, RegisteredExists, ClassesKnown
  <2> QED
    BY <1>1, <1>2, <2>4, <2>5, <2>7 DEF RegistryInv
<1> QED
  BY <1>3, <1>4

\* A listing changes nothing but itself, and gets registered classes only.
LEMMA ListingTyped ==
  ASSUME RegistryInv, StartListing \/ \E limit \in 1..MaxLimit : GetPage(limit)
  PROVE  RegistryInv'
<1>1. UNCHANGED <<contract, byAddress, metadata, legacy, live, contracts, codeId, length>>
  BY DEF StartListing, GetPage, config
<1>2. Registered \subseteq Classes
  BY DEF Registered
<1>3. listing' \in Listings
  <2>1. CASE StartListing
    BY <1>2, <2>1 DEF StartListing, Listings
  <2>2. CASE \E limit \in 1..MaxLimit : GetPage(limit)
    <3>1. PICK limit \in 1..MaxLimit : GetPage(limit)
      BY <2>2
    <3> DEFINE page == Page(listing.after, limit)
               full == Cardinality(page) < limit
    <3>2. page \subseteq Classes
      BY <1>2 DEF Page, After
    <3>3. PICK last \in IF page = {} THEN {listing.after} ELSE page :
            listing' = [known |-> listing.known, after |-> last,
                        got |-> listing.got \cup page, done |-> full]
      BY <3>1 DEF GetPage
    <3>4. full \in BOOLEAN
      OBVIOUS
    <3>5. listing.known \in SUBSET Classes /\ listing.got \in SUBSET Classes
          /\ listing.after \in Classes \cup {NoClass}
      BY DEF RegistryInv, TypeOK, Listings
    <3> HIDE DEF page, full
    <3>6. last \in Classes \cup {NoClass}
      BY <3>2, <3>3, <3>5
    <3> QED
      BY <3>2, <3>3, <3>4, <3>5, <3>6 DEF Listings
  <2> QED
    BY <2>1, <2>2
<1>4. TypeOK'
  BY <1>1, <1>3 DEF RegistryInv, TypeOK
<1> QED
  BY <1>1, <1>4, RegistryUntouched

\* Every step keeps the registry invariant.
LEMMA RegistryStep == RegistryInv /\ [Next]_vars => RegistryInv'
<1> SUFFICES ASSUME RegistryInv, [Next]_vars PROVE RegistryInv'
  OBVIOUS
<1>1. CASE \E x \in Collections : RegisterCollection(x)
  BY <1>1, CollectionRegisters
<1>2. ASSUME NEW k \in Vouchers, ReceiveNewClass(k) PROVE RegistryInv'
  BY <1>2, NewClassRegisters
<1>3. ASSUME NEW k \in Vouchers, ReceiveKnownClass(k) PROVE RegistryInv'
  <2>1. /\ UNCHANGED <<contract, byAddress, legacy, live, contracts, codeId, length, listing>>
        /\ metadata' = metadata \cup {k}
    BY <1>3 DEF ReceiveKnownClass, config
  <2>2. TypeOK'
    BY <2>1 DEF RegistryInv, TypeOK, Classes
  <2> QED
    BY <2>1, <2>2, RegistryUntouched
<1>4. CASE \E code \in CodeIds, n \in Lengths \cup {HashLength} : Migrate(code, n)
  BY <1>4, MigrationKeeps
<1>5. CASE StartListing \/ \E limit \in 1..MaxLimit : GetPage(limit)
  BY <1>5, ListingTyped
<1>6. CASE UNCHANGED vars
  <2>1. TypeOK'
    BY <1>6 DEF vars, config, RegistryInv, TypeOK
  <2> QED
    BY <1>6, <2>1, RegistryUntouched DEF vars
<1> QED
  BY <1>1, <1>2, <1>3, <1>4, <1>5, <1>6 DEF Next

\* The registry invariant holds always: the two ways to look a class up agree
\* (load_class_id_for_nft_contract and load_nft_contract_for_class_id).
THEOREM RegistryAgrees == Spec => []RegistryInv
BY RegistryInit, RegistryStep, PTL DEF Spec

\* No class resolves to an address without a contract: a receipt that
\* predicts another address than the chain gives is undone.
THEOREM RegisteredContractsExist == Spec => []RegisteredExists
<1>1. RegistryInv => RegisteredExists
  BY DEF RegistryInv
<1> QED
  BY <1>1, RegistryAgrees, PTL

\* A step keeps the contract of every class that has one.
LEMMA ContractKept ==
  ASSUME RegistryInv, [Next]_vars, NEW k \in Registered
  PROVE  contract'[k] = contract[k]
<1>1. k \in Classes /\ contract[k] # NoAddress
  BY DEF Registered
<1>2. ASSUME NEW x \in Collections, RegisterCollection(x)
      PROVE  contract'[k] = contract[k]
  <2>1. contract[x] = NoAddress
    BY <1>2, CollectionRegisters
  <2> QED
    BY <1>1, <1>2, <2>1 DEF RegisterCollection, Save, RegistryInv, TypeOK
<1>3. ASSUME NEW v \in Vouchers, ReceiveNewClass(v)
      PROVE  contract'[k] = contract[k]
  BY <1>1, <1>3 DEF ReceiveNewClass, Save, RegistryInv, TypeOK
<1>4. ASSUME NEW v \in Vouchers, ReceiveKnownClass(v)
      PROVE  contract'[k] = contract[k]
  BY <1>4 DEF ReceiveKnownClass
<1>5. ASSUME NEW code \in CodeIds, NEW n \in Lengths \cup {HashLength}, Migrate(code, n)
      PROVE  contract'[k] = contract[k]
  BY <1>5 DEF Migrate
<1>6. CASE StartListing \/ \E limit \in 1..MaxLimit : GetPage(limit)
  BY <1>6 DEF StartListing, GetPage
<1>7. CASE UNCHANGED vars
  BY <1>7 DEF vars
<1> QED
  BY <1>2, <1>3, <1>4, <1>5, <1>6, <1>7 DEF Next

\* A class keeps its contract through registrations and migrations.
THEOREM ContractsNeverMove == Spec => ContractsStay
<1>1. RegistryInv /\ [Next]_vars => [\A k \in Registered : contract'[k] = contract[k]]_vars
  BY ContractKept
<1> QED
  BY <1>1, RegistryAgrees, PTL DEF Spec, ContractsStay

-------------------------------------------------------------------------------
(* Listings.                                                                 *)

\* The entries of a page that come before l.
Below(k, l) == {j \in After(k) : Rank[j] < Rank[l]}

\* Ranks tell classes apart, so only finitely many come before one.
LEMMA BelowFinite ==
  ASSUME NEW k, NEW l \in Classes
  PROVE  IsFiniteSet(Below(k, l))
<1> DEFINE f == [j \in Below(k, l) |-> Rank[j]]
<1>1. Below(k, l) \subseteq Classes /\ Rank[l] \in Nat
  BY RegistryAssumption DEF Below, After, Registered
<1>2. \A j \in Below(k, l) : Rank[j] \in 0..Rank[l]
  BY <1>1, RegistryAssumption DEF Below
<1>3. f \in [Below(k, l) -> 0..Rank[l]]
  BY <1>2
<1>4. \A i, j \in Below(k, l) : f[i] = f[j] => i = j
  BY <1>1, RegistryAssumption
<1> HIDE DEF f
<1>5. f \in Injection(Below(k, l), 0..Rank[l])
  BY <1>3, <1>4 DEF Injection, IsInjective
<1>6. IsFiniteSet(0..Rank[l])
  BY <1>1, FS_Interval
<1> QED
  BY <1>5, <1>6, FS_Injection

\* What a page leaves out comes after all it has.
LEMMA PageIsFirst ==
  ASSUME NEW k, NEW limit \in Nat,
         NEW l \in Page(k, limit), NEW j \in After(k) \ Page(k, limit)
  PROVE  Rank[j] > Rank[l]
<1>1. j \in Classes /\ l \in Classes /\ Rank[j] \in Nat /\ Rank[l] \in Nat
  BY RegistryAssumption DEF Page, After, Registered
<1> SUFFICES ASSUME Rank[j] <= Rank[l] PROVE FALSE
  BY <1>1
<1>2. Below(k, j) \in SUBSET Below(k, l)
  <2>1. \A i \in After(k) : Rank[i] \in Nat
    BY RegistryAssumption DEF After, Registered
  <2> QED
    BY <1>1, <2>1 DEF Below
<1>3. /\ IsFiniteSet(Below(k, l)) /\ IsFiniteSet(Below(k, j))
      /\ Cardinality(Below(k, j)) <= Cardinality(Below(k, l))
  BY <1>1, <1>2, BelowFinite, FS_Subset
<1>4. Cardinality(Below(k, j)) \in Nat /\ Cardinality(Below(k, l)) \in Nat
  BY <1>3, FS_CardinalityType
<1>5. Cardinality(Below(k, l)) < limit
  BY DEF Page, Below
<1>6. Cardinality(Below(k, j)) < limit
  BY <1>3, <1>4, <1>5
<1> QED
  BY <1>6 DEF Page, Below

LEMMA LeastClass ==
  ASSUME NEW S \in SUBSET Classes, S # {}
  PROVE  \E k \in S : \A l \in S : Rank[k] <= Rank[l]
<1> DEFINE T == {Rank[k] : k \in S}
<1>1. T \subseteq Nat /\ T # {}
  BY RegistryAssumption
<1> HIDE DEF T
<1>2. \E x \in T : \A y \in T : ~(<<y, x>> \in OpToRel(<, Nat))
  BY <1>1, WFMin, NatLessThanWellFounded, Zenon
<1>3. PICK x \in T : \A y \in T : ~(<<y, x>> \in OpToRel(<, Nat))
  BY <1>2
<1>4. \A y \in T : ~(y < x)
  BY <1>1, <1>3 DEF OpToRel
<1>5. \A y \in T : x <= y
  BY <1>1, <1>4
<1> QED
  BY <1>5 DEF T

\* A page that is not full has all there is.
LEMMA ShortPageIsLast ==
  ASSUME NEW k, NEW limit \in Nat, Cardinality(Page(k, limit)) < limit
  PROVE  After(k) \subseteq Page(k, limit)
<1> SUFFICES ASSUME After(k) \ Page(k, limit) # {} PROVE FALSE
  OBVIOUS
<1>1. After(k) \subseteq Classes /\ Page(k, limit) \subseteq After(k)
  BY DEF After, Registered, Page
<1>2. PICK l \in After(k) \ Page(k, limit) :
        \A j \in After(k) \ Page(k, limit) : Rank[l] <= Rank[j]
  BY <1>1, LeastClass
<1>3. \A j \in After(k) : Rank[j] \in Nat
  BY <1>1, RegistryAssumption
<1>4. Page(k, limit) = Below(k, l)
  <2>1. ASSUME NEW j \in Page(k, limit) PROVE j \in Below(k, l)
    BY <1>1, <1>2, <1>3, PageIsFirst DEF Below
  <2>2. ASSUME NEW j \in Below(k, l) PROVE j \in Page(k, limit)
    BY <1>2, <1>3 DEF Below
  <2> QED
    BY <2>1, <2>2
<1>5. ~(Cardinality(Below(k, l)) < limit)
  BY <1>2 DEF Page, Below
<1> QED
  BY <1>4, <1>5

\* What was registered at the start of a listing is still registered, and the
\* client has it or will get it with what comes after its last entry.
ListingInv ==
  /\ listing.known \subseteq Registered
  /\ IF listing.done THEN listing.known \subseteq listing.got
     ELSE listing.known \subseteq listing.got \cup After(listing.after)

LEMMA ListingStep == RegistryInv /\ ListingInv /\ [Next]_vars => ListingInv'
<1> SUFFICES ASSUME RegistryInv, ListingInv, [Next]_vars PROVE ListingInv'
  OBVIOUS
<1>1. Registered \subseteq Registered'
  BY ContractKept DEF Registered
<1>2. \A k : After(k) \subseteq After(k)'
  BY <1>1 DEF After
<1>3. ASSUME listing' = listing PROVE ListingInv'
  BY <1>1, <1>2, <1>3 DEF ListingInv
<1>4. CASE StartListing
  <2>1. Registered' = Registered /\ After(NoClass)' = Registered
    BY <1>4 DEF StartListing, Registered, After
  <2>2. listing' = [known |-> Registered, after |-> NoClass, got |-> {}, done |-> FALSE]
    BY <1>4 DEF StartListing
  <2> QED
    BY <2>1, <2>2 DEF ListingInv
<1>5. ASSUME NEW limit \in 1..MaxLimit, GetPage(limit) PROVE ListingInv'
  <2> DEFINE k == listing.after
             page == Page(k, limit)
  <2>1. limit \in Nat /\ limit > 0
    BY RegistryAssumption
  <2>2. listing.known \subseteq listing.got \cup After(k)
    BY <1>5 DEF GetPage, ListingInv
  <2>3. PICK last \in IF page = {} THEN {k} ELSE page :
          /\ \A l \in page : Rank[l] <= Rank[last]
          /\ listing' = [known |-> listing.known, after |-> last,
                         got |-> listing.got \cup page,
                         done |-> Cardinality(page) < limit]
    BY <1>5 DEF GetPage
  <2>4. CASE Cardinality(page) < limit
    <3>1. After(k) \subseteq page
      BY <2>1, <2>4, ShortPageIsLast
    <3> HIDE DEF page
    <3> QED
      BY <1>1, <2>2, <2>3, <2>4, <3>1 DEF ListingInv
  <2>5. CASE ~(Cardinality(page) < limit)
    <3>1. page # {}
      <4>1. Cardinality({}) = 0
        BY FS_EmptySet
      <4> QED
        BY <2>1, <2>5, <4>1
    <3>2. last \in page
      BY <2>3, <3>1
    <3>3. \A j \in After(k) \ page : Rank[j] > Rank[last]
      BY <2>1, <3>2, PageIsFirst
    <3>4. After(k) \ page \subseteq After(last)
      BY <3>3 DEF After
    <3> HIDE DEF page
    <3> QED
      BY <1>1, <1>2, <2>2, <2>3, <2>5, <3>4 DEF ListingInv
  <2> QED
    BY <2>4, <2>5
<1> QED
  BY <1>3, <1>4, <1>5
  DEF Next, RegisterCollection, ReceiveNewClass, ReceiveKnownClass, Migrate, vars

\* A finished listing misses nothing that was registered when it began.
THEOREM ListingsAreComplete == Spec => []ListingComplete
<1>1. Init => ListingInv
  BY DEF Init, NoListing, ListingInv
<1>2. ListingInv => ListingComplete
  BY DEF ListingInv, ListingComplete
<1> QED
  BY <1>1, <1>2, ListingStep, RegistryAgrees, PTL DEF Spec
===============================================================================
