------------------------- MODULE Ics721Config_proofs -------------------------
(* What Ics721Config promises of pauses, proxies and the way out, for every  *)
(* set of accounts, contracts and NFTs and any number of migrations.         *)
EXTENDS Ics721Config, TLAPS

\* A contract that has not been instantiated satisfies the invariant.
LEMMA ConfigInit == Init => ConfigInv
<1> USE ConfigAssumption
<1> SUFFICES ASSUME Init PROVE ConfigInv
  OBVIOUS
<1>1. made \in [Proxies -> [role : Roles \cup {"none"}, admin : Admins]]
  BY DEF Init, NotMade, Admins
<1>2. answer \in [route : Routes, via : Proxies \cup {NoAddress}, accepted : BOOLEAN]
  BY DEF Init, NoAnswer, Routes
<1>3. TypeOK
  <2>1. /\ nominated \in [Accounts -> Nat] /\ pauses \in [Accounts -> Nat]
        /\ migrations \in 0..MaxMigrations
    BY DEF Init
  <2>2. /\ asked \in [Roles -> Admins \cup {Unasked}]
        /\ holder \in [Nfts -> Accounts \cup Proxies \cup {Ics721}]
        /\ sender \in [Nfts -> Accounts \cup Proxies \cup {NoAddress}]
    BY DEF Init
  <2> QED
    BY <1>1, <1>2, <2>1, <2>2 DEF Init, TypeOK
<1>4. PauserArmed
  <2>1. pauser = NoAddress /\ \A a \in Accounts : pauses[a] = 0 /\ nominated[a] = 0
    BY DEF Init
  <2>2. \A a \in Accounts : a # NoAddress
    BY ConfigAssumption
  <2>3. 0 <= 0
    OBVIOUS
  <2> QED
    BY <2>1, <2>2, <2>3 DEF PauserArmed
<1>5. SetUp
  BY DEF Init, SetUp
<1>6. Owed
  <2>1. \A n \in Nfts : holder[n] # Ics721 /\ sender[n] = NoAddress
    BY DEF Init
  <2> QED
    BY <2>1 DEF Owed
<1> QED
  BY <1>3, <1>4, <1>5, <1>6 DEF ConfigInv

\* Steps that leave the NFTs alone leave each one owed.
LEMMA NftsUntouched ==
  ASSUME ConfigInv, UNCHANGED <<holder, sender>>
  PROVE  Owed'
BY DEF ConfigInv, Owed

\* A nomination arms the pauser it names, and no other.
LEMMA NominationArms ==
  ASSUME ConfigInv, NEW p \in Accounts \cup {NoAddress}, SetPauser(p), UNCHANGED pauses
  PROVE  /\ pauser' \in Accounts \cup {NoAddress} /\ paused' \in BOOLEAN
         /\ nominated' \in [Accounts -> Nat] /\ pauses' \in [Accounts -> Nat]
         /\ PauserArmed'
<1> USE ConfigAssumption
<1>1. /\ nominated \in [Accounts -> Nat] /\ pauses \in [Accounts -> Nat]
      /\ \A a \in Accounts : pauses[a] <= nominated[a]
  BY DEF ConfigInv, TypeOK, PauserArmed
<1>2. \A a \in Accounts : nominated'[a] = IF a = p THEN nominated[a] + 1 ELSE nominated[a]
  BY <1>1 DEF SetPauser
<1>3. pauser' = p /\ paused' = FALSE
  BY DEF SetPauser
<1>4. nominated' \in [Accounts -> Nat]
  BY <1>1 DEF SetPauser
<1>5. PauserArmed'
  <2> SUFFICES ASSUME NEW a \in Accounts
               PROVE  IF p = a THEN pauses[a] < nominated'[a] ELSE pauses[a] <= nominated'[a]
    BY <1>3 DEF PauserArmed
  <2>1. pauses[a] \in Nat /\ nominated[a] \in Nat /\ pauses[a] <= nominated[a]
    BY <1>1
  <2> QED
    BY <1>2, <2>1
<1> QED
  BY <1>1, <1>3, <1>4, <1>5

\* The steps of an instantiation.
LEMMA InstantiationSteps ==
  ASSUME ConfigInv,
         \/ \E p \in Accounts \cup {NoAddress}, infos \in [Roles -> Admins \cup {Unasked}] :
              Instantiate(p, infos)
         \/ \E p \in Proxies : InstantiateProxy(p)
         \/ ProxyFails
         \/ Instantiated
  PROVE  ConfigInv'
<1> USE ConfigAssumption
<1>1. TypeOK /\ PauserArmed /\ SetUp
  BY DEF ConfigInv
<1>2. ASSUME NEW p \in Accounts \cup {NoAddress},
             NEW infos \in [Roles -> Admins \cup {Unasked}], Instantiate(p, infos)
      PROVE  ConfigInv'
  <2>1. /\ phase = "none" /\ phase' = "instantiating" /\ asked' = infos
        /\ pending' = {r \in Roles : infos[r] # Unasked}
        /\ incoming' = NoAddress /\ outgoing' = NoAddress
        /\ SetPauser(p)
        /\ UNCHANGED <<made, migrations, pauses, holder, sender, answer>>
    BY <1>2 DEF Instantiate, nfts
  <2>2. /\ pauser' \in Accounts \cup {NoAddress} /\ paused' \in BOOLEAN
        /\ nominated' \in [Accounts -> Nat] /\ pauses' \in [Accounts -> Nat]
        /\ PauserArmed'
    BY <2>1, NominationArms
  <2>3. TypeOK'
    BY <1>1, <2>1, <2>2 DEF TypeOK
  <2>4. SetUp'
    BY <1>1, <2>1 DEF SetUp, Placed, Roles, SetPauser
  <2> QED
    BY <2>1, <2>2, <2>3, <2>4, NftsUntouched DEF ConfigInv
<1>3. ASSUME NEW p \in Proxies, InstantiateProxy(p) PROVE ConfigInv'
  <2> DEFINE role == IF "incoming" \in pending THEN "incoming" ELSE "outgoing"
  <2>1. /\ phase = "instantiating" /\ pending # {} /\ made[p] = NotMade
        /\ made' = [made EXCEPT ![p] = MadeFor(role, asked[role])]
        /\ ProxyReply(role, p)
        /\ pending' = pending \ {role}
        /\ UNCHANGED <<phase, asked, migrations, pauser, paused, nominated, pauses,
                       holder, sender, answer>>
    BY <1>3 DEF InstantiateProxy, pausing, nfts
  <2>2. role \in pending /\ role \in Roles
    <3>1. \A r \in pending : r = "incoming" \/ r = "outgoing"
      BY <1>1 DEF TypeOK, Roles
    <3>2. PICK r \in pending : TRUE
      BY <2>1
    <3>3. CASE "incoming" \in pending
      BY <3>3 DEF Roles
    <3>4. CASE "incoming" \notin pending
      BY <3>1, <3>2, <3>4 DEF Roles
    <3> QED
      BY <3>3, <3>4
  <2> HIDE DEF role
  <2>3. Placed("incoming", incoming) /\ Placed("outgoing", outgoing) /\ migrations = 0
    BY <1>1, <2>1 DEF SetUp
  <2>4. asked[role] \in Admins
    BY <1>1, <2>2 DEF SetUp, TypeOK
  <2>5. /\ made' \in [Proxies -> [role : Roles \cup {"none"}, admin : Admins]]
        /\ made'[p] = MadeFor(role, asked[role])
        /\ \A q \in Proxies \ {p} : made'[q] = made[q]
    BY <1>1, <2>1, <2>2, <2>4 DEF TypeOK, MadeFor
  <2>6. incoming' \in Proxies \cup {NoAddress} /\ outgoing' \in Proxies \cup {NoAddress}
    BY <1>1, <2>1 DEF ProxyReply, TypeOK
  <2>7. TypeOK'
    BY <1>1, <2>1, <2>5, <2>6 DEF TypeOK
  <2>8. PauserArmed'
    BY <1>1, <2>1 DEF PauserArmed
  <2>9. ASSUME NEW r \in Roles, NEW q, Placed(r, q), q \in Proxies \cup {NoAddress}, r # role
        PROVE  Placed(r, q)'
    <3>1. r \in pending' <=> r \in pending
      BY <2>1, <2>9
    <3>2. q # p \/ asked[r] = Unasked \/ r \in pending
      BY <2>1, <2>9 DEF Placed, MadeFor, NotMade, Roles
    <3> QED
      BY <2>1, <2>5, <2>9, <3>1, <3>2 DEF Placed
  <2>10. Placed("incoming", incoming)' /\ Placed("outgoing", outgoing)'
    <3>1. CASE role = "incoming"
      <4>1. incoming' = p /\ outgoing' = outgoing
        BY <2>1, <3>1 DEF ProxyReply
      <4>2. Placed("incoming", incoming)'
        <5>1. "incoming" \notin pending' /\ asked' = asked /\ asked["incoming"] # Unasked
          BY <1>1, <2>1, <2>2, <3>1 DEF SetUp
        <5>2. p # NoAddress /\ made'[p] = MadeFor("incoming", asked["incoming"])
          BY <2>5, <3>1
        <5> QED
          BY <4>1, <5>1, <5>2 DEF Placed, MadeFor
      <4>3. Placed("outgoing", outgoing)'
        BY <1>1, <2>3, <2>9, <3>1, <4>1 DEF Roles, TypeOK, Placed
      <4> QED
        BY <4>2, <4>3
    <3>2. CASE role = "outgoing"
      <4>1. outgoing' = p /\ incoming' = incoming
        BY <2>1, <3>2 DEF ProxyReply
      <4>2. Placed("outgoing", outgoing)'
        <5>1. "outgoing" \notin pending' /\ asked' = asked /\ asked["outgoing"] # Unasked
          BY <1>1, <2>1, <2>2, <3>2 DEF SetUp
        <5>2. p # NoAddress /\ made'[p] = MadeFor("outgoing", asked["outgoing"])
          BY <2>5, <3>2
        <5> QED
          BY <4>1, <5>1, <5>2 DEF Placed, MadeFor
      <4>3. Placed("incoming", incoming)'
        BY <1>1, <2>3, <2>9, <3>2, <4>1 DEF Roles, TypeOK, Placed
      <4> QED
        BY <4>2, <4>3
    <3> QED
      BY <2>2, <3>1, <3>2 DEF Roles
  <2>11. SetUp'
    BY <1>1, <2>1, <2>3, <2>10 DEF SetUp
  <2> QED
    BY <2>1, <2>7, <2>8, <2>11, NftsUntouched DEF ConfigInv
<1>4. ASSUME ProxyFails PROVE ConfigInv'
  <2>1. /\ phase = "instantiating" /\ phase' = "none" /\ pending' = {}
        /\ asked' = [r \in Roles |-> Unasked]
        /\ made' = [q \in Proxies |-> NotMade]
        /\ incoming' = NoAddress /\ outgoing' = NoAddress
        /\ pauser' = NoAddress /\ paused' = FALSE
        /\ nominated' = [a \in Accounts |-> 0]
        /\ UNCHANGED <<migrations, pauses, holder, sender, answer>>
    BY <1>4 DEF ProxyFails, nfts
  <2>2. made' \in [Proxies -> [role : Roles \cup {"none"}, admin : Admins]]
    BY <2>1 DEF NotMade, Admins
  <2>3. TypeOK'
    BY <1>1, <2>1, <2>2 DEF TypeOK
  <2>4. \A a \in Accounts : pauses[a] = 0
    BY <1>1, <2>1 DEF SetUp
  <2>5. PauserArmed'
    BY <2>1, <2>4 DEF PauserArmed
  <2>6. SetUp'
    BY <1>1, <2>1 DEF SetUp
  <2> QED
    BY <2>1, <2>3, <2>5, <2>6, NftsUntouched DEF ConfigInv
<1>5. ASSUME Instantiated PROVE ConfigInv'
  <2>1. /\ phase = "instantiating" /\ pending = {} /\ phase' = "running"
        /\ UNCHANGED <<asked, pending, made, incoming, outgoing, migrations, pauser,
                       paused, nominated, pauses, holder, sender, answer>>
    BY <1>5 DEF Instantiated, proxies, pausing, nfts
  <2>2. TypeOK'
    BY <1>1, <2>1 DEF TypeOK
  <2>3. PauserArmed'
    BY <1>1, <2>1 DEF PauserArmed
  <2>4. SetUp'
    BY <1>1, <2>1 DEF SetUp, Placed
  <2> QED
    BY <2>1, <2>2, <2>3, <2>4, NftsUntouched DEF ConfigInv
<1> QED
  BY <1>2, <1>3, <1>4, <1>5

\* Pauses and migrations of a contract that runs.
LEMMA PauseAndMigrate ==
  ASSUME ConfigInv,
         \/ \E a \in Accounts : ExecutePause(a)
         \/ \E p \in Accounts \cup {NoAddress}, in, out \in Proxies \cup {NoAddress} :
              Migrate(p, in, out)
  PROVE  ConfigInv'
<1> USE ConfigAssumption
<1>1. TypeOK /\ PauserArmed /\ SetUp
  BY DEF ConfigInv
<1>2. ASSUME NEW a \in Accounts, ExecutePause(a) PROVE ConfigInv'
  <2>1. /\ phase = "running" /\ ~paused /\ pauser = a
        /\ pauser' = NoAddress /\ paused' = TRUE
        /\ pauses' = [pauses EXCEPT ![a] = @ + 1]
        /\ UNCHANGED <<phase, asked, pending, made, incoming, outgoing, migrations,
                       nominated, holder, sender, answer>>
    BY <1>2 DEF ExecutePause, PoPause, setup, proxies, nfts
  <2>2. TypeOK'
    BY <1>1, <2>1 DEF TypeOK
  <2>3. PauserArmed'
    <3> SUFFICES ASSUME NEW b \in Accounts PROVE pauses'[b] <= nominated[b]
      BY <2>1 DEF PauserArmed
    <3>1. pauses[b] \in Nat /\ nominated[b] \in Nat
          /\ pauses'[b] = IF b = a THEN pauses[b] + 1 ELSE pauses[b]
      BY <1>1, <2>1 DEF TypeOK
    <3>2. IF b = a THEN pauses[b] < nominated[b] ELSE pauses[b] <= nominated[b]
      BY <1>1, <2>1 DEF PauserArmed
    <3> QED
      BY <3>1, <3>2
  <2>4. SetUp'
    BY <1>1, <2>1 DEF SetUp, Placed
  <2> QED
    BY <2>1, <2>2, <2>3, <2>4, NftsUntouched DEF ConfigInv
<1>3. ASSUME NEW p \in Accounts \cup {NoAddress}, NEW in \in Proxies \cup {NoAddress},
             NEW out \in Proxies \cup {NoAddress}, Migrate(p, in, out)
      PROVE  ConfigInv'
  <2>1. /\ phase = "running" /\ migrations < MaxMigrations
        /\ incoming' = in /\ outgoing' = out
        /\ SetPauser(p)
        /\ migrations' = migrations + 1
        /\ UNCHANGED <<phase, asked, pending, made, pauses, holder, sender, answer>>
    BY <1>3 DEF Migrate, setup, nfts
  <2>2. /\ pauser' \in Accounts \cup {NoAddress} /\ paused' \in BOOLEAN
        /\ nominated' \in [Accounts -> Nat] /\ pauses' \in [Accounts -> Nat]
        /\ PauserArmed'
    BY <2>1, NominationArms
  <2>3. migrations' \in 0..MaxMigrations /\ migrations' # 0
    BY <1>1, <2>1 DEF TypeOK
  <2>4. TypeOK'
    BY <1>1, <2>1, <2>2, <2>3 DEF TypeOK
  <2>5. SetUp'
    BY <1>1, <2>1, <2>3 DEF SetUp
  <2> QED
    BY <2>1, <2>2, <2>4, <2>5, NftsUntouched DEF ConfigInv
<1> QED
  BY <1>2, <1>3

\* A step that touches no more than NFTs keeps the invariant.
LEMMA NftSteps ==
  ASSUME ConfigInv, TypeOK', Owed',
         UNCHANGED <<setup, proxies, migrations, pausing>>
  PROVE  ConfigInv'
BY DEF ConfigInv, PauserArmed, SetUp, Placed, setup, proxies, pausing

\* What an attempt to send an NFT does.
LEMMA AttemptTyped ==
  ASSUME ConfigInv, NEW n \in Nfts, NEW owner \in Accounts \cup Proxies, NEW from,
         NEW form, NEW route \in Routes, NEW via \in Proxies \cup {NoAddress},
         Attempt(n, owner, from, form, route, via)
  PROVE  TypeOK' /\ Owed' /\ UNCHANGED <<setup, proxies, migrations, pausing>>
<1>1. TypeOK /\ Owed
  BY DEF ConfigInv
<1>2. UNCHANGED <<setup, proxies, migrations, pausing>>
  BY DEF Attempt
<1>3. Accepts(from, form) \in BOOLEAN
  BY DEF Accepts
<1>4. answer' \in [route : Routes, via : Proxies \cup {NoAddress}, accepted : BOOLEAN]
  BY <1>3 DEF Attempt
<1>5. /\ holder' \in [Nfts -> Accounts \cup Proxies \cup {Ics721}]
      /\ sender' \in [Nfts -> Accounts \cup Proxies \cup {NoAddress}]
  BY <1>1 DEF Attempt, Escrow, TypeOK
<1>6. Owed'
  <2>1. CASE Accepts(from, form)
    <3>1. \A m \in Nfts : /\ holder'[m] = IF m = n THEN Ics721 ELSE holder[m]
                         /\ sender'[m] = IF m = n THEN owner ELSE sender[m]
      BY <1>1, <2>1 DEF Attempt, Escrow, TypeOK
    <3> QED
      BY <1>1, <3>1, ConfigAssumption DEF Owed
  <2>2. CASE ~Accepts(from, form)
    BY <1>1, <2>2 DEF Attempt, Owed
  <2> QED
    BY <2>1, <2>2
<1> QED
  BY <1>1, <1>2, <1>4, <1>5, <1>6 DEF TypeOK, setup, proxies, pausing

\* Every step keeps the invariant.
LEMMA ConfigStep == ConfigInv /\ [Next]_vars => ConfigInv'
<1> USE ConfigAssumption
<1> SUFFICES ASSUME ConfigInv, [Next]_vars PROVE ConfigInv'
  OBVIOUS
<1>1. TypeOK
  BY DEF ConfigInv
<1>2. CASE \/ \E p \in Accounts \cup {NoAddress}, infos \in [Roles -> Admins \cup {Unasked}] :
                Instantiate(p, infos)
           \/ \E p \in Proxies : InstantiateProxy(p)
           \/ ProxyFails
           \/ Instantiated
  BY <1>2, InstantiationSteps
<1>3. CASE \/ \E a \in Accounts : ExecutePause(a)
           \/ \E p \in Accounts \cup {NoAddress}, in, out \in Proxies \cup {NoAddress} :
                Migrate(p, in, out)
  BY <1>3, PauseAndMigrate
<1>4. ASSUME NEW n \in Nfts, SendDirect(n) PROVE ConfigInv'
  <2>1. holder[n] \in Accounts \cup Proxies
    BY <1>1, <1>4 DEF SendDirect, TypeOK
  <2>2. Attempt(n, holder[n], "cw721", "plain", "direct", NoAddress)
    BY <1>4 DEF SendDirect
  <2> QED
    BY <2>1, <2>2, AttemptTyped, NftSteps DEF Routes
<1>5. ASSUME NEW n \in Nfts, NEW p \in Proxies, SendForwarded(n, p) PROVE ConfigInv'
  <2>1. holder[n] \in Accounts \cup Proxies
    BY <1>5 DEF SendForwarded
  <2>2. Attempt(n, holder[n], p, "proxied", "forwarded", p)
    BY <1>5 DEF SendForwarded
  <2> QED
    BY <2>1, <2>2, AttemptTyped, NftSteps DEF Routes
<1>6. ASSUME NEW n \in Nfts, NEW p \in Proxies, NEW form \in {"plain", "proxied"},
             SendByProxy(n, p, form)
      PROVE  ConfigInv'
  <2>1. Attempt(n, p, "cw721", form, "sent by proxy", p)
    BY <1>6 DEF SendByProxy
  <2> QED
    BY <2>1, AttemptTyped, NftSteps DEF Routes
<1>7. ASSUME NEW n \in Nfts, Refund(n) PROVE ConfigInv'
  <2>1. /\ holder' = [holder EXCEPT ![n] = sender[n]]
        /\ sender' = [sender EXCEPT ![n] = NoAddress]
        /\ UNCHANGED <<setup, proxies, migrations, pausing, answer>>
        /\ holder[n] = Ics721
    BY <1>7 DEF Refund
  <2>2. sender[n] \in Accounts \cup Proxies
    BY <1>1, <2>1 DEF ConfigInv, Owed, TypeOK
  <2>3. \A m \in Nfts : /\ holder'[m] = IF m = n THEN sender[n] ELSE holder[m]
                       /\ sender'[m] = IF m = n THEN NoAddress ELSE sender[m]
    BY <1>1, <2>1 DEF TypeOK
  <2>4. Owed'
    BY <2>2, <2>3 DEF ConfigInv, Owed
  <2>5. /\ holder' \in [Nfts -> Accounts \cup Proxies \cup {Ics721}]
        /\ sender' \in [Nfts -> Accounts \cup Proxies \cup {NoAddress}]
    BY <1>1, <2>1, <2>2 DEF TypeOK
  <2>6. TypeOK'
    BY <1>1, <2>1, <2>5 DEF TypeOK, setup, proxies, pausing
  <2> QED
    BY <2>1, <2>4, <2>6, NftSteps
<1>8. CASE UNCHANGED vars
  <2>1. TypeOK' /\ Owed' /\ UNCHANGED <<setup, proxies, migrations, pausing>>
    BY <1>1, <1>8 DEF vars, ConfigInv, Owed, TypeOK, setup, proxies, pausing
  <2> QED
    BY <2>1, NftSteps
<1> QED
  BY <1>2, <1>3, <1>4, <1>5, <1>6, <1>7, <1>8 DEF Next

\* What has been proved of every state that can be reached.
THEOREM ConfigInvariant == Spec => []ConfigInv
BY ConfigInit, ConfigStep, PTL DEF Spec

\* Each pause uses up a nomination: Pause ("the pauser burns the right to do
\* so again") and set_pauser, over any number of migrations.
THEOREM PausersPauseOnce == Spec => []PauseOncePerNomination
<1>1. ConfigInv => PauseOncePerNomination
  <2> SUFFICES ASSUME ConfigInv, NEW a \in Accounts PROVE pauses[a] <= nominated[a]
    BY DEF PauseOncePerNomination
  <2>1. pauses[a] \in Nat /\ nominated[a] \in Nat
    BY DEF ConfigInv, TypeOK
  <2>2. pauses[a] < nominated[a] \/ pauses[a] <= nominated[a]
    BY DEF ConfigInv, PauserArmed
  <2> QED
    BY <2>1, <2>2
<1> QED
  BY <1>1, ConfigInvariant, PTL

\* A contract that runs has the proxies asked for, through the replies of
\* their instantiations, until it is migrated.
THEOREM ProxiesAreThoseAskedFor == Spec => []ProxiesAsAsked
<1>1. ConfigInv => ProxiesAsAsked
  BY DEF ConfigInv, SetUp, Placed, ProxiesAsAsked
<1> QED
  BY <1>1, ConfigInvariant, PTL

\* A pause ends with a migration and stops every way into escrow.
THEOREM PausesHold == Spec => PauseHolds
<1>1. ConfigInv /\ [Next]_vars =>
        [paused /\ migrations' = migrations =>
           paused' /\ \A n \in Nfts : holder'[n] = Ics721 => holder[n] = Ics721]_vars
  <2> SUFFICES ASSUME ConfigInv, Next, paused, migrations' = migrations
               PROVE  paused' /\ \A n \in Nfts : holder'[n] = Ics721 => holder[n] = Ics721
    BY DEF vars
  <2>1. TypeOK /\ phase = "running"
    BY DEF ConfigInv, SetUp, TypeOK
  <2>2. ASSUME NEW n \in Nfts, NEW owner, NEW from, NEW form, NEW route, NEW via,
               Attempt(n, owner, from, form, route, via)
        PROVE  UNCHANGED <<paused, holder>>
    BY <2>2 DEF Attempt, Accepts, pausing
  <2>3. CASE \E n \in Nfts : \/ SendDirect(n)
                            \/ \E p \in Proxies :
                                 \/ SendForwarded(n, p)
                                 \/ \E form \in {"plain", "proxied"} : SendByProxy(n, p, form)
    <3>1. UNCHANGED <<paused, holder>>
      BY <2>2, <2>3 DEF SendDirect, SendForwarded, SendByProxy
    <3> QED
      BY <3>1
  <2>4. ASSUME NEW n \in Nfts, Refund(n)
        PROVE  paused' /\ \A m \in Nfts : holder'[m] = Ics721 => holder[m] = Ics721
    BY <2>1, <2>4 DEF Refund, pausing, TypeOK
  <2>5. ~(\E a \in Accounts : ExecutePause(a))
    BY DEF ExecutePause, PoPause
  <2>6. ~(\E p \in Accounts \cup {NoAddress}, in, out \in Proxies \cup {NoAddress} :
            Migrate(p, in, out))
    BY <2>1 DEF Migrate, TypeOK
  <2>7. /\ ~(\E p \in Accounts \cup {NoAddress},
               infos \in [Roles -> Admins \cup {Unasked}] : Instantiate(p, infos))
        /\ ~(\E p \in Proxies : InstantiateProxy(p)) /\ ~ProxyFails /\ ~Instantiated
    BY <2>1 DEF Instantiate, InstantiateProxy, ProxyFails, Instantiated
  <2> QED
    BY <2>3, <2>4, <2>5, <2>6, <2>7 DEF Next
<1> QED
  BY <1>1, ConfigInvariant, PTL DEF Spec, PauseHolds

\* NFTs leave through the outgoing proxy in force, and a refund finds their
\* owner (execute_receive_nft, after any migrations).
THEOREM NftsLeaveOneWay == Spec => OneWayOut
<1>1. ConfigInv /\ [Next]_vars =>
        [\A n \in Nfts : outgoing # NoAddress /\ holder[n] # Ics721 /\ holder'[n] = Ics721 =>
           answer'.route = "forwarded" /\ answer'.via = outgoing /\ sender'[n] = holder[n]]_vars
  <2> SUFFICES ASSUME ConfigInv, Next, NEW n \in Nfts,
                      outgoing # NoAddress, holder[n] # Ics721, holder'[n] = Ics721
               PROVE  answer'.route = "forwarded" /\ answer'.via = outgoing
                      /\ sender'[n] = holder[n]
    BY DEF vars
  <2>1. TypeOK
    BY DEF ConfigInv
  <2>2. ASSUME NEW m \in Nfts, NEW owner, NEW from, NEW form, NEW route, NEW via,
               Attempt(m, owner, from, form, route, via)
        PROVE  /\ m = n /\ Accepts(from, form) /\ sender'[n] = owner
               /\ answer' = [route |-> route, via |-> via, accepted |-> Accepts(from, form)]
    <3>1. Accepts(from, form)
      BY <2>2 DEF Attempt
    <3>2. m = n /\ sender'[n] = owner
      BY <2>1, <2>2, <3>1 DEF Attempt, Escrow, TypeOK
    <3> QED
      BY <2>2, <3>1, <3>2 DEF Attempt
  <2>3. ASSUME NEW m \in Nfts, SendDirect(m) PROVE FALSE
    BY <2>2, <2>3 DEF SendDirect, Accepts
  <2>4. ASSUME NEW m \in Nfts, NEW p \in Proxies, SendForwarded(m, p)
        PROVE  answer'.route = "forwarded" /\ answer'.via = outgoing /\ sender'[n] = holder[n]
    <3>1. /\ m = n /\ Accepts(p, "proxied") /\ sender'[n] = holder[m]
          /\ answer' = [route |-> "forwarded", via |-> p,
                        accepted |-> Accepts(p, "proxied")]
      BY <2>2, <2>4 DEF SendForwarded
    <3>2. p = outgoing
      BY <3>1 DEF Accepts
    <3> QED
      BY <3>1, <3>2
  <2>5. ASSUME NEW m \in Nfts, NEW p \in Proxies, NEW form \in {"plain", "proxied"},
               SendByProxy(m, p, form)
        PROVE  FALSE
    <3>1. Accepts("cw721", form)
      BY <2>2, <2>5 DEF SendByProxy
    <3> QED
      BY <3>1, <2>1, ConfigAssumption DEF Accepts, TypeOK
  <2>6. ~(\E m \in Nfts : Refund(m))
    <3> SUFFICES ASSUME NEW m \in Nfts, Refund(m) PROVE FALSE
      OBVIOUS
    <3>1. sender[m] # Ics721
      BY <2>1, ConfigAssumption DEF Refund, ConfigInv, Owed, TypeOK
    <3> QED
      BY <2>1, <3>1 DEF Refund, TypeOK
  <2>7. \A m \in Nfts : ~SendDirect(m)
    BY <2>3
  <2>8. CASE UNCHANGED holder
    BY <2>8
  <2> QED
    BY <2>4, <2>5, <2>6, <2>7, <2>8
    DEF Next, Instantiate, InstantiateProxy, ProxyFails, Instantiated, ExecutePause,
        Migrate, nfts
<1> QED
  BY <1>1, ConfigInvariant, PTL DEF Spec, OneWayOut
===============================================================================
