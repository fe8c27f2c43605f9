------------------------- MODULE ChannelContractProofs -------------------------
(***************************************************************************)
(* Proofs about ChannelContract, for every value of its constants.         *)
(***************************************************************************)
EXTENDS ChannelContract, Sums

(* A transfer between two different holders keeps the type of the balances
   and touches only these two, in this asset.                               *)
LEMMA TransferEffect ==
    ASSUME balance \in [Assets -> [Holders -> Int]],
           NEW a \in Assets, NEW from \in Holders, NEW to \in Holders,
           NEW n \in Int, from # to
    PROVE  /\ Transferred(a, from, to, n) \in [Assets -> [Holders -> Int]]
           /\ Transferred(a, from, to, n)[a][from] = balance[a][from] - n
           /\ Transferred(a, from, to, n)[a][to] = balance[a][to] + n
           /\ \A h \in Holders \ {from, to} :
                 Transferred(a, from, to, n)[a][h] = balance[a][h]
           /\ \A b \in Assets \ {a} : Transferred(a, from, to, n)[b] = balance[b]
  BY DEF Transferred

(* A stored channel is well typed, and its parties hold balances the contract
   itself does not share.                                                   *)
LEMMA StoredChannel ==
    ASSUME TypeOK, NEW id \in Ids, Found(id)
    PROVE  /\ channels[id] \in Channel
           /\ channels[id].payer \in Holders \ {Self}
           /\ channels[id].payee \in Holders \ {Self}
           /\ channels[id].asset \in Assets
           /\ channels[id].deposit \in Int
           /\ channels[id].claimed \in Int
           /\ id \in 1..(next_id - 1)
           /\ Self \in Holders
  BY ContractAssumption DEF TypeOK, Found, Channel, Holders

(* Replacing one record by a well-typed one keeps the store well typed.     *)
LEMMA StoreUpdate ==
    ASSUME channels \in [1..(next_id - 1) -> Channel],
           NEW id \in 1..(next_id - 1), NEW ch \in Channel,
           channels' = [channels EXCEPT ![id] = ch]
    PROVE  /\ channels' \in [1..(next_id - 1) -> Channel]
           /\ DOMAIN channels' = 1..(next_id - 1)
  OBVIOUS

LEMMA InitType == Init => TypeOK
  <1> SUFFICES ASSUME Init PROVE TypeOK
    OBVIOUS
  <1>1. next_id \in 1..(MaxId + 1) /\ ledger \in Nat
    BY ContractAssumption DEF Init, Deployed
  <1>2. DOMAIN channels = 1..(next_id - 1) /\ channels \in [1..(next_id - 1) -> Channel]
    BY DEF Init, Deployed
  <1>3. balance \in [Assets -> [Holders -> Int]]
    BY ContractAssumption DEF Init, Deployed
  <1>4. signed = {} /\ event \in Event \cup {NoEvent}
    BY DEF Init, Deployed
  <1> QED BY <1>1, <1>2, <1>3, <1>4 DEF TypeOK

LEMMA OpenType ==
    ASSUME TypeOK,
           NEW payer \in Parties, NEW payee \in Parties, NEW a \in Assets,
           NEW d \in Amounts, NEW k \in Keys, NEW x \in Expiries,
           Open(payer, payee, a, d, k, x)
    PROVE  TypeOK'
  <1> DEFINE ch == [payer |-> payer, payee |-> payee, asset |-> a,
                    deposit |-> d, claimed |-> 0, voucher_key |-> k,
                    expiry_ledger |-> x, open |-> TRUE]
  <1>1. d \in Int /\ x \in Nat /\ MaxId \in Nat
    BY ContractAssumption
  <1>2. ch \in Channel
    BY <1>1 DEF Channel
  <1>3. next_id \in Ids /\ next_id' = next_id + 1
    BY <1>1 DEF Open, TypeOK, Ids
  <1>4. DOMAIN channels \cup {next_id} = 1..(next_id' - 1)
    BY <1>3 DEF TypeOK, Ids
  <1>5. channels' = [i \in 1..(next_id' - 1) |-> IF i = next_id THEN ch ELSE channels[i]]
    BY <1>4 DEF Open
  <1>6. channels' \in [1..(next_id' - 1) -> Channel]
    BY <1>2, <1>3, <1>4, <1>5 DEF TypeOK
  <1>7. balance' \in [Assets -> [Holders -> Int]]
    <2>1. payer \in Holders /\ Self \in Holders /\ payer # Self
      BY ContractAssumption DEF Holders
    <2>2. balance' = Transferred(a, payer, Self, d)
      BY DEF Open
    <2>3. balance \in [Assets -> [Holders -> Int]]
      BY DEF TypeOK
    <2> QED BY <1>1, <2>1, <2>2, <2>3, TransferEffect
  <1>8. event' \in Event
    BY <1>1, <1>3 DEF Open, Publish, Event, EventTypes, TypeOK
  <1>9. next_id' \in 1..(MaxId + 1)
    BY <1>1, <1>3 DEF Ids
  <1>10. DOMAIN channels' = 1..(next_id' - 1)
    BY <1>5
  <1>11. ledger' = ledger /\ signed' = signed
    BY DEF Open
  <1> QED BY <1>6, <1>7, <1>8, <1>9, <1>10, <1>11 DEF TypeOK

LEMMA TopUpType ==
    ASSUME TypeOK, NEW id \in Ids, NEW n \in Amounts, TopUp(id, n)
    PROVE  TypeOK'
  <1>1. Self \notin Parties /\ n \in Int
    BY ContractAssumption
  <1>2. Found(id)
    BY DEF TopUp, OpenChannel
  <1>3. channels' = [channels EXCEPT ![id] = [channels[id] EXCEPT !.deposit = channels[id].deposit + n]]
    BY DEF TopUp
  <1>4. [channels[id] EXCEPT !.deposit = channels[id].deposit + n] \in Channel
    BY <1>1, <1>2, StoredChannel DEF Channel
  <1>5. /\ channels' \in [1..(next_id - 1) -> Channel]
        /\ DOMAIN channels' = 1..(next_id - 1)
    BY <1>2, <1>3, <1>4, StoredChannel, StoreUpdate DEF TypeOK
  <1>6. balance' \in [Assets -> [Holders -> Int]]
    <2>1. balance' = Transferred(channels[id].asset, channels[id].payer, Self, n)
      BY DEF TopUp
    <2>2. balance \in [Assets -> [Holders -> Int]]
      BY DEF TypeOK
    <2>3. n \in Int
      BY <1>1, <1>2, StoredChannel
    <2> QED BY <1>2, <2>1, <2>2, <2>3, StoredChannel, TransferEffect
  <1>7. event' \in Event
    BY <1>1, <1>2, StoredChannel DEF TopUp, Publish, Event, EventTypes, TypeOK
  <1> QED BY <1>5, <1>6, <1>7 DEF TypeOK, TopUp

LEMMA ClaimType ==
    ASSUME TypeOK, NEW id \in Ids, NEW c \in Cumulatives, NEW s \in signed,
           Claim(id, c, s)
    PROVE  TypeOK'
  <1>1. Self \notin Parties /\ c \in Int
    BY ContractAssumption
  <1>2. Found(id)
    BY DEF Claim, ClaimAccepted, OpenChannel
  <1>3. channels' = [channels EXCEPT ![id] = [channels[id] EXCEPT !.claimed = c]]
    BY DEF Claim
  <1>4. [channels[id] EXCEPT !.claimed = c] \in Channel
    BY <1>1, <1>2, StoredChannel DEF Channel
  <1>5. /\ channels' \in [1..(next_id - 1) -> Channel]
        /\ DOMAIN channels' = 1..(next_id - 1)
    BY <1>2, <1>3, <1>4, StoredChannel, StoreUpdate DEF TypeOK
  <1>6. balance' \in [Assets -> [Holders -> Int]]
    <2>1. balance' = Transferred(channels[id].asset, Self, channels[id].payee, c - channels[id].claimed)
      BY DEF Claim
    <2>2. balance \in [Assets -> [Holders -> Int]]
      BY DEF TypeOK
    <2>3. c - channels[id].claimed \in Int
      BY <1>1, <1>2, StoredChannel
    <2> QED BY <1>2, <2>1, <2>2, <2>3, StoredChannel, TransferEffect
  <1>7. event' \in Event
    BY <1>1, <1>2, StoredChannel DEF Claim, Publish, Event, EventTypes, TypeOK
  <1> QED BY <1>5, <1>6, <1>7 DEF TypeOK, Claim

LEMMA CloseType ==
    ASSUME TypeOK, NEW id \in Ids, NEW p \in Parties, Close(id, p)
    PROVE  TypeOK'
  <1>1. Self \notin Parties
    BY ContractAssumption
  <1>2. Found(id)
    BY DEF Close, OpenChannel
  <1>3. channels' = [channels EXCEPT ![id] = [channels[id] EXCEPT !.open = FALSE]]
    BY DEF Close
  <1>4. [channels[id] EXCEPT !.open = FALSE] \in Channel
    BY <1>1, <1>2, StoredChannel DEF Channel
  <1>5. /\ channels' \in [1..(next_id - 1) -> Channel]
        /\ DOMAIN channels' = 1..(next_id - 1)
    BY <1>2, <1>3, <1>4, StoredChannel, StoreUpdate DEF TypeOK
  <1>6. balance' \in [Assets -> [Holders -> Int]]
    <2>1. \/ balance' = balance
         \/ balance' = Transferred(channels[id].asset, Self, channels[id].payer, channels[id].deposit - channels[id].claimed)
      BY DEF Close, Refund
    <2>2. balance \in [Assets -> [Holders -> Int]]
      BY DEF TypeOK
    <2>3. channels[id].deposit - channels[id].claimed \in Int
      BY <1>1, <1>2, StoredChannel
    <2>4. Transferred(channels[id].asset, Self, channels[id].payer,
                      channels[id].deposit - channels[id].claimed)
            \in [Assets -> [Holders -> Int]]
      BY <1>2, <2>2, <2>3, StoredChannel, TransferEffect
    <2> QED BY <2>1, <2>2, <2>4
  <1>7. event' \in Event
    BY <1>1, <1>2, StoredChannel DEF Close, Refund, Publish, Event, EventTypes, TypeOK
  <1> QED BY <1>5, <1>6, <1>7 DEF TypeOK, Close

(* TypeOK is inductive.                                                     *)
LEMMA TypeStep ==
    ASSUME TypeOK, [Next]_contractVars
    PROVE  TypeOK'
  <1>1. ASSUME NEW payer \in Parties, NEW payee \in Parties, NEW a \in Assets,
               NEW d \in Amounts, NEW k \in Keys, NEW x \in Expiries,
               Open(payer, payee, a, d, k, x)
        PROVE  TypeOK'
    BY <1>1, OpenType
  <1>2. ASSUME NEW id \in Ids, NEW n \in Amounts, TopUp(id, n)
        PROVE  TypeOK'
    BY <1>2, TopUpType
  <1>3. ASSUME NEW id \in Ids, NEW c \in Cumulatives, NEW s \in signed, Claim(id, c, s)
        PROVE  TypeOK'
    BY <1>3, ClaimType
  <1>4. ASSUME NEW id \in Ids, NEW p \in Parties, Close(id, p)
        PROVE  TypeOK'
    BY <1>4, CloseType
  <1>5. ASSUME NEW k \in Keys, NEW d \in Deployments, NEW id \in Ids,
               NEW c \in Cumulatives, Sign(k, d, id, c)
        PROVE  TypeOK'
    BY <1>5 DEF Sign, TypeOK, Vouchers
  <1>6. CASE LedgerCloses
    BY <1>6 DEF LedgerCloses, TypeOK
  <1>7. CASE UNCHANGED contractVars
    BY <1>7 DEF contractVars, TypeOK
  <1> QED BY <1>1, <1>2, <1>3, <1>4, <1>5, <1>6, <1>7 DEF Next

(* Type correctness: every reachable state is well typed, and the ids of the
   stored channels are those below NextId.                                  *)
THEOREM TypeCorrect == Spec => []TypeOK
  BY InitType, TypeStep, PTL DEF Spec

-----------------------------------------------------------------------------
(* What a signature that passes claim's check says about its signer.        *)
LEMMA HashIsMeaning ==
    ASSUME TypeOK, NEW s \in signed, NEW id \in Ids, NEW c \in Cumulatives,
           s.hash = voucher_hash(Here, id, c)
    PROVE  s.meant = <<Here, id, c>>
  BY DEF TypeOK, Vouchers, Signature, voucher_hash

(* The body of ClaimsAreBacked for one record of channel id.                *)
Backed(id, ch, sigs) ==
    /\ ch.claimed \in 0..ch.deposit
    /\ ch.claimed > 0 =>
          \E s \in sigs : /\ s.key = ch.voucher_key
                          /\ s.meant = <<Here, id, ch.claimed>>

LEMMA BackedStep ==
    ASSUME TypeOK, ClaimsAreBacked, [Next]_contractVars
    PROVE  ClaimsAreBacked'
  <1>1. \A id \in DOMAIN channels : Backed(id, channels[id], signed)
    BY DEF ClaimsAreBacked, Backed
  <1> SUFFICES \A id \in DOMAIN channels' : Backed(id, channels'[id], signed')
    BY DEF ClaimsAreBacked, Backed
  <1>2. ASSUME NEW payer \in Parties, NEW payee \in Parties, NEW a \in Assets,
               NEW d \in Amounts, NEW k \in Keys, NEW x \in Expiries,
               Open(payer, payee, a, d, k, x)
        PROVE  \A id \in DOMAIN channels' : Backed(id, channels'[id], signed')
    <2>1. d \in Int /\ d > 0
      BY <1>2, ContractAssumption DEF Open
    <2>2. signed' = signed
      BY <1>2 DEF Open
    <2> SUFFICES ASSUME NEW id \in DOMAIN channels'
                 PROVE  Backed(id, channels'[id], signed')
      OBVIOUS
    <2>3. CASE id = next_id
      <3>1. channels'[id].claimed = 0 /\ channels'[id].deposit = d
        BY <1>2, <2>3 DEF Open
      <3> QED BY <2>1, <3>1 DEF Backed
    <2>4. CASE id # next_id
      <3>1. id \in DOMAIN channels /\ channels'[id] = channels[id]
        BY <1>2, <2>4 DEF Open
      <3> QED BY <1>1, <2>2, <3>1
    <2> QED BY <2>3, <2>4
  <1>3. ASSUME NEW id \in Ids, NEW n \in Amounts, TopUp(id, n)
        PROVE  \A i \in DOMAIN channels' : Backed(i, channels'[i], signed')
    <2>1. Found(id) /\ n \in Int /\ n > 0 /\ signed' = signed
      BY <1>3, ContractAssumption DEF TopUp, OpenChannel
    <2>2. DOMAIN channels' = DOMAIN channels /\ id \in DOMAIN channels
      BY <1>3, <2>1 DEF TopUp, Found
    <2>3. channels'[id] = [channels[id] EXCEPT !.deposit = channels[id].deposit + n]
      BY <1>3, <2>2 DEF TopUp
    <2>4. /\ channels'[id].deposit = channels[id].deposit + n
          /\ channels'[id].claimed = channels[id].claimed
          /\ channels'[id].voucher_key = channels[id].voucher_key
      BY <2>1, <2>3, StoredChannel DEF Channel
    <2>5. \A i \in DOMAIN channels \ {id} : channels'[i] = channels[i]
      BY <1>3 DEF TopUp
    <2>6. Backed(id, channels[id], signed)
      BY <1>1, <2>2
    <2>7. channels[id].claimed \in 0..(channels[id].deposit + n)
      BY <2>1, <2>6, StoredChannel DEF Backed
    <2>8. Backed(id, channels'[id], signed')
      BY <2>1, <2>4, <2>6, <2>7 DEF Backed
    <2> QED BY <1>1, <2>1, <2>2, <2>5, <2>8
  <1>4. ASSUME NEW id \in Ids, NEW c \in Cumulatives, NEW s \in signed, Claim(id, c, s)
        PROVE  \A i \in DOMAIN channels' : Backed(i, channels'[i], signed')
    <2>1. Found(id) /\ c \in Int /\ signed' = signed
      BY <1>4, ContractAssumption DEF Claim, ClaimAccepted, OpenChannel
    <2>2. DOMAIN channels' = DOMAIN channels /\ id \in DOMAIN channels
      BY <1>4, <2>1 DEF Claim, Found
    <2>3. channels'[id] = [channels[id] EXCEPT !.claimed = c]
      BY <1>4, <2>2 DEF Claim
    <2>4. c > channels[id].claimed /\ c <= channels[id].deposit
      BY <1>4 DEF Claim, ClaimAccepted
    <2>5. s.key = channels[id].voucher_key /\ s.meant = <<Here, id, c>>
      BY <1>4, HashIsMeaning DEF Claim, ClaimAccepted
    <2>6. channels[id].claimed \in 0..channels[id].deposit
      BY <1>1, <2>2 DEF Backed
    <2>7. /\ channels'[id].claimed = c
          /\ channels'[id].deposit = channels[id].deposit
          /\ channels'[id].voucher_key = channels[id].voucher_key
      BY <2>1, <2>3, StoredChannel DEF Channel
    <2>8. Backed(id, channels'[id], signed')
      <3>1. channels'[id].claimed \in 0..channels'[id].deposit
        BY <2>1, <2>4, <2>6, <2>7, StoredChannel
      <3>2. s \in signed' /\ s.key = channels'[id].voucher_key
            /\ s.meant = <<Here, id, channels'[id].claimed>>
        BY <2>1, <2>5, <2>7
      <3> QED BY <3>1, <3>2 DEF Backed
    <2>9. \A i \in DOMAIN channels \ {id} : channels'[i] = channels[i]
      BY <1>4 DEF Claim
    <2> QED BY <1>1, <2>1, <2>2, <2>8, <2>9
  <1>5. ASSUME NEW id \in Ids, NEW p \in Parties, Close(id, p)
        PROVE  \A i \in DOMAIN channels' : Backed(i, channels'[i], signed')
    <2>1. Found(id) /\ signed' = signed
      BY <1>5 DEF Close, OpenChannel
    <2>2. DOMAIN channels' = DOMAIN channels /\ id \in DOMAIN channels
      BY <1>5, <2>1 DEF Close, Found
    <2>3. channels'[id] = [channels[id] EXCEPT !.open = FALSE]
      BY <1>5, <2>2 DEF Close
    <2>4. Backed(id, channels'[id], signed')
      BY <1>1, <2>1, <2>2, <2>3, StoredChannel DEF Backed, Channel
    <2>5. \A i \in DOMAIN channels \ {id} : channels'[i] = channels[i]
      BY <1>5 DEF Close
    <2> QED BY <1>1, <2>1, <2>2, <2>4, <2>5
  <1>6. ASSUME NEW k \in Keys, NEW d \in Deployments, NEW id \in Ids,
               NEW c \in Cumulatives, Sign(k, d, id, c)
        PROVE  \A i \in DOMAIN channels' : Backed(i, channels'[i], signed')
    <2>1. channels' = channels /\ signed \subseteq signed'
      BY <1>6 DEF Sign
    <2> QED BY <1>1, <2>1 DEF Backed
  <1>7. CASE LedgerCloses
    BY <1>1, <1>7 DEF LedgerCloses
  <1>8. CASE UNCHANGED contractVars
    BY <1>1, <1>8 DEF contractVars
  <1> QED BY <1>2, <1>3, <1>4, <1>5, <1>6, <1>7, <1>8 DEF Next

(* No channel is ever claimed beyond its deposit, nor for a total its own key
   has not signed for this network, contract and channel.  TypeOK supplies
   what the step needs: every signature's hash determines what was meant.   *)
THEOREM ClaimsBacked == Spec => []ClaimsAreBacked
  <1>1. Init => ClaimsAreBacked
    BY DEF Init, Deployed, ClaimsAreBacked
  <1>2. TypeOK /\ ClaimsAreBacked /\ [Next]_contractVars => ClaimsAreBacked'
    BY BackedStep
  <1> QED BY <1>1, <1>2, TypeCorrect, PTL DEF Spec
-----------------------------------------------------------------------------
(* Every entry point that changes a stored channel needs it open and replaces
   its record by one with the same terms.                                   *)
OneRecord(id, new) ==
    /\ OpenChannel(id)
    /\ channels' = [channels EXCEPT ![id] = new]
    /\ new \in Channel
    /\ \A f \in Terms : new[f] = channels[id][f]

LEMMA OneRecordIsFinal ==
    ASSUME TypeOK, NEW id \in Ids, NEW new, OneRecord(id, new),
           NEW i \in DOMAIN channels
    PROVE  Final(i)
  <1>1. i \in DOMAIN channels'
    BY DEF OneRecord
  <1>2. CASE i = id
    <2>1. channels'[i] = new /\ channels[i].open
      BY <1>2 DEF OneRecord, OpenChannel, Found
    <2> QED BY <1>1, <1>2, <2>1 DEF OneRecord, Final
  <1>3. CASE i # id
    <2>1. channels'[i] = channels[i]
      BY <1>3 DEF OneRecord
    <2> QED BY <1>1, <2>1 DEF Final
  <1> QED BY <1>2, <1>3

(* top_up, claim and close replace one record.                              *)
LEMMA TopUpRecord ==
    ASSUME TypeOK, NEW id \in Ids, NEW n \in Amounts, TopUp(id, n)
    PROVE  \E new : OneRecord(id, new)
  <1> DEFINE new == [channels[id] EXCEPT !.deposit = channels[id].deposit + n]
  <1>1. OpenChannel(id) /\ Found(id) /\ n \in Int
    BY ContractAssumption DEF TopUp, OpenChannel
  <1>2. channels' = [channels EXCEPT ![id] = new]
    BY DEF TopUp
  <1>3. new \in Channel /\ \A f \in Terms : new[f] = channels[id][f]
    BY <1>1, StoredChannel DEF Channel, Terms
  <1> HIDE DEF new
  <1> QED BY <1>1, <1>2, <1>3 DEF OneRecord

LEMMA ClaimRecord ==
    ASSUME TypeOK, NEW id \in Ids, NEW c \in Cumulatives, NEW s \in signed,
           Claim(id, c, s)
    PROVE  \E new : OneRecord(id, new)
  <1> DEFINE new == [channels[id] EXCEPT !.claimed = c]
  <1>1. OpenChannel(id) /\ Found(id) /\ c \in Int
    BY ContractAssumption DEF Claim, ClaimAccepted, OpenChannel
  <1>2. channels' = [channels EXCEPT ![id] = new]
    BY DEF Claim
  <1>3. new \in Channel /\ \A f \in Terms : new[f] = channels[id][f]
    BY <1>1, StoredChannel DEF Channel, Terms
  <1> HIDE DEF new
  <1> QED BY <1>1, <1>2, <1>3 DEF OneRecord

LEMMA CloseRecord ==
    ASSUME TypeOK, NEW id \in Ids, NEW p \in Parties, Close(id, p)
    PROVE  \E new : OneRecord(id, new)
  <1> DEFINE new == [channels[id] EXCEPT !.open = FALSE]
  <1>1. OpenChannel(id) /\ Found(id)
    BY DEF Close, OpenChannel
  <1>2. channels' = [channels EXCEPT ![id] = new]
    BY DEF Close
  <1>3. new \in Channel /\ \A f \in Terms : new[f] = channels[id][f]
    BY <1>1, StoredChannel DEF Channel, Terms
  <1> HIDE DEF new
  <1> QED BY <1>1, <1>2, <1>3 DEF OneRecord

(* No step changes a closed channel, or any channel's terms.                *)
LEMMA StepIsFinal ==
    ASSUME TypeOK, [Next]_contractVars
    PROVE  \A i \in DOMAIN channels : Final(i)
  <1>1. ASSUME NEW payer \in Parties, NEW payee \in Parties, NEW a \in Assets,
               NEW d \in Amounts, NEW k \in Keys, NEW x \in Expiries,
               Open(payer, payee, a, d, k, x)
        PROVE  \A i \in DOMAIN channels : Final(i)
    <2>1. next_id \notin DOMAIN channels
      BY DEF TypeOK
    <2>2. \A i \in DOMAIN channels : i \in DOMAIN channels' /\ channels'[i] = channels[i]
      BY <1>1, <2>1 DEF Open
    <2> QED BY <2>2 DEF Final
  <1>2. ASSUME NEW id \in Ids, NEW n \in Amounts, TopUp(id, n)
        PROVE  \A i \in DOMAIN channels : Final(i)
    BY <1>2, TopUpRecord, OneRecordIsFinal
  <1>3. ASSUME NEW id \in Ids, NEW c \in Cumulatives, NEW s \in signed, Claim(id, c, s)
        PROVE  \A i \in DOMAIN channels : Final(i)
    BY <1>3, ClaimRecord, OneRecordIsFinal
  <1>4. ASSUME NEW id \in Ids, NEW p \in Parties, Close(id, p)
        PROVE  \A i \in DOMAIN channels : Final(i)
    BY <1>4, CloseRecord, OneRecordIsFinal
  <1>5. ASSUME NEW k \in Keys, NEW d \in Deployments, NEW id \in Ids,
               NEW c \in Cumulatives, Sign(k, d, id, c)
        PROVE  \A i \in DOMAIN channels : Final(i)
    BY <1>5 DEF Sign, Final
  <1>6. CASE LedgerCloses
    BY <1>6 DEF LedgerCloses, Final
  <1>7. CASE UNCHANGED contractVars
    BY <1>7 DEF contractVars, Final
  <1> QED BY <1>1, <1>2, <1>3, <1>4, <1>5, <1>6, <1>7 DEF Next

(* A closed channel never changes again, and no channel ever changes its
   parties, asset, key or expiry.                                           *)
THEOREM ClosedForGood == Spec => SettledIsFinal
  <1>1. TypeOK /\ [Next]_contractVars => [\A id \in DOMAIN channels : Final(id)]_contractVars
    BY StepIsFinal
  <1> QED BY <1>1, TypeCorrect, PTL DEF Spec, SettledIsFinal
-----------------------------------------------------------------------------
(* What the contract owes in an asset, channel by channel.                  *)
Owed(chs, a) == [id \in Ids |-> Locked(chs, id, a)]

LEMMA OwedType ==
    ASSUME TypeOK, NEW a \in Assets
    PROVE  IsFiniteSet(Ids) /\ \A id \in Ids : Owed(channels, a)[id] \in Int
  <1>1. IsFiniteSet(Ids)
    BY ContractAssumption, FS_Interval DEF Ids
  <1>2. ASSUME NEW id \in Ids PROVE Locked(channels, id, a) \in Int
    BY <1>2, StoredChannel DEF Locked, Found
  <1> QED BY <1>1, <1>2 DEF Owed

(* When one record changes, the debt changes by what that channel locks.    *)
LEMMA OwedChanges ==
    ASSUME TypeOK, TypeOK', NEW a \in Assets, NEW id \in Ids,
           \A i \in Ids \ {id} : Locked(channels', i, a) = Locked(channels, i, a)
    PROVE  SumFunction(Owed(channels', a)) =
              SumFunction(Owed(channels, a)) + Locked(channels', id, a) - Locked(channels, id, a)
  <1> DEFINE f == Owed(channels, a)
             g == Owed(channels', a)
  <1>1. IsFiniteSet(Ids) /\ \A i \in Ids : f[i] \in Int
    BY OwedType
  <1>2. \A i \in Ids : g[i] \in Int
    <2>1. TypeOK' => \A i \in Ids : Locked(channels', i, a) \in Int
      <3> SUFFICES ASSUME TypeOK', NEW i \in Ids PROVE Locked(channels', i, a) \in Int
        OBVIOUS
      <3>1. CASE i \in DOMAIN channels'
        <4>1. channels'[i] \in Channel
          BY <3>1 DEF TypeOK
        <4>2. channels'[i].deposit - channels'[i].claimed \in Int
          BY <4>1 DEF Channel
        <4> QED BY <4>2 DEF Locked
      <3>2. CASE i \notin DOMAIN channels'
        BY <3>2 DEF Locked
      <3> QED BY <3>1, <3>2
    <2> QED BY <2>1 DEF Owed
  <1>3. \A i \in Ids \ {id} : g[i] = f[i]
    BY DEF Owed
  <1>4. f[id] = Locked(channels, id, a) /\ g[id] = Locked(channels', id, a)
    BY DEF Owed
  <1>5. DOMAIN f = Ids /\ DOMAIN g = Ids
    BY DEF Owed
  <1> HIDE DEF f, g
  <1>6. SumFunctionOnSet(g, Ids) = SumFunctionOnSet(f, Ids) + g[id] - f[id]
    BY <1>1, <1>2, <1>3, SumChanges
  <1> QED BY <1>4, <1>5, <1>6 DEF SumFunction, f, g

(* A record that keeps its channel open, or closes it, in its own asset.    *)
LEMMA SolvencyKept ==
    ASSUME TypeOK, TypeOK', Solvency, NEW id \in Ids, NEW b \in Assets, NEW n \in Int,
           \A i \in Ids \ {id} : \A a \in Assets : Locked(channels', i, a) = Locked(channels, i, a),
           \A a \in Assets \ {b} : Locked(channels', id, a) = Locked(channels, id, a),
           Locked(channels', id, b) = Locked(channels, id, b) + n,
           \A a \in Assets \ {b} : balance'[a][Self] = balance[a][Self],
           balance'[b][Self] = balance[b][Self] + n
    PROVE  Solvency'
  <1> SUFFICES ASSUME NEW a \in Assets
               PROVE  balance'[a][Self] = SumFunction(Owed(channels', a))
    BY DEF Solvency, Owed
  <1>1. SumFunction(Owed(channels', a)) =
              SumFunction(Owed(channels, a)) + Locked(channels', id, a) - Locked(channels, id, a)
    BY OwedChanges
  <1>2. balance[a][Self] = SumFunction(Owed(channels, a))
    BY DEF Solvency, Owed
  <1>3. Locked(channels, id, a) \in Int
    BY OwedType DEF Owed
  <1>4. balance[a][Self] \in Int
    BY DEF TypeOK, Holders
  <1> QED BY <1>1, <1>2, <1>3, <1>4

(* The contract's own balance moves with what is locked: by the deposit, the
   amount, the claim or the refund.                                         *)
LEMMA SolvencyStep ==
    ASSUME TypeOK, TypeOK', ClaimsAreBacked, Solvency, [Next]_contractVars
    PROVE  Solvency'
  <1>0. Self \notin Parties /\ Self \in Holders /\ Parties \subseteq Holders
    BY ContractAssumption DEF Holders
  <1>9. balance \in [Assets -> [Holders -> Int]]
    BY DEF TypeOK
  <1>1. ASSUME NEW payer \in Parties, NEW payee \in Parties, NEW b \in Assets,
               NEW d \in Amounts, NEW k \in Keys, NEW x \in Expiries,
               Open(payer, payee, b, d, k, x)
        PROVE  Solvency'
    <2>1. d \in Int /\ next_id \in Ids /\ next_id \notin DOMAIN channels
      BY <1>1, ContractAssumption DEF Open, TypeOK, Ids
    <2>2. DOMAIN channels' = DOMAIN channels \cup {next_id}
      BY <1>1 DEF Open
    <2>3. \A i \in Ids \ {next_id} : \A a \in Assets : Locked(channels', i, a) = Locked(channels, i, a)
      BY <1>1, <2>2 DEF Open, Locked
    <2>4. \A a \in Assets : Locked(channels, next_id, a) = 0
      BY <2>1 DEF Locked
    <2>5. /\ channels'[next_id].open /\ channels'[next_id].asset = b
          /\ channels'[next_id].deposit = d /\ channels'[next_id].claimed = 0
      BY <1>1, <2>2 DEF Open
    <2>6. \A a \in Assets \ {b} : Locked(channels', next_id, a) = 0
      BY <2>5 DEF Locked
    <2>7. Locked(channels', next_id, b) = d
      BY <2>1, <2>2, <2>5 DEF Locked
    <2>8. /\ balance'[b][Self] = balance[b][Self] + d
          /\ \A a \in Assets \ {b} : balance'[a] = balance[a]
      <3>1. balance' = Transferred(b, payer, Self, d) /\ payer \in Holders /\ payer # Self
        BY <1>0, <1>1 DEF Open
      <3>2. balance'[b][Self] = balance[b][Self] + d
        BY <1>0, <1>9, <2>1, <3>1, TransferEffect
      <3>3. \A a \in Assets \ {b} : balance'[a] = balance[a]
        BY <1>0, <1>9, <2>1, <3>1, TransferEffect
      <3> QED BY <3>2, <3>3
    <2> QED BY <2>1, <2>3, <2>4, <2>6, <2>7, <2>8, SolvencyKept
  <1>2. ASSUME NEW id \in Ids, NEW n \in Amounts, TopUp(id, n)
        PROVE  Solvency'
    <2> DEFINE ch == channels[id]
               b == ch.asset
    <2>1. n \in Int /\ Found(id) /\ ch.open /\ id \in DOMAIN channels
      BY <1>2, ContractAssumption DEF TopUp, OpenChannel, Found
    <2>2. ch \in Channel /\ b \in Assets /\ ch.payer \in Holders \ {Self}
      BY <2>1, StoredChannel
    <2>3. channels'[id] = [ch EXCEPT !.deposit = ch.deposit + n] /\ DOMAIN channels' = DOMAIN channels
      BY <1>2, <2>1 DEF TopUp
    <2>4. /\ channels'[id].open /\ channels'[id].asset = b
          /\ channels'[id].deposit = ch.deposit + n /\ channels'[id].claimed = ch.claimed
      BY <2>1, <2>2, <2>3 DEF Channel
    <2>5. \A i \in Ids \ {id} : \A a \in Assets : Locked(channels', i, a) = Locked(channels, i, a)
      BY <1>2 DEF TopUp, Locked
    <2>6. \A a \in Assets \ {b} : Locked(channels', id, a) = Locked(channels, id, a)
      BY <2>4 DEF Locked
    <2>7. Locked(channels', id, b) = Locked(channels, id, b) + n
      <3>1. Locked(channels, id, b) = ch.deposit - ch.claimed
        BY <2>1 DEF Locked
      <3>2. Locked(channels', id, b) = (ch.deposit + n) - ch.claimed
        BY <2>1, <2>3, <2>4 DEF Locked
      <3>3. ch.deposit \in Int /\ ch.claimed \in Int
        BY <2>1, StoredChannel
      <3> QED BY <2>1, <3>1, <3>2, <3>3
    <2>8. /\ balance'[b][Self] = balance[b][Self] + n
          /\ \A a \in Assets \ {b} : balance'[a] = balance[a]
      <3>1. balance' = Transferred(b, ch.payer, Self, n)
        BY <1>2 DEF TopUp
      <3> HIDE DEF b, ch
      <3>2. balance'[b][Self] = balance[b][Self] + n
        BY <1>0, <1>9, <2>1, <2>2, <3>1, TransferEffect
      <3>3. \A a \in Assets \ {b} : balance'[a] = balance[a]
        BY <1>0, <1>9, <2>1, <2>2, <3>1, TransferEffect
      <3> QED BY <3>2, <3>3
    <2> HIDE DEF b, ch
    <2> QED BY <2>1, <2>2, <2>5, <2>6, <2>7, <2>8, SolvencyKept
  <1>3. ASSUME NEW id \in Ids, NEW c \in Cumulatives, NEW s \in signed, Claim(id, c, s)
        PROVE  Solvency'
    <2> DEFINE ch == channels[id]
               b == ch.asset
               n == c - ch.claimed
    <2>1. c \in Int /\ Found(id) /\ ch.open /\ id \in DOMAIN channels
      BY <1>3, ContractAssumption DEF Claim, ClaimAccepted, OpenChannel, Found
    <2>2. /\ ch \in Channel /\ b \in Assets /\ ch.payee \in Holders \ {Self}
          /\ ch.deposit \in Int /\ ch.claimed \in Int /\ n \in Int /\ 0 - n \in Int
      BY <2>1, StoredChannel
    <2>3. channels'[id] = [ch EXCEPT !.claimed = c] /\ DOMAIN channels' = DOMAIN channels
      BY <1>3, <2>1 DEF Claim
    <2>4. /\ channels'[id].open /\ channels'[id].asset = b
          /\ channels'[id].deposit = ch.deposit /\ channels'[id].claimed = c
      BY <2>1, <2>2, <2>3 DEF Channel
    <2>5. \A i \in Ids \ {id} : \A a \in Assets : Locked(channels', i, a) = Locked(channels, i, a)
      BY <1>3 DEF Claim, Locked
    <2>6. \A a \in Assets \ {b} : Locked(channels', id, a) = Locked(channels, id, a)
      BY <2>4 DEF Locked
    <2>7. Locked(channels', id, b) = Locked(channels, id, b) + (0 - n)
      <3>1. Locked(channels, id, b) = ch.deposit - ch.claimed
        BY <2>1 DEF Locked
      <3>2. Locked(channels', id, b) = ch.deposit - c
        BY <2>1, <2>3, <2>4 DEF Locked
      <3> QED BY <2>1, <2>2, <3>1, <3>2
    <2>8. /\ balance'[b][Self] = balance[b][Self] + (0 - n)
          /\ \A a \in Assets \ {b} : balance'[a] = balance[a]
      <3>1. balance' = Transferred(b, Self, ch.payee, n)
        BY <1>3 DEF Claim
      <3>2. balance[b][Self] \in Int
        BY <1>0, <2>2 DEF TypeOK
      <3> HIDE DEF b, ch, n
      <3>3. balance'[b][Self] = balance[b][Self] - n
        BY <1>0, <1>9, <2>2, <3>1, TransferEffect
      <3>4. \A a \in Assets \ {b} : balance'[a] = balance[a]
        BY <1>0, <1>9, <2>2, <3>1, TransferEffect
      <3> QED BY <2>2, <3>2, <3>3, <3>4
    <2> HIDE DEF b, ch, n
    <2> QED BY <2>1, <2>2, <2>5, <2>6, <2>7, <2>8, SolvencyKept
  <1>4. ASSUME NEW id \in Ids, NEW p \in Parties, Close(id, p)
        PROVE  Solvency'
    <2> DEFINE ch == channels[id]
               b == ch.asset
               n == ch.deposit - ch.claimed
    <2>1. Found(id) /\ ch.open /\ id \in DOMAIN channels
      BY <1>4 DEF Close, OpenChannel, Found
    <2>2. /\ ch \in Channel /\ b \in Assets /\ ch.payer \in Holders \ {Self}
          /\ n \in Int /\ 0 - n \in Int
      BY <2>1, StoredChannel
    <2>3. channels'[id] = [ch EXCEPT !.open = FALSE] /\ DOMAIN channels' = DOMAIN channels
      BY <1>4, <2>1 DEF Close
    <2>4. ~channels'[id].open
      BY <2>2, <2>3 DEF Channel
    <2>5. \A i \in Ids \ {id} : \A a \in Assets : Locked(channels', i, a) = Locked(channels, i, a)
      BY <1>4 DEF Close, Locked
    <2>6. \A a \in Assets \ {b} : Locked(channels', id, a) = Locked(channels, id, a)
      BY <2>4 DEF Locked
    <2>7. Locked(channels', id, b) = Locked(channels, id, b) + (0 - n)
      <3>1. Locked(channels, id, b) = n
        BY <2>1 DEF Locked
      <3>2. Locked(channels', id, b) = 0
        BY <2>4 DEF Locked
      <3> QED BY <2>2, <3>1, <3>2
    <2>8. /\ balance'[b][Self] = balance[b][Self] + (0 - n)
          /\ \A a \in Assets \ {b} : balance'[a] = balance[a]
      <3>1. balance' = IF n > 0 THEN Transferred(b, Self, ch.payer, n) ELSE balance
        BY <1>4 DEF Close, Refund
      <3>2. balance[b][Self] \in Int
        BY <1>0, <2>2 DEF TypeOK
      <3>3. n >= 0
        <4>1. ch.claimed \in 0..ch.deposit /\ ch.deposit \in Int
          BY <2>1, StoredChannel DEF ClaimsAreBacked
        <4> QED BY <4>1
      <3> HIDE DEF b, ch, n
      <3>4. Transferred(b, Self, ch.payer, n)[b][Self] = balance[b][Self] - n
        BY <1>0, <1>9, <2>2, TransferEffect
      <3>5. \A a \in Assets \ {b} : Transferred(b, Self, ch.payer, n)[a] = balance[a]
        BY <1>0, <1>9, <2>2, TransferEffect
      <3> QED BY <2>2, <3>1, <3>2, <3>3, <3>4, <3>5
    <2> HIDE DEF b, ch, n
    <2> QED BY <2>1, <2>2, <2>5, <2>6, <2>7, <2>8, SolvencyKept
  <1>5. ASSUME UNCHANGED <<channels, balance>>
        PROVE  Solvency'
    BY <1>5 DEF Solvency, Locked
  <1>6. ASSUME NEW k \in Keys, NEW d \in Deployments, NEW id \in Ids,
               NEW c \in Cumulatives, Sign(k, d, id, c)
        PROVE  Solvency'
    BY <1>5, <1>6 DEF Sign
  <1>7. CASE LedgerCloses
    BY <1>5, <1>7 DEF LedgerCloses
  <1>8. CASE UNCHANGED contractVars
    BY <1>5, <1>8 DEF contractVars
  <1> QED BY <1>1, <1>2, <1>3, <1>4, <1>6, <1>7, <1>8 DEF Next

LEMMA InitSolvency == Init => Solvency
  <1> SUFFICES ASSUME Init, NEW a \in Assets
               PROVE  balance[a][Self] = SumFunction(Owed(channels, a))
    BY DEF Solvency, Owed
  <1> DEFINE f == Owed(channels, a)
  <1>1. balance[a][Self] = 0
    BY ContractAssumption DEF Init, Deployed, Holders
  <1>2. DOMAIN f = Ids /\ \A id \in Ids : f[id] = 0
    BY DEF Init, Deployed, Owed, Locked
  <1>3. IsFiniteSet(Ids)
    BY ContractAssumption, FS_Interval DEF Ids
  <1> HIDE DEF f
  <1>4. SumFunctionOnSet(f, Ids) = 0
    BY <1>2, <1>3, SumOfZeros
  <1> QED BY <1>1, <1>2, <1>4 DEF SumFunction, f

(* The contract always holds exactly what it owes to its open channels.
   ClaimsAreBacked is needed where a channel closes: the refund is then not
   negative, and a channel that was claimed in full moves nothing.          *)
THEOREM AlwaysSolvent == Spec => []Solvency
  <1>1. TypeOK /\ TypeOK' /\ ClaimsAreBacked /\ Solvency /\ [Next]_contractVars => Solvency'
    BY SolvencyStep
  <1> QED BY <1>1, InitSolvency, TypeCorrect, ClaimsBacked, PTL DEF Spec
-----------------------------------------------------------------------------
(* The refinement: a new contract is an empty escrow.                       *)
LEMMA InitMaps == Init => Escrow!EscrowInit
  <1> SUFFICES ASSUME Init PROVE Escrow!EscrowInit
    OBVIOUS
  <1>1. \A id \in Ids : ~Found(id)
    BY DEF Init, Deployed, Found
  <1> QED BY <1>1 DEF Escrow!EscrowInit, ClaimedOf, Found, PhaseOf, EscrowOf, PaidOf, RefundedOf, AuthorisedOf

(* What an unused, an open and a closed channel is in the escrow.           *)
MapOf(id) ==
    /\ ~Found(id) => /\ PhaseOf[id] = "none" /\ EscrowOf[id] = 0
                     /\ PaidOf[id] = 0 /\ RefundedOf[id] = 0
    /\ Found(id) /\ channels[id].open =>
          /\ PhaseOf[id] = "open" /\ EscrowOf[id] = channels[id].deposit - channels[id].claimed
          /\ PaidOf[id] = channels[id].claimed /\ RefundedOf[id] = 0
    /\ Found(id) /\ ~channels[id].open =>
          /\ PhaseOf[id] = "settled" /\ EscrowOf[id] = 0 /\ PaidOf[id] = channels[id].claimed
          /\ RefundedOf[id] = channels[id].deposit - channels[id].claimed

LEMMA Maps == ASSUME NEW id \in Ids PROVE MapOf(id) /\ MapOf(id)'
  BY DEF MapOf, PhaseOf, EscrowOf, PaidOf, RefundedOf, Remainder, ClaimedOf, Found

(* A function that keeps its values outside x is changed at x only.         *)
LEMMA ChangesAt ==
    ASSUME NEW S, NEW f, NEW g, NEW x \in S, f = [i \in S |-> f[i]], g = [i \in S |-> g[i]],
           \A i \in S \ {x} : g[i] = f[i]
    PROVE  g = [f EXCEPT ![x] = g[x]]
  OBVIOUS

LEMMA MapsAreFunctions ==
    LET Are == /\ PhaseOf = [i \in Ids |-> PhaseOf[i]] /\ EscrowOf = [i \in Ids |-> EscrowOf[i]]
               /\ PaidOf = [i \in Ids |-> PaidOf[i]] /\ RefundedOf = [i \in Ids |-> RefundedOf[i]]
    IN  Are /\ Are'
  BY DEF PhaseOf, EscrowOf, PaidOf, RefundedOf

(* No record but that of channel id changes.                                *)
Untouched(id) ==
    \A i \in Ids \ {id} : /\ i \in DOMAIN channels' <=> i \in DOMAIN channels
                          /\ i \in DOMAIN channels => channels'[i] = channels[i]

(* A step that changes one record maps to one that changes one account.     *)
LEMMA MapsChangeAt ==
    ASSUME NEW id \in Ids,
           Untouched(id)
    PROVE  /\ PhaseOf' = [PhaseOf EXCEPT ![id] = PhaseOf'[id]]
           /\ EscrowOf' = [EscrowOf EXCEPT ![id] = EscrowOf'[id]]
           /\ PaidOf' = [PaidOf EXCEPT ![id] = PaidOf'[id]]
           /\ RefundedOf' = [RefundedOf EXCEPT ![id] = RefundedOf'[id]]
  <1>1. ASSUME NEW i \in Ids \ {id}
        PROVE  /\ PhaseOf'[i] = PhaseOf[i] /\ EscrowOf'[i] = EscrowOf[i]
               /\ PaidOf'[i] = PaidOf[i] /\ RefundedOf'[i] = RefundedOf[i]
    <2>1. (Found(i) => channels'[i] = channels[i]) /\ (Found(i)' <=> Found(i))
      BY DEF Untouched, Found
    <2>2. MapOf(i) /\ MapOf(i)'
      BY Maps
    <2>3. CASE ~Found(i)
      BY <2>1, <2>2, <2>3 DEF MapOf
    <2>4. CASE Found(i) /\ channels[i].open
      BY <2>1, <2>2, <2>4 DEF MapOf
    <2>5. CASE Found(i) /\ ~channels[i].open
      BY <2>1, <2>2, <2>5 DEF MapOf
    <2> QED BY <2>3, <2>4, <2>5
  <1>2. PhaseOf' = [PhaseOf EXCEPT ![id] = PhaseOf'[id]]
    BY <1>1, ChangesAt, MapsAreFunctions
  <1>3. EscrowOf' = [EscrowOf EXCEPT ![id] = EscrowOf'[id]]
    BY <1>1, ChangesAt, MapsAreFunctions
  <1>4. PaidOf' = [PaidOf EXCEPT ![id] = PaidOf'[id]]
    BY <1>1, ChangesAt, MapsAreFunctions
  <1>5. RefundedOf' = [RefundedOf EXCEPT ![id] = RefundedOf'[id]]
    BY <1>1, ChangesAt, MapsAreFunctions
  <1> QED BY <1>2, <1>3, <1>4, <1>5

(* An account that is set to what it has is not changed.                    *)
LEMMA MapStays ==
    ASSUME NEW f, NEW g, NEW S, NEW x \in S, f = [i \in S |-> f[i]],
           g = [f EXCEPT ![x] = g[x]], g[x] = f[x]
    PROVE  g = f
  OBVIOUS

LEMMA GrowMaps ==
    ASSUME TypeOK, TypeOK', signed \subseteq signed',
           \A i \in DOMAIN channels : i \in DOMAIN channels' /\ channels'[i].voucher_key = channels[i].voucher_key
    PROVE  Escrow!AuthorisationsOnlyGrow
  BY DEF Escrow!AuthorisationsOnlyGrow, AuthorisedOf, Authorised, Found

(* A first deposit or a top-up of channel id funds its account.             *)
LEMMA FundMaps ==
    ASSUME NEW id \in Ids, Untouched(id), Found(id)', channels'[id].open,
           \/ /\ ~Found(id) /\ channels'[id].claimed = 0
              /\ channels'[id].deposit \in Int /\ channels'[id].deposit > 0
           \/ /\ OpenChannel(id) /\ channels'[id].claimed = channels[id].claimed
              /\ channels[id].claimed \in Int
              /\ channels[id].deposit \in Int /\ channels'[id].deposit \in Int
              /\ channels'[id].deposit > channels[id].deposit
    PROVE  Escrow!Fund(id)
  <1>1. MapOf(id) /\ MapOf(id)'
    BY Maps
  <1>2. /\ PhaseOf' = [PhaseOf EXCEPT ![id] = PhaseOf'[id]]
        /\ EscrowOf' = [EscrowOf EXCEPT ![id] = EscrowOf'[id]]
        /\ PaidOf' = [PaidOf EXCEPT ![id] = PaidOf'[id]]
        /\ RefundedOf' = [RefundedOf EXCEPT ![id] = RefundedOf'[id]]
    BY MapsChangeAt
  <1>3. PhaseOf[id] \in {"none", "open"} /\ PhaseOf'[id] = "open"
    BY <1>1 DEF MapOf, OpenChannel
  <1>4. EscrowOf'[id] > EscrowOf[id]
    BY <1>1 DEF MapOf, OpenChannel
  <1>5. PaidOf' = PaidOf
    <2>1. PaidOf'[id] = PaidOf[id]
      BY <1>1 DEF MapOf, OpenChannel
    <2> QED BY <1>2, <2>1, MapStays, MapsAreFunctions
  <1>6. RefundedOf' = RefundedOf
    <2>1. RefundedOf'[id] = RefundedOf[id]
      BY <1>1 DEF MapOf, OpenChannel
    <2> QED BY <1>2, <2>1, MapStays, MapsAreFunctions
  <1> QED BY <1>2, <1>3, <1>4, <1>5, <1>6 DEF Escrow!Fund

(* A claim of an authorised total pays it.                                  *)
LEMMA PayMaps ==
    ASSUME NEW id \in Ids, Untouched(id), OpenChannel(id), Found(id)', channels'[id].open,
           channels[id].deposit \in Int, channels[id].claimed \in Int,
           NEW c \in Int, c > channels[id].claimed, c <= channels[id].deposit,
           channels'[id].claimed = c, channels'[id].deposit = channels[id].deposit,
           c \in Authorised(id)
    PROVE  Escrow!Pay(id)
  <1>1. MapOf(id) /\ MapOf(id)'
    BY Maps
  <1>2. /\ PhaseOf' = [PhaseOf EXCEPT ![id] = PhaseOf'[id]]
        /\ EscrowOf' = [EscrowOf EXCEPT ![id] = EscrowOf'[id]]
        /\ PaidOf' = [PaidOf EXCEPT ![id] = PaidOf'[id]]
        /\ RefundedOf' = [RefundedOf EXCEPT ![id] = RefundedOf'[id]]
    BY MapsChangeAt
  <1>3. PhaseOf[id] = "open" /\ PhaseOf'[id] = "open"
    BY <1>1 DEF MapOf, OpenChannel
  <1>4. /\ PaidOf[id] = channels[id].claimed /\ PaidOf'[id] = c
        /\ EscrowOf[id] = channels[id].deposit - channels[id].claimed
        /\ EscrowOf'[id] = channels[id].deposit - c
    BY <1>1 DEF MapOf, OpenChannel
  <1>5. EscrowOf' = [EscrowOf EXCEPT ![id] = @ - (PaidOf'[id] - PaidOf[id])]
    <2>1. EscrowOf'[id] = EscrowOf[id] - (PaidOf'[id] - PaidOf[id])
      BY <1>4
    <2> QED BY <1>2, <2>1
  <1>6. PaidOf'[id] \in AuthorisedOf[id]
    BY <1>4 DEF AuthorisedOf, OpenChannel
  <1>7. PhaseOf' = PhaseOf
    BY <1>2, <1>3, MapStays, MapsAreFunctions
  <1>8. RefundedOf' = RefundedOf
    <2>1. RefundedOf'[id] = RefundedOf[id]
      BY <1>1 DEF MapOf, OpenChannel
    <2> QED BY <1>2, <2>1, MapStays, MapsAreFunctions
  <1>9. PaidOf'[id] > PaidOf[id] /\ PaidOf'[id] - PaidOf[id] <= EscrowOf[id]
    BY <1>4
  <1> QED BY <1>2, <1>3, <1>5, <1>6, <1>7, <1>8, <1>9 DEF Escrow!Pay

(* A close settles the account.                                             *)
LEMMA SettleMaps ==
    ASSUME NEW id \in Ids, Untouched(id), OpenChannel(id), Found(id)', ~channels'[id].open,
           channels'[id].claimed = channels[id].claimed,
           channels'[id].deposit = channels[id].deposit
    PROVE  Escrow!Settle(id)
  <1>1. MapOf(id) /\ MapOf(id)'
    BY Maps
  <1>2. /\ PhaseOf' = [PhaseOf EXCEPT ![id] = PhaseOf'[id]]
        /\ EscrowOf' = [EscrowOf EXCEPT ![id] = EscrowOf'[id]]
        /\ PaidOf' = [PaidOf EXCEPT ![id] = PaidOf'[id]]
        /\ RefundedOf' = [RefundedOf EXCEPT ![id] = RefundedOf'[id]]
    BY MapsChangeAt
  <1>3. /\ PhaseOf[id] = "open" /\ PhaseOf'[id] = "settled"
        /\ RefundedOf'[id] = EscrowOf[id] /\ EscrowOf'[id] = 0 /\ PaidOf'[id] = PaidOf[id]
    BY <1>1 DEF MapOf, OpenChannel
  <1>4. PaidOf' = PaidOf
    BY <1>2, <1>3, MapStays, MapsAreFunctions
  <1> QED BY <1>2, <1>3, <1>4 DEF Escrow!Settle

(* A signature or a new ledger moves no money.                              *)
LEMMA AuthoriseMaps ==
    ASSUME channels' = channels
    PROVE  Escrow!Authorise
  BY DEF Escrow!Authorise, PhaseOf, EscrowOf, PaidOf, RefundedOf, Found, Remainder, ClaimedOf

(* Every entry point is one step of the escrow.                             *)
LEMMA EscrowStep ==
    ASSUME TypeOK, TypeOK', ClaimsAreBacked, [Next]_contractVars
    PROVE  Escrow!EscrowNext
  <1>1. ASSUME signed \subseteq signed'
        PROVE  Escrow!AuthorisationsOnlyGrow
    <2>1. \A i \in DOMAIN channels : i \in DOMAIN channels' /\ channels'[i].voucher_key = channels[i].voucher_key
      BY StepIsFinal DEF Final, Terms
    <2> QED BY <1>1, <2>1, GrowMaps
  <1>2. ASSUME NEW payer \in Parties, NEW payee \in Parties, NEW a \in Assets,
               NEW d \in Amounts, NEW k \in Keys, NEW x \in Expiries,
               Open(payer, payee, a, d, k, x)
        PROVE  Escrow!EscrowNext
    <2>1. PICK id \in Ids : id = next_id
      BY <1>2 DEF Open, TypeOK, Ids
    <2>2. ~Found(id) /\ d \in Int /\ d > 0
      BY <1>2, <2>1, ContractAssumption DEF Open, TypeOK, Found
    <2>3. DOMAIN channels' = DOMAIN channels \cup {id}
      BY <1>2, <2>1 DEF Open
    <2>4. /\ Found(id)' /\ channels'[id].open
          /\ channels'[id].claimed = 0 /\ channels'[id].deposit = d
      BY <1>2, <2>1, <2>3 DEF Open, Found
    <2>5. Untouched(id)
      <3> SUFFICES ASSUME NEW i \in Ids \ {id}
                   PROVE  /\ i \in DOMAIN channels' <=> i \in DOMAIN channels
                          /\ i \in DOMAIN channels => channels'[i] = channels[i]
        BY DEF Untouched
      <3> QED BY <1>2, <2>1, <2>3 DEF Open
    <2>6. Escrow!Fund(id)
      BY <2>2, <2>4, <2>5, FundMaps
    <2> QED BY <1>1, <1>2, <2>6 DEF Escrow!EscrowNext, Open
  <1>3. ASSUME NEW id \in Ids, NEW n \in Amounts, TopUp(id, n)
        PROVE  Escrow!EscrowNext
    <2>1. OpenChannel(id) /\ Found(id) /\ n \in Int /\ n > 0
      BY <1>3, ContractAssumption DEF TopUp, OpenChannel
    <2>2. /\ channels[id] \in Channel
          /\ channels[id].deposit \in Int /\ channels[id].claimed \in Int
      BY <2>1, StoredChannel
    <2>3. DOMAIN channels' = DOMAIN channels /\ Untouched(id)
      BY <1>3 DEF TopUp, Untouched
    <2>4. channels'[id] = [channels[id] EXCEPT !.deposit = channels[id].deposit + n]
      BY <1>3, <2>1 DEF TopUp, Found
    <2>5. /\ channels'[id].open /\ channels'[id].claimed = channels[id].claimed
          /\ channels'[id].deposit = channels[id].deposit + n
      BY <2>1, <2>2, <2>4 DEF Channel, OpenChannel
    <2>6. Found(id)'
      BY <2>1, <2>3 DEF Found
    <2>7. channels'[id].deposit \in Int /\ channels'[id].deposit > channels[id].deposit
      BY <2>1, <2>2, <2>5
    <2>8. Escrow!Fund(id)
      BY <2>1, <2>2, <2>3, <2>5, <2>6, <2>7, FundMaps
    <2> QED BY <1>1, <1>3, <2>8 DEF Escrow!EscrowNext, TopUp
  <1>4. ASSUME NEW id \in Ids, NEW c \in Cumulatives, NEW s \in signed, Claim(id, c, s)
        PROVE  Escrow!EscrowNext
    <2>1. OpenChannel(id) /\ Found(id) /\ c \in Int
      BY <1>4, ContractAssumption DEF Claim, ClaimAccepted, OpenChannel
    <2>2. /\ channels[id] \in Channel
          /\ channels[id].deposit \in Int /\ channels[id].claimed \in Int
      BY <2>1, StoredChannel
    <2>3. DOMAIN channels' = DOMAIN channels /\ Untouched(id)
      BY <1>4 DEF Claim, Untouched
    <2>4. channels'[id] = [channels[id] EXCEPT !.claimed = c]
      BY <1>4, <2>1 DEF Claim, Found
    <2>5. /\ channels'[id].open /\ channels'[id].claimed = c
          /\ channels'[id].deposit = channels[id].deposit
      BY <2>1, <2>2, <2>4 DEF Channel, OpenChannel
    <2>6. Found(id)'
      BY <2>1, <2>3 DEF Found
    <2>7. c > channels[id].claimed /\ c <= channels[id].deposit
      BY <1>4 DEF Claim, ClaimAccepted
    <2>8. c \in Authorised(id)
      <3>1. s.key = channels[id].voucher_key /\ s.meant = <<Here, id, c>>
        BY <1>4, HashIsMeaning DEF Claim, ClaimAccepted
      <3> QED BY <3>1 DEF Authorised
    <2>9. Escrow!Pay(id)
      BY <2>1, <2>2, <2>3, <2>5, <2>6, <2>7, <2>8, PayMaps
    <2> QED BY <1>1, <1>4, <2>9 DEF Escrow!EscrowNext, Claim
  <1>5. ASSUME NEW id \in Ids, NEW p \in Parties, Close(id, p)
        PROVE  Escrow!EscrowNext
    <2>1. OpenChannel(id) /\ Found(id)
      BY <1>5 DEF Close, OpenChannel
    <2>2. channels[id] \in Channel
      BY <2>1, StoredChannel
    <2>3. DOMAIN channels' = DOMAIN channels /\ Untouched(id)
      BY <1>5 DEF Close, Untouched
    <2>4. channels'[id] = [channels[id] EXCEPT !.open = FALSE]
      BY <1>5, <2>1 DEF Close, Found
    <2>5. /\ ~channels'[id].open /\ channels'[id].claimed = channels[id].claimed
          /\ channels'[id].deposit = channels[id].deposit
      BY <2>2, <2>4 DEF Channel
    <2>6. Found(id)'
      BY <2>1, <2>3 DEF Found
    <2>7. Escrow!Settle(id)
      BY <2>1, <2>3, <2>5, <2>6, SettleMaps
    <2> QED BY <1>1, <1>5, <2>7 DEF Escrow!EscrowNext, Close
  <1>6. ASSUME NEW k \in Keys, NEW d \in Deployments, NEW id \in Ids,
               NEW c \in Cumulatives, Sign(k, d, id, c)
        PROVE  Escrow!EscrowNext
    BY <1>1, <1>6, AuthoriseMaps DEF Sign, Escrow!EscrowNext
  <1>7. CASE LedgerCloses
    BY <1>1, <1>7, AuthoriseMaps DEF LedgerCloses, Escrow!EscrowNext
  <1>8. CASE UNCHANGED contractVars
    BY <1>1, <1>8, AuthoriseMaps DEF contractVars, Escrow!EscrowNext
  <1> QED BY <1>2, <1>3, <1>4, <1>5, <1>6, <1>7, <1>8 DEF Next

(* The contract is an escrow: every behaviour of open, top_up, claim and
   close is one of EscrowChannel, where money leaves a channel only to its
   payee, up to a total authorised for this very channel, or once and
   entirely back to its payer.                                              *)
THEOREM IsAnEscrow == Spec => ImplementsEscrow
  <1>1. TypeOK /\ TypeOK' /\ ClaimsAreBacked /\ [Next]_contractVars
          => [Escrow!EscrowNext]_Escrow!escrowVars
    BY EscrowStep
  <1> QED BY <1>1, InitMaps, TypeCorrect, ClaimsBacked, PTL DEF Spec, ImplementsEscrow, Escrow!EscrowSpec
-----------------------------------------------------------------------------
(* What EventsTellTheState says of one channel.                             *)
Told(id) ==
    CopyOf(channels', id) # CopyOf(channels, id) =>
        LET now == CopyOf(channels', id) IN
        /\ event'.id = id
        /\ event'.ledger = ledger
        /\ now = Applied(CopyOf(channels, id), event')
        /\ event'.total = IF event'.type \in {"opened", "topped_up"}
                          THEN now.deposit ELSE now.claimed

(* No reader of events can tell a step that leaves a channel's record alone. *)
LEMMA UntouchedIsTold ==
    ASSUME NEW id \in Ids, Untouched(id), NEW i \in Ids \ {id}
    PROVE  Told(i)
  BY DEF Told, Untouched, CopyOf

LEMMA UnchangedIsTold ==
    ASSUME channels' = channels, NEW i \in Ids
    PROVE  Told(i)
  BY DEF Told, CopyOf

LEMMA OpenIsTold ==
    ASSUME TypeOK, NEW payer \in Parties, NEW payee \in Parties, NEW a \in Assets,
           NEW d \in Amounts, NEW k \in Keys, NEW x \in Expiries,
           Open(payer, payee, a, d, k, x), NEW i \in Ids
    PROVE  Told(i)
  <1>1. PICK id \in Ids : id = next_id
    BY DEF Open, TypeOK, Ids
  <1>2. DOMAIN channels' = DOMAIN channels \cup {id} /\ id \notin DOMAIN channels
    BY <1>1 DEF Open, TypeOK
  <1>3. CASE i # id
    <2>1. CopyOf(channels', i) = CopyOf(channels, i)
      BY <1>1, <1>2, <1>3 DEF Open, CopyOf
    <2> QED BY <2>1 DEF Told
  <1>4. CASE i = id
    <2>1. /\ channels'[id].deposit = d /\ channels'[id].claimed = 0 /\ channels'[id].open = TRUE
      BY <1>1, <1>2 DEF Open
    <2>2. CopyOf(channels', id) = [deposit |-> d, claimed |-> 0, open |-> TRUE]
      BY <1>2, <2>1 DEF CopyOf
    <2>3. event' = [type |-> "opened", id |-> id, ledger |-> ledger, amount |-> d, total |-> d]
      BY <1>1 DEF Open, Publish
    <2>4. Applied(CopyOf(channels, id), event') = [deposit |-> d, claimed |-> 0, open |-> TRUE]
      BY <2>3 DEF Applied
    <2> QED BY <1>4, <2>2, <2>3, <2>4 DEF Told
  <1> QED BY <1>3, <1>4

LEMMA TopUpIsTold ==
    ASSUME TypeOK, NEW id \in Ids, NEW n \in Amounts, TopUp(id, n), NEW i \in Ids
    PROVE  Told(i)
  <1>1. OpenChannel(id) /\ Found(id) /\ DOMAIN channels' = DOMAIN channels /\ Untouched(id)
    BY DEF TopUp, OpenChannel, Untouched
  <1>2. CASE i # id
    BY <1>1, <1>2, UntouchedIsTold
  <1>3. CASE i = id
    <2> DEFINE ch == channels[id]
    <2>1. ch \in Channel
      BY <1>1, StoredChannel
    <2>2. channels'[id] = [ch EXCEPT !.deposit = ch.deposit + n]
      BY <1>1 DEF TopUp, Found
    <2>3. /\ channels'[id].deposit = ch.deposit + n /\ channels'[id].claimed = ch.claimed
          /\ channels'[id].open = ch.open
      BY <2>1, <2>2 DEF Channel
    <2>4. event' = [type |-> "topped_up", id |-> id, ledger |-> ledger, amount |-> n,
                    total |-> ch.deposit + n]
      BY DEF TopUp, Publish
    <2>5. CopyOf(channels, id) = [deposit |-> ch.deposit, claimed |-> ch.claimed, open |-> ch.open]
      BY <1>1 DEF CopyOf, Found
    <2>6. CopyOf(channels', id)
            = [deposit |-> ch.deposit + n, claimed |-> ch.claimed, open |-> ch.open]
      BY <1>1, <2>3 DEF CopyOf, Found
    <2> HIDE DEF ch
    <2>7. Applied(CopyOf(channels, id), event') = [CopyOf(channels, id) EXCEPT !.deposit = ch.deposit + n]
      BY <2>4, <2>5 DEF Applied
    <2>8. Applied(CopyOf(channels, id), event') = CopyOf(channels', id)
      BY <2>5, <2>6, <2>7
    <2> QED BY <1>3, <2>4, <2>6, <2>8 DEF Told
  <1> QED BY <1>2, <1>3

LEMMA ClaimIsTold ==
    ASSUME TypeOK, NEW id \in Ids, NEW c \in Cumulatives, NEW s \in signed,
           Claim(id, c, s), NEW i \in Ids
    PROVE  Told(i)
  <1>1. OpenChannel(id) /\ Found(id) /\ DOMAIN channels' = DOMAIN channels /\ Untouched(id)
    BY DEF Claim, ClaimAccepted, OpenChannel, Untouched
  <1>2. CASE i # id
    BY <1>1, <1>2, UntouchedIsTold
  <1>3. CASE i = id
    <2> DEFINE ch == channels[id]
    <2>1. ch \in Channel /\ ch.claimed \in Int /\ c \in Int
      BY <1>1, StoredChannel, ContractAssumption
    <2>2. channels'[id] = [ch EXCEPT !.claimed = c]
      BY <1>1 DEF Claim, Found
    <2>3. /\ channels'[id].deposit = ch.deposit /\ channels'[id].claimed = c
          /\ channels'[id].open = ch.open
      BY <2>1, <2>2 DEF Channel
    <2>4. event' = [type |-> "claimed", id |-> id, ledger |-> ledger, amount |-> c - ch.claimed,
                    total |-> c]
      BY DEF Claim, Publish
    <2>5. CopyOf(channels, id) = [deposit |-> ch.deposit, claimed |-> ch.claimed, open |-> ch.open]
      BY <1>1 DEF CopyOf, Found
    <2>6. CopyOf(channels', id) = [deposit |-> ch.deposit, claimed |-> c, open |-> ch.open]
      BY <1>1, <2>3 DEF CopyOf, Found
    <2> HIDE DEF ch
    <2>7. ch.claimed + (c - ch.claimed) = c
      BY <2>1
    <2>8. Applied(CopyOf(channels, id), event')
            = [CopyOf(channels, id) EXCEPT !.claimed = ch.claimed + (c - ch.claimed)]
      BY <2>4, <2>5 DEF Applied
    <2>9. Applied(CopyOf(channels, id), event') = CopyOf(channels', id)
      BY <2>5, <2>6, <2>7, <2>8
    <2> QED BY <1>3, <2>4, <2>6, <2>9 DEF Told
  <1> QED BY <1>2, <1>3

LEMMA OnlyOpenChanges ==
    ASSUME NEW d, NEW c, NEW o, NEW e, NEW copy, copy = [deposit |-> d, claimed |-> c, open |-> o]
    PROVE  [copy EXCEPT !.open = e] = [deposit |-> d, claimed |-> c, open |-> e]
  OBVIOUS

LEMMA CloseIsTold ==
    ASSUME TypeOK, NEW id \in Ids, NEW p \in Parties, Close(id, p), NEW i \in Ids
    PROVE  Told(i)
  <1>1. OpenChannel(id) /\ Found(id) /\ DOMAIN channels' = DOMAIN channels /\ Untouched(id)
    BY DEF Close, OpenChannel, Untouched
  <1>2. CASE i # id
    BY <1>1, <1>2, UntouchedIsTold
  <1>3. CASE i = id
    <2> DEFINE ch == channels[id]
    <2>1. ch \in Channel
      BY <1>1, StoredChannel
    <2>2. channels'[id] = [ch EXCEPT !.open = FALSE]
      BY <1>1 DEF Close, Found
    <2>3. /\ channels'[id].deposit = ch.deposit /\ channels'[id].claimed = ch.claimed
          /\ channels'[id].open = FALSE
      BY <2>1, <2>2 DEF Channel
    <2>4. event' = [type |-> "closed", id |-> id, ledger |-> ledger, amount |-> Refund(ch),
                    total |-> ch.claimed]
      BY DEF Close, Publish
    <2>5. CopyOf(channels, id) = [deposit |-> ch.deposit, claimed |-> ch.claimed, open |-> ch.open]
      BY <1>1 DEF CopyOf, Found
    <2>6. CopyOf(channels', id) = [deposit |-> ch.deposit, claimed |-> ch.claimed, open |-> FALSE]
      BY <1>1, <2>3 DEF CopyOf, Found
    <2> HIDE DEF ch
    <2>7. Applied(CopyOf(channels, id), event') = [CopyOf(channels, id) EXCEPT !.open = FALSE]
      BY <2>4 DEF Applied
    <2>8. Applied(CopyOf(channels, id), event') = CopyOf(channels', id)
      <3>1. PICK f : f = FALSE
        OBVIOUS
      <3>2. [CopyOf(channels, id) EXCEPT !.open = f]
              = [deposit |-> ch.deposit, claimed |-> ch.claimed, open |-> f]
        BY <2>5, OnlyOpenChanges
      <3>3. [CopyOf(channels, id) EXCEPT !.open = FALSE]
              = [deposit |-> ch.deposit, claimed |-> ch.claimed, open |-> FALSE]
        BY <3>1, <3>2, Zenon
      <3> QED BY <2>6, <2>7, <3>3, Zenon
    <2> QED BY <1>3, <2>4, <2>6, <2>8 DEF Told
  <1> QED BY <1>2, <1>3

(* A reader who applies every published event to his copy has, after every
   step, the deposit, claimed total and open flag the contract has.         *)
THEOREM EventsSuffice == Spec => EventsTellTheState
  <1>1. ASSUME TypeOK, [Next]_contractVars, NEW i \in Ids
        PROVE  Told(i)
    <2>1. ASSUME NEW payer \in Parties, NEW payee \in Parties, NEW a \in Assets,
                 NEW d \in Amounts, NEW k \in Keys, NEW x \in Expiries,
                 Open(payer, payee, a, d, k, x)
          PROVE  Told(i)
      BY <1>1, <2>1, OpenIsTold
    <2>2. ASSUME NEW id \in Ids, NEW n \in Amounts, TopUp(id, n)
          PROVE  Told(i)
      BY <1>1, <2>2, TopUpIsTold
    <2>3. ASSUME NEW id \in Ids, NEW c \in Cumulatives, NEW s \in signed, Claim(id, c, s)
          PROVE  Told(i)
      BY <1>1, <2>3, ClaimIsTold
    <2>4. ASSUME NEW id \in Ids, NEW p \in Parties, Close(id, p)
          PROVE  Told(i)
      BY <1>1, <2>4, CloseIsTold
    <2>5. ASSUME NEW k \in Keys, NEW d \in Deployments, NEW id \in Ids,
                 NEW c \in Cumulatives, Sign(k, d, id, c)
          PROVE  Told(i)
      BY <1>1, <2>5, UnchangedIsTold DEF Sign
    <2>6. CASE LedgerCloses
      BY <1>1, <2>6, UnchangedIsTold DEF LedgerCloses
    <2>7. CASE UNCHANGED contractVars
      BY <1>1, <2>7, UnchangedIsTold DEF contractVars
    <2> QED BY <1>1, <2>1, <2>2, <2>3, <2>4, <2>5, <2>6, <2>7 DEF Next
  <1>2. TypeOK /\ [Next]_contractVars => [\A id \in Ids : Told(id)]_contractVars
    BY <1>1
  <1> QED BY <1>2, TypeCorrect, PTL DEF Spec, EventsTellTheState, Told
=============================================================================
