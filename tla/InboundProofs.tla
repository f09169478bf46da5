--------------------------- MODULE InboundProofs ---------------------------
(***************************************************************************)
(* Proofs about CoSign and Inbound for every value of their constants: any *)
(* payments, clients, accounts, keys, programs and blockhashes, any number *)
(* of requests and of changes of the configuration, any messages, sizes of *)
(* channels and number of stops.                                           *)
(*                                                                         *)
(* CInv follows a transaction through CoSign: an answer that carries one   *)
(* has a message the beacon built, with the key it had (AnswersOK); what   *)
(* the data receiver serves passed the checks and is signed (ServingOK), so*)
(* is what Solana got (SubmittedOK); and a request that carries one of the *)
(* size of those the beacon builds was made after the beacon had a key     *)
(* (RequestsOK). Inbound implements CoSign: its channels only delay and    *)
(* lose requests, which needs that a request in the channel is still on its*)
(* way, and only once (RxOK).                                              *)
(*                                                                         *)
(* The receivers show what was sent: a message packed as LxmfMessages says *)
(* is decoded byte by byte to its content (PayloadDecodes), and the        *)
(* elements its source signed are found again (PayloadIsSigned). Skipping  *)
(* is followed by induction on the containers a value lies in              *)
(* (SkipsContainer), and reading by induction on the fields and files      *)
(* (FieldMapLies). What this client writes is packed that way              *)
(* (OwnMessagesArePacked).                                                 *)
(***************************************************************************)
EXTENDS Inbound, LxmfMessages, FiniteSetTheorems, SequenceTheorems, WellFoundedInduction, TLAPS

\* A transaction as the decoder returns it: two fields, and a list of slots.
IsTx(tx) ==
  /\ tx = [signatures |-> tx.signatures, message |-> tx.message]
  /\ Len(tx.signatures) \in Nat
  /\ tx.signatures = [i \in 1 .. Len(tx.signatures) |-> tx.signatures[i]]

\* What the beacon builds for payment p.
Build(k, b, p, id) == build_unsigned_execute_payment(k, b, Asked[p], p, id)

\* A message the beacon may have built.
Built(m) ==
  \E k \in Key, b \in Blockhash, p \in Payment, id \in Program :
    m = Build(k, b, p, id).message

\* Signed by its payer and by key k over the same message, which calls program.
Good(tx, program, k) ==
  /\ k \in Key
  /\ verify_slot_signature(tx, tx.message.account_keys[1], 0)
  /\ verify_slot_signature(tx, k, 1)
  /\ verify_execute_payment_instruction(tx.message, program)

\* Client p waits for the answer to its request number i for a transaction.
Preparing(p, i) == stage[p].at = "preparing" /\ stage[p].id = i

\* k is the key of the beacon, if it only ever had one.
OnlyKey(k) == keypair # None /\ (~rekeyed => keypair = Some(k))

ConfigOK == keypair \in Option(Key) /\ program_id \in Option(Program)

StageOK == stage \in [Payment -> [at : At, id : 0 .. asks]] /\ asks \in 0 .. MaxAsks

\* A transaction comes with one method only, and one with as many accounts as
\* those of the beacon came after the beacon had a key.
RequestsOK ==
  \A r \in sent :
    /\ r.id \in 1 .. asks /\ r.method \in Method /\ r.pay \in Option(Payment)
    /\ r.tx # None =>
         /\ r.method = "cosignTransaction"
         /\ IsTx(r.tx[1])
         /\ Len(r.tx[1].message.account_keys) = 12 => keypair # None
    /\ \A p \in Payment : Preparing(p, r.id) => r.method = "prepareTransaction"

ServingOK ==
  serving # None =>
    LET s == serving[1] IN
    /\ s = [req |-> s.req, keypair |-> s.keypair, program_id |-> s.program_id,
            tx |-> s.tx, reached |-> s.reached]
    /\ s.req.id \in 1 .. asks
    /\ s.req.method \in Method \ {"malformed"}
    /\ \A p \in Payment : Preparing(p, s.req.id) => s.req.method = "prepareTransaction"
    /\ s.req.method # "getBalance" =>
         \E k \in Key, id \in Program :
           /\ s.keypair = Some(k) /\ s.program_id = Some(id) /\ OnlyKey(k)
           /\ s.tx # None => Good(s.tx[1], id, k)
    /\ s.req.method = "prepareTransaction" => \E p \in Payment : s.req.pay = Some(p)
    /\ s.tx # None => s.req.method = "cosignTransaction"

AnswersOK ==
  \A a \in answers :
    /\ a.id \in 0 .. asks /\ a.ok \in BOOLEAN /\ a.delivered \in BOOLEAN
    /\ "result" \notin a.fields
    /\ \A p \in Payment : Preparing(p, a.id) /\ a.ok => a.tx # None
    /\ a.tx # None =>
         \E k \in Key, b \in Blockhash, p \in Payment, id \in Program :
           a.tx[1] = Build(k, b, p, id) /\ OnlyKey(k)

SubmittedOK ==
  \A s \in submitted : \E k \in Key : Good(s.tx, s.program, k) /\ OnlyKey(k)

\* What the beacon might have built and the payer signed is refused only for
\* another program.
RefusedOK ==
  \A f \in refused :
    /\ Built(f.tx.message) /\ Len(f.tx.signatures) = 2
    /\ verify_slot_signature(f.tx, f.tx.message.account_keys[1], 0)
    => f.program # Last(f.tx.message.account_keys)

\* The inductive invariant of CoSign.
CInv ==
  /\ ConfigOK
  /\ configs \in 0 .. MaxConfigs /\ solana_rpc_url \in BOOLEAN /\ panicked \in BOOLEAN
  /\ StageOK
  /\ RequestsOK
  /\ ServingOK
  /\ AnswersOK
  /\ SubmittedOK
  /\ RefusedOK

\* The channels hold no more than they can, and requests come by one of them.
RxShape ==
  /\ rx = [c \in Channel |-> rx[c]]
  /\ \A c \in Channel \ {"data"} : rx[c] \in Seq(Msg)
  /\ rx.data \in Seq(ToSet(rx.data))
  /\ \A c \in Channel : Len(rx[c]) <= RxCap

\* A request in the channel is on its way, and there only once.
RxOK ==
  \A i \in DOMAIN rx.data : rx.data[i] \notin Msg =>
    /\ rx.data[i] \in sent
    /\ \A j \in DOMAIN rx.data : rx.data[i] = rx.data[j] => i = j

-----------------------------------------------------------------------------
(* The least element of a set, and the index of a key                      *)

\* The order of the natural numbers, as the theorems of the library take it.
Below == {p \in Nat \X Nat : p[1] < p[2]}

\* The natural numbers are well founded.
LEMMA BelowWellFounded == IsWellFoundedOn(Below, Nat)
<1>1. Below = OpToRel(<, Nat)
  BY Zenon DEF Below, OpToRel
<1>2. QED
  BY <1>1, NatLessThanWellFounded

\* Every set of natural numbers has a least element.
LEMMA Least ==
  ASSUME NEW T, T \subseteq Nat, T # {}
  PROVE  \E x \in T : \A y \in T : x <= y
<1>1. PICK x \in T : \A y \in T : ~(<<y, x>> \in Below)
  BY BelowWellFounded, WFMin
<1>2. ASSUME NEW y \in T, y < x
      PROVE  FALSE
  <2>1. <<y, x>> \in Nat \X Nat /\ <<y, x>>[1] < <<y, x>>[2]
    BY <1>2
  <2>2. <<y, x>> \in Below
    BY <2>1 DEF Below
  <2>3. QED
    BY <1>1, <1>2, <2>2
<1>3. QED
  BY <1>1, <1>2

\* Idx: the index of a key in the table leads back to the key.
LEMMA IdxFinds ==
  ASSUME NEW S, NEW keys \in Seq(S), NEW k \in ToSet(keys)
  PROVE  /\ Idx(keys, k) \in 0 .. Len(keys) - 1
         /\ keys[Idx(keys, k) + 1] = k
<1> DEFINE I == {i \in 1 .. Len(keys) : keys[i] = k}
<1>1. I \subseteq Nat /\ I # {}
  BY DEF ToSet
<1>2. \E x \in I : \A y \in I : x <= y
  BY <1>1, Least
<1>3. Min(I) \in I
  BY <1>2 DEF Min
<1>4. Idx(keys, k) = Min(I) - 1
  BY <1>1 DEF Idx, SelectInSeq
<1>5. QED
  BY <1>3, <1>4

-----------------------------------------------------------------------------
(* Transactions                                                            *)

\* Signing a slot that exists fills it, and touches nothing else.
LEMMA Signing ==
  ASSUME NEW tx, IsTx(tx), NEW key, NEW slot \in Nat
  PROVE  LET signed == sign_tx_at_slot(tx, key, slot) IN
         /\ IsTx(signed)
         /\ signed.message = tx.message
         /\ Len(signed.signatures) = Len(tx.signatures)
         /\ \A j \in 1 .. Len(tx.signatures) : j # slot + 1 =>
              signed.signatures[j] = tx.signatures[j]
         /\ slot < Len(tx.signatures) =>
              signed.signatures[slot + 1] = SignatureBy(key, tx.message)
<1> DEFINE sg == tx.signatures
           new == [sg EXCEPT ![slot + 1] = SignatureBy(key, tx.message)]
           signed == sign_tx_at_slot(tx, key, slot)
<1>1. /\ tx = [signatures |-> sg, message |-> tx.message]
      /\ Len(sg) \in Nat /\ sg = [i \in 1 .. Len(sg) |-> sg[i]]
  BY DEF IsTx
<1>2. CASE slot < Len(sg)
  <2>1. signed = [tx EXCEPT !.signatures = new]
    BY <1>2 DEF sign_tx_at_slot
  <2>2. signed = [signatures |-> new, message |-> tx.message]
    BY <1>1, <2>1
  <2>3. slot + 1 \in 1 .. Len(sg)
    BY <1>1, <1>2
  <2>4. /\ new = [i \in 1 .. Len(sg) |-> new[i]]
        /\ \A j \in 1 .. Len(sg) : j # slot + 1 => new[j] = sg[j]
        /\ new[slot + 1] = SignatureBy(key, tx.message)
    BY <1>1, <2>3
  <2> HIDE DEF new, signed
  <2>5. Len(new) = Len(sg)
    BY <1>1, <2>4
  <2>6. IsTx(signed) /\ signed.message = tx.message /\ signed.signatures = new
    BY <1>1, <2>2, <2>4, <2>5 DEF IsTx
  <2> USE DEF signed
  <2>7. QED
    BY <2>4, <2>5, <2>6
<1>3. CASE ~(slot < Len(sg))
  BY <1>3 DEF sign_tx_at_slot
<1>4. QED
  BY <1>2, <1>3

\* A new transaction of a message with two signers.
LEMMA Unsigned ==
  ASSUME NEW m, m.num_required_signatures = 2
  PROVE  IsTx(new_unsigned(m)) /\ new_unsigned(m).message = m
         /\ Len(new_unsigned(m).signatures) = 2
<1> DEFINE sg == [i \in 1 .. 2 |-> None]
<1>1. new_unsigned(m) = [signatures |-> sg, message |-> m]
  BY DEF new_unsigned
<1>2. Len(sg) = 2 /\ sg = [i \in 1 .. Len(sg) |-> sg[i]]
  <2>1. sg \in Seq({None}) /\ DOMAIN sg = 1 .. 2
    OBVIOUS
  <2>2. Len(sg) \in Nat /\ 1 .. Len(sg) = 1 .. 2
    BY <2>1
  <2>3. QED
    BY <2>1, <2>2
<1> HIDE DEF sg
<1> DEFINE tx == new_unsigned(m)
<1>3. tx = [signatures |-> sg, message |-> m] /\ tx.signatures = sg /\ tx.message = m
  BY <1>1
<1> HIDE DEF tx
<1>4. IsTx(tx) /\ Len(tx.signatures) = 2
  <2>1. tx = [signatures |-> tx.signatures, message |-> tx.message]
    BY <1>3
  <2>2. tx.signatures = [i \in 1 .. Len(tx.signatures) |-> tx.signatures[i]]
    BY <1>2, <1>3, Zenon
  <2>3. Len(tx.signatures) = 2
    BY <1>2, <1>3
  <2>4. QED
    BY <2>1, <2>2, <2>3 DEF IsTx
<1> USE DEF tx
<1>5. QED
  BY <1>3, <1>4

\* The accounts of execute_payment: seven of the payment, and four programs.
LEMMA Accounts ==
  ASSUME NEW a, NEW k
  PROVE  LET accounts == PaymentAccounts(a, k) IN
         /\ accounts = <<a.payer, k, a.payer_ata, a.recipient, a.recipient_ata,
                         a.broadcaster_ata, a.mint, "TOKEN_PROGRAM", "SYSTEM_PROGRAM",
                         "ASSOCIATED_TOKEN_PROGRAM", "SYSVAR_RENT">>
         /\ \A S : (\A i \in 1 .. 11 : accounts[i] \in S) => accounts \in Seq(S)
         /\ Len(accounts) = 11 /\ DOMAIN accounts = 1 .. 11
<1> DEFINE u == <<a.payer, k, a.payer_ata, a.recipient, a.recipient_ata,
                  a.broadcaster_ata, a.mint>>
           all == <<a.payer, k, a.payer_ata, a.recipient, a.recipient_ata,
                    a.broadcaster_ata, a.mint, "TOKEN_PROGRAM", "SYSTEM_PROGRAM",
                    "ASSOCIATED_TOKEN_PROGRAM", "SYSVAR_RENT">>
           S == {all[i] : i \in 1 .. 11}
           accounts == u \o ProgramsAndRent
<1>1. PaymentAccounts(a, k) = accounts
  BY DEF PaymentAccounts
<1>2. u \in Seq(S) /\ Len(u) = 7
  OBVIOUS
<1>3. ProgramsAndRent \in Seq(S) /\ Len(ProgramsAndRent) = 4
  BY DEF ProgramsAndRent, SYSTEM_PROGRAM
<1>4. all \in Seq(S) /\ Len(all) = 11
  OBVIOUS
<1>5. \A i \in 1 .. 7 : u[i] = all[i]
  OBVIOUS
<1>6. \A i \in 8 .. 11 : ProgramsAndRent[i - 7] = all[i]
  BY DEF ProgramsAndRent, SYSTEM_PROGRAM
<1> HIDE DEF S, u, all
<1>7. /\ accounts \in Seq(S) /\ Len(accounts) = 11
      /\ \A i \in 1 .. Len(u) + Len(ProgramsAndRent) :
           accounts[i] = IF i <= Len(u) THEN u[i] ELSE ProgramsAndRent[i - Len(u)]
  <2>1. /\ accounts \in Seq(S) /\ Len(accounts) = Len(u) + Len(ProgramsAndRent)
        /\ \A i \in 1 .. Len(u) + Len(ProgramsAndRent) :
             accounts[i] = IF i <= Len(u) THEN u[i] ELSE ProgramsAndRent[i - Len(u)]
    BY <1>2, <1>3, ConcatProperties, Zenon
  <2>2. Len(accounts) = 11
    <3>1. Len(u) = 7 /\ Len(ProgramsAndRent) = 4
      BY <1>2, <1>3
    <3>2. QED
      BY <2>1, <3>1
  <2>3. QED
    BY <2>1, <2>2, Zenon
<1> HIDE DEF accounts
<1>8. ASSUME NEW i \in 1 .. 11
      PROVE  accounts[i] = all[i]
  BY <1>2, <1>3, <1>5, <1>6, <1>7
<1>9. accounts = all
  BY <1>4, <1>7, <1>8, SeqEqual
<1>10. DOMAIN accounts = 1 .. 11 /\ accounts = [i \in 1 .. 11 |-> accounts[i]]
  BY <1>7
<1>11. ASSUME NEW R, \A i \in 1 .. 11 : accounts[i] \in R
       PROVE  accounts \in Seq(R)
  BY <1>10, <1>11
<1>12. QED
  BY <1>1, <1>7, <1>9, <1>10, <1>11 DEF all

\* What build_unsigned_execute_payment makes: twelve accounts, ending in the
\* program, which the one instruction calls with the eleven before it.
LEMMA BuildFacts ==
  ASSUME NEW k, NEW b, NEW p, NEW id
  PROVE  LET m == Build(k, b, p, id).message
             a == Asked[p]
         IN
         /\ IsTx(Build(k, b, p, id)) /\ Len(Build(k, b, p, id).signatures) = 2
         /\ Len(m.account_keys) = 12 /\ DOMAIN m.account_keys = 1 .. 12
         /\ m.account_keys[1] = a.payer
         /\ m.account_keys[2] = k
         /\ Last(m.account_keys) = id
         /\ verify_execute_payment_instruction(m, id)
         /\ m.instructions[1].data.params = p
         /\ KeysAt(m, m.instructions[1].account_indices) = PaymentAccounts(a, k)
         /\ Writable(m) = {a.payer, k, a.payer_ata, a.recipient, a.recipient_ata,
                           a.broadcaster_ata}
<1> DEFINE a == Asked[p]
           accounts == PaymentAccounts(a, k)
           keys == Append(accounts, id)
           S == {accounts[i] : i \in 1 .. 11} \cup {id}
           data == build_execute_payment_ix_data(p)
           ix == CompiledInstruction(keys, id, accounts, data)
           m == SolanaMessage(keys, 6, b, <<ix>>)
<1>1. Build(k, b, p, id) = new_unsigned(m)
  BY DEF Build, build_unsigned_execute_payment
<1>2. /\ accounts \in Seq(S) /\ Len(accounts) = 11 /\ DOMAIN accounts = 1 .. 11
      /\ accounts = <<a.payer, k, a.payer_ata, a.recipient, a.recipient_ata,
                      a.broadcaster_ata, a.mint, "TOKEN_PROGRAM", "SYSTEM_PROGRAM",
                      "ASSOCIATED_TOKEN_PROGRAM", "SYSVAR_RENT">>
  BY Accounts
<1> HIDE DEF accounts, S, a
<1>3. id \in S
  BY DEF S
<1>4. /\ keys \in Seq(S) /\ Len(keys) = 12 /\ DOMAIN keys = 1 .. 12
      /\ \A i \in 1 .. 11 : keys[i] = accounts[i]
      /\ keys[12] = id
  BY <1>2, <1>3, AppendProperties
<1> HIDE DEF keys
<1>5. /\ \A i \in 1 .. 11 : accounts[i] \in ToSet(keys)
      /\ id \in ToSet(keys)
  BY <1>4 DEF ToSet
<1>6. /\ Idx(keys, id) \in 0 .. Len(keys) - 1 /\ keys[Idx(keys, id) + 1] = id
      /\ \A i \in 1 .. 11 : keys[Idx(keys, accounts[i]) + 1] = accounts[i]
  <2>1. \A x \in ToSet(keys) : /\ Idx(keys, x) \in 0 .. Len(keys) - 1
                               /\ keys[Idx(keys, x) + 1] = x
    BY <1>4, IdxFinds, Zenon
  <2>2. QED
    BY <1>5, <2>1
<1>7. /\ ix.program_id_index = Idx(keys, id)
      /\ ix.account_indices = [i \in 1 .. 11 |-> Idx(keys, accounts[i])]
      /\ ix.data.method = "execute_payment" /\ ix.data.params = p
  BY <1>2 DEF CompiledInstruction, build_execute_payment_ix_data
<1> HIDE DEF ix
<1>8. /\ m.num_required_signatures = 2 /\ m.account_keys = keys
      /\ m.num_readonly_unsigned_accounts = 6
      /\ m.instructions = <<ix>> /\ m.instructions[1] = ix /\ m.instructions # <<>>
  BY DEF SolanaMessage
<1> HIDE DEF m
<1>9. /\ IsTx(Build(k, b, p, id)) /\ Len(Build(k, b, p, id).signatures) = 2
      /\ Build(k, b, p, id).message = m
  BY <1>1, <1>8, Unsigned
<1>10. keys[1] = a.payer /\ keys[2] = k /\ Last(keys) = id
  BY <1>2, <1>4 DEF Last
<1>11. verify_execute_payment_instruction(m, id)
  <2>1. /\ m.instructions[1].program_id_index \in 0 .. Len(m.account_keys) - 1
        /\ m.account_keys[m.instructions[1].program_id_index + 1] = id
        /\ m.instructions[1].data.method = "execute_payment"
    BY <1>6, <1>7, <1>8, Zenon
  <2>2. QED
    BY <1>8, <2>1, Zenon DEF verify_execute_payment_instruction
<1>12. KeysAt(m, ix.account_indices) = accounts
  <2>1. KeysAt(m, ix.account_indices)
          = [i \in 1 .. 11 |-> keys[ix.account_indices[i] + 1]]
    BY <1>7, <1>8 DEF KeysAt
  <2>2. \A i \in 1 .. 11 : keys[ix.account_indices[i] + 1] = accounts[i]
    BY <1>6, <1>7
  <2>3. accounts = [i \in 1 .. 11 |-> accounts[i]]
    BY <1>2
  <2>4. QED
    BY <2>1, <2>2, <2>3
<1>13. Writable(m) = {a.payer, k, a.payer_ata, a.recipient, a.recipient_ata,
                      a.broadcaster_ata}
  <2>1. Writable(m) = {keys[i] : i \in 1 .. 6}
    <3>1. Len(m.account_keys) - m.num_readonly_unsigned_accounts = 6
      BY <1>4, <1>8
    <3>2. QED
      BY <1>8, <3>1, Zenon DEF Writable
  <2>2. /\ keys[1] = a.payer /\ keys[2] = k /\ keys[3] = a.payer_ata
        /\ keys[4] = a.recipient /\ keys[5] = a.recipient_ata
        /\ keys[6] = a.broadcaster_ata
    BY <1>2, <1>4
  <2>3. QED
    BY <2>1, <2>2
<1>14. QED
  BY <1>4, <1>7, <1>8, <1>9, <1>10, <1>11, <1>12, <1>13 DEF a, accounts

\* What partial_sign_execute_payment makes has fourteen accounts.
LEMMA PartialSignFacts ==
  ASSUME NEW k, NEW b, NEW a, NEW p, NEW id
  PROVE  LET tx == partial_sign_execute_payment(k, b, a, p, id) IN
         IsTx(tx) /\ Len(tx.message.account_keys) = 14
<1> DEFINE accounts == PaymentAccounts(a, k)
           S == {accounts[i] : i \in 1 .. 11}
                  \cup {a.nonce_account, SYSVAR_RECENT_BLOCKHASHES, id}
           front == SubSeq(accounts, 1, 2)
           back == SubSeq(accounts, 3, Len(accounts))
           keys == front \o <<a.nonce_account>> \o back
                     \o <<SYSVAR_RECENT_BLOCKHASHES, id>>
           advance_ix == CompiledInstruction(keys, SYSTEM_PROGRAM,
                           <<a.nonce_account, SYSVAR_RECENT_BLOCKHASHES, a.payer>>,
                           AdvanceNonce)
           ep_ix == CompiledInstruction(keys, id, accounts,
                                        build_execute_payment_ix_data(p))
           m == SolanaMessage(keys, 7, b, <<advance_ix, ep_ix>>)
<1>1. partial_sign_execute_payment(k, b, a, p, id)
        = sign_tx_at_slot(new_unsigned(m), a.payer, 0)
  BY DEF partial_sign_execute_payment
<1>2. accounts \in Seq(S) /\ Len(accounts) = 11
  BY Accounts
<1>3. m.num_required_signatures = 2 /\ m.account_keys = keys
  BY DEF SolanaMessage
<1> HIDE DEF m, accounts
<1>4. /\ front \in Seq(S) /\ Len(front) = 2
      /\ back \in Seq(S) /\ Len(back) = 9
  <2>1. \A i \in 1 .. 11 : accounts[i] \in S
    OBVIOUS
  <2> HIDE DEF S
  <2>2. QED
    BY <1>2, <2>1, SubSeqProperties
<1>5. /\ <<a.nonce_account>> \in Seq(S) /\ <<SYSVAR_RECENT_BLOCKHASHES, id>> \in Seq(S)
      /\ Len(<<a.nonce_account>>) = 1 /\ Len(<<SYSVAR_RECENT_BLOCKHASHES, id>>) = 2
  OBVIOUS
<1> HIDE DEF S, front, back
<1>6. front \o <<a.nonce_account>> \in Seq(S) /\ Len(front \o <<a.nonce_account>>) = 3
  <2>1. Len(front \o <<a.nonce_account>>) = Len(front) + Len(<<a.nonce_account>>)
    BY <1>4, <1>5, ConcatProperties, Zenon
  <2>2. QED
    BY <1>4, <1>5, <2>1
<1>7. /\ front \o <<a.nonce_account>> \o back \in Seq(S)
      /\ Len(front \o <<a.nonce_account>> \o back) = 12
  <2> DEFINE three == front \o <<a.nonce_account>>
  <2> HIDE DEF three
  <2>1. three \o back \in Seq(S) /\ Len(three \o back) = Len(three) + Len(back)
    BY <1>4, <1>6, ConcatProperties, Zenon DEF three
  <2>2. QED
    BY <1>4, <1>6, <2>1 DEF three
<1>8. Len(keys) = 14
  <2> DEFINE twelve == front \o <<a.nonce_account>> \o back
  <2> HIDE DEF twelve
  <2>1. Len(twelve \o <<SYSVAR_RECENT_BLOCKHASHES, id>>)
          = Len(twelve) + Len(<<SYSVAR_RECENT_BLOCKHASHES, id>>)
    BY <1>5, <1>7, ConcatProperties, Zenon DEF twelve
  <2>2. QED
    BY <1>5, <1>7, <2>1 DEF twelve
<1> HIDE DEF keys
<1>9. IsTx(new_unsigned(m)) /\ new_unsigned(m).message = m
  BY <1>3, Unsigned
<1> DEFINE tx == sign_tx_at_slot(new_unsigned(m), a.payer, 0)
<1>10. IsTx(tx) /\ tx.message = m
  BY <1>9, Signing
<1> HIDE DEF tx
<1>11. QED
  BY <1>1, <1>3, <1>8, <1>10 DEF tx

-----------------------------------------------------------------------------
(* CoSign: the clients and the configuration                               *)

\* CInv holds before anything is asked.
LEMMA InitCInv == CoSignInit => CInv
<1> SUFFICES ASSUME CoSignInit PROVE CInv
  OBVIOUS
<1> USE DEF CoSignInit
<1>1. ConfigOK /\ configs \in 0 .. MaxConfigs /\ solana_rpc_url \in BOOLEAN /\ panicked \in BOOLEAN
  BY DEF ConfigOK, Option
<1>2. StageOK
  <2>1. asks \in 0 .. MaxAsks
    BY CoSignBoundsAssumption
  <2>2. \A x \in {[at |-> at, id |-> 0] : at \in {"idle", "new"}} :
          x \in [at : At, id : 0 .. asks]
    BY DEF At
  <2>3. QED
    BY <2>1, <2>2 DEF StageOK
<1>3. RequestsOK /\ ServingOK /\ AnswersOK /\ SubmittedOK /\ RefusedOK
  BY DEF RequestsOK, ServingOK, AnswersOK, SubmittedOK, RefusedOK
<1>4. QED
  BY <1>1, <1>2, <1>3 DEF CInv

\* Only the requests and the client that makes one change when it does.
LEMMA RequestKeeps ==
  ASSUME CInv, NEW p \in Payment, NEW at \in At, NEW method \in Method,
         NEW pay \in Option(Payment), NEW tx, Request(p, at, method, pay, tx),
         at = "preparing" => method = "prepareTransaction",
         tx # None => /\ method = "cosignTransaction" /\ IsTx(tx[1])
                      /\ Len(tx[1].message.account_keys) = 12 => keypair # None
  PROVE  CInv'
<1> DEFINE new == [id |-> asks + 1, method |-> method, pay |-> pay, tx |-> tx]
<1>1. /\ asks < MaxAsks /\ asks' = asks + 1
      /\ sent' = sent \cup {new}
      /\ stage' = [stage EXCEPT ![p] = [at |-> at, id |-> asks + 1]]
      /\ UNCHANGED <<keypair, solana_rpc_url, program_id, configs, rekeyed,
                     serving, panicked, answers, submitted, refused>>
  BY DEF Request, configVars, serverVars
<1>2. /\ asks \in Nat /\ asks \in 0 .. MaxAsks /\ MaxAsks \in Nat
      /\ stage \in [Payment -> [at : At, id : 0 .. asks]]
  BY CoSignBoundsAssumption DEF CInv, StageOK
<1>3. StageOK'
  BY <1>1, <1>2 DEF StageOK
<1>4. \A q \in Payment, i \in 0 .. asks : Preparing(q, i)' => Preparing(q, i)
  BY <1>1, <1>2 DEF Preparing
<1>5. \A q \in Payment : \A i : i = asks + 1 /\ Preparing(q, i)' => q = p /\ at = "preparing"
  BY <1>1, <1>2 DEF Preparing
<1>6. RequestsOK'
  <2> SUFFICES ASSUME NEW r \in sent'
               PROVE  /\ r.id \in 1 .. asks' /\ r.method \in Method
                      /\ r.pay \in Option(Payment)
                      /\ r.tx # None =>
                           /\ r.method = "cosignTransaction" /\ IsTx(r.tx[1])
                           /\ Len(r.tx[1].message.account_keys) = 12 => keypair' # None
                      /\ \A q \in Payment : Preparing(q, r.id)'
                           => r.method = "prepareTransaction"
    BY DEF RequestsOK
  <2>1. CASE r \in sent
    <3>1. /\ r.id \in 1 .. asks /\ r.method \in Method /\ r.pay \in Option(Payment)
          /\ r.tx # None =>
               /\ r.method = "cosignTransaction" /\ IsTx(r.tx[1])
               /\ Len(r.tx[1].message.account_keys) = 12 => keypair # None
          /\ \A q \in Payment : Preparing(q, r.id) => r.method = "prepareTransaction"
      BY <2>1 DEF CInv, RequestsOK
    <3>2. \A q \in Payment : Preparing(q, r.id)' => r.method = "prepareTransaction"
      BY <1>2, <1>4, <3>1
    <3>3. QED
      BY <1>1, <1>2, <3>1, <3>2
  <2>2. CASE r = new
    <3>1. r.id = asks + 1 /\ r.method = method /\ r.pay = pay /\ r.tx = tx
      BY <2>2
    <3>2. asks + 1 \in 1 .. asks'
      BY <1>1, <1>2
    <3>3. \A q \in Payment : Preparing(q, r.id)' => r.method = "prepareTransaction"
      BY <1>5, <3>1
    <3>4. r.id \in 1 .. asks' /\ r.method \in Method /\ r.pay \in Option(Payment)
      BY <3>1, <3>2
    <3>5. r.tx # None =>
            /\ r.method = "cosignTransaction" /\ IsTx(r.tx[1])
            /\ Len(r.tx[1].message.account_keys) = 12 => keypair' # None
      BY <1>1, <3>1
    <3>6. QED
      BY <3>3, <3>4, <3>5
  <2>3. QED
    BY <1>1, <2>1, <2>2
<1>7. ServingOK'
  <2> SUFFICES ASSUME serving # None PROVE ServingOK'
    BY <1>1 DEF ServingOK
  <2>1. serving[1].req.id \in 1 .. asks /\ asks' \in Nat /\ asks <= asks'
    BY <1>1, <1>2 DEF CInv, ServingOK
  <2>2. serving[1].req.id \in 0 .. asks /\ serving[1].req.id \in 1 .. asks'
    BY <1>2, <2>1
  <2>3. QED
    BY <1>1, <1>4, <2>2 DEF CInv, ServingOK, OnlyKey
<1>8. AnswersOK'
  <2>1. \A a \in answers : a.id \in 0 .. asks'
    BY <1>1, <1>2 DEF CInv, AnswersOK
  <2>2. QED
    BY <1>1, <1>4, <2>1 DEF CInv, AnswersOK, OnlyKey
<1>9. /\ ConfigOK' /\ SubmittedOK' /\ RefusedOK'
      /\ (configs \in 0 .. MaxConfigs /\ solana_rpc_url \in BOOLEAN /\ panicked \in BOOLEAN)'
  BY <1>1 DEF CInv, ConfigOK, SubmittedOK, RefusedOK, OnlyKey
<1>10. QED
  BY <1>3, <1>6, <1>7, <1>8, <1>9 DEF CInv

\* A client that gives up, or is done, waits for nothing.
LEMMA SettleKeeps ==
  ASSUME CInv, NEW p \in Payment, NEW at \in At \ {"preparing"}, Settle(p, at)
  PROVE  CInv'
<1>1. /\ stage' = [stage EXCEPT ![p].at = at]
      /\ UNCHANGED <<keypair, solana_rpc_url, program_id, configs, rekeyed, sent, asks,
                     serving, panicked, answers, submitted, refused>>
  BY DEF Settle, configVars, serverVars
<1>2. stage \in [Payment -> [at : At, id : 0 .. asks]]
  BY DEF CInv, StageOK
<1>3. StageOK'
  BY <1>1, <1>2 DEF CInv, StageOK
<1>4. \A q \in Payment : \A i : Preparing(q, i)' => Preparing(q, i)
  BY <1>1, <1>2 DEF Preparing
<1>5. RequestsOK'
  BY <1>1, <1>4 DEF CInv, RequestsOK
<1>6. ServingOK'
  BY <1>1, <1>4 DEF CInv, ServingOK, OnlyKey
<1>7. AnswersOK'
  BY <1>1, <1>4 DEF CInv, AnswersOK, OnlyKey
<1>8. /\ ConfigOK' /\ SubmittedOK' /\ RefusedOK'
      /\ (configs \in 0 .. MaxConfigs /\ solana_rpc_url \in BOOLEAN /\ panicked \in BOOLEAN)'
  BY <1>1 DEF CInv, ConfigOK, SubmittedOK, RefusedOK, OnlyKey
<1>9. QED
  BY <1>3, <1>5, <1>6, <1>7, <1>8 DEF CInv

\* What an application may make of a transaction is a transaction.
LEMMA SigningsAreTx ==
  ASSUME NEW p, NEW tx, IsTx(tx), Len(tx.signatures) = 2, NEW x \in Signings(p, tx)
  PROVE  IsTx(x)
<1> DEFINE signed == sign_tx_at_slot(tx, Asked[p].payer, 0)
           other == [signed EXCEPT !.message.recent_blockhash = 0]
           short == [signed EXCEPT !.signatures = SubSeq(@, 1, 1)]
<1>1. IsTx(signed) /\ Len(signed.signatures) = 2
  BY Signing
<1>2. IsTx(sign_tx_at_slot(tx, Asked[p].recipient, 0))
  BY Signing
<1>3. x \in {signed, tx, sign_tx_at_slot(tx, Asked[p].recipient, 0), other, short}
  BY DEF Signings
<1> HIDE DEF signed
<1>4. signed = [signatures |-> signed.signatures, message |-> signed.message]
  BY <1>1 DEF IsTx
<1>5. IsTx(other)
  <2>1. /\ other = [signatures |-> other.signatures, message |-> other.message]
        /\ other.signatures = signed.signatures
    BY <1>4
  <2> HIDE DEF other
  <2>2. QED
    BY <1>1, <2>1 DEF IsTx
<1>6. IsTx(short)
  <2> DEFINE one == SubSeq(signed.signatures, 1, 1)
  <2>1. one \in Seq({signed.signatures[1]}) /\ Len(one) = 1
    BY SubSeqProperties
  <2>2. one = [i \in 1 .. Len(one) |-> one[i]]
    BY <2>1
  <2>3. /\ short = [signatures |-> short.signatures, message |-> short.message]
        /\ short.signatures = one
    BY <1>4
  <2> HIDE DEF short, one
  <2>4. QED
    BY <2>1, <2>2, <2>3 DEF IsTx
<1>7. QED
  BY <1>1, <1>2, <1>3, <1>5, <1>6

\* The steps of the clients.
LEMMA ClientKeeps ==
  ASSUME CInv, ClientNext
  PROVE  CInv'
<1> PICK p \in Payment :
      \/ RequestUnsignedTx(p)
      \/ \E a \in answers : CosignAndSubmit(p, a) \/ AppCosign(p, a) \/ SubmitSignedTx(p, a)
      \/ \E k \in Key, b \in Blockhash : PartialSign(p, k, b)
      \/ OtherRequest(p)
      \/ TimeOut(p)
  BY DEF ClientNext
<1>1. CASE RequestUnsignedTx(p)
  <2>1. PICK pay \in Option(Payment) :
          Request(p, "preparing", "prepareTransaction", pay, None)
    BY <1>1 DEF RequestUnsignedTx, Option
  <2>2. QED
    BY <2>1, RequestKeeps DEF At, Method
<1>2. ASSUME NEW a \in answers, CosignAndSubmit(p, a)
      PROVE  CInv'
  <2>1. "result" \notin a.fields
    BY DEF CInv, AnswersOK
  <2>2. Settle(p, "threw")
    BY <1>2, <2>1 DEF CosignAndSubmit
  <2>3. QED
    BY <2>2, SettleKeeps DEF At
<1>3. ASSUME NEW a \in answers, AppCosign(p, a)
      PROVE  CInv'
  <2>1. Preparing(p, a.id) /\ a.ok
    BY <1>3 DEF AppCosign, Answered, Preparing
  <2>2. a.tx # None
    BY <2>1 DEF CInv, AnswersOK
  <2>3. PICK k \in Key, b \in Blockhash, q \in Payment, id \in Program :
          a.tx[1] = Build(k, b, q, id) /\ OnlyKey(k)
    BY <2>2 DEF CInv, AnswersOK
  <2>4. IsTx(a.tx[1]) /\ Len(a.tx[1].signatures) = 2 /\ keypair # None
    BY <2>3, BuildFacts DEF OnlyKey
  <2>5. PICK tx \in Option(Signings(p, a.tx[1])) :
          Request(p, "cosigning", "cosignTransaction", None, tx)
    BY <1>3 DEF AppCosign
  <2>6. tx # None => IsTx(tx[1])
    <3>1. tx # None => \E x \in Signings(p, a.tx[1]) : tx[1] = x
      BY DEF Option, Some
    <3>2. QED
      BY <2>4, <3>1, SigningsAreTx
  <2>7. None \in Option(Payment)
    BY DEF Option
  <2>8. QED
    BY <2>4, <2>5, <2>6, <2>7, RequestKeeps DEF At, Method
<1>4. ASSUME NEW a \in answers, SubmitSignedTx(p, a)
      PROVE  CInv'
  <2>1. \E at \in {"failed", "returned", "empty"} : Settle(p, at)
    BY <1>4 DEF SubmitSignedTx
  <2>2. QED
    BY <2>1, SettleKeeps DEF At
<1>5. ASSUME NEW k \in Key, NEW b \in Blockhash, PartialSign(p, k, b)
      PROVE  CInv'
  <2>1. CASE Settle(p, "threw")
    BY <2>1, SettleKeeps DEF At
  <2> DEFINE tx == partial_sign_execute_payment(k, b, Asked[p], p, ClientProgram)
  <2>2. CASE Request(p, "cosigning", "cosignTransaction", None, Some(tx))
    <3>1. IsTx(tx) /\ Len(tx.message.account_keys) = 14
      BY PartialSignFacts
    <3> HIDE DEF tx
    <3>2. Some(tx)[1] = tx /\ None \in Option(Payment)
      BY DEF Option, Some
    <3>3. QED
      BY <2>2, <3>1, <3>2, RequestKeeps, SMTT(30) DEF At, Method
  <2>3. QED
    BY <1>5, <2>1, <2>2 DEF PartialSign
<1>6. CASE OtherRequest(p)
  <2>1. PICK m \in {"getBalance", "malformed"} :
          Request(p, "cosigning", m, None, None)
    BY <1>6 DEF OtherRequest
  <2>2. None \in Option(Payment)
    BY DEF Option
  <2>3. QED
    BY <2>1, <2>2, RequestKeeps DEF At, Method
<1>7. CASE TimeOut(p)
  BY <1>7, SettleKeeps DEF TimeOut, At
<1>8. QED
  BY <1>1, <1>2, <1>3, <1>4, <1>5, <1>6, <1>7

-----------------------------------------------------------------------------
(* CoSign: the beacon                                                      *)

\* A call that configures the beacon leaves everything else alone, and never
\* takes its key away.
LEMMA ConfigureKeeps ==
  ASSUME CInv, Configure, ConfigOK', solana_rpc_url' \in BOOLEAN,
         keypair # None => keypair' # None, \A k : OnlyKey(k) => OnlyKey(k)'
  PROVE  CInv'
<1>1. /\ configs < MaxConfigs /\ configs' = configs + 1
      /\ UNCHANGED <<sent, asks, stage, serving, panicked, answers, submitted, refused>>
  BY DEF Configure, clientVars, serverVars
<1>2. configs' \in 0 .. MaxConfigs
  BY <1>1, CoSignBoundsAssumption DEF CInv
<1>3. \A q, i : Preparing(q, i)' <=> Preparing(q, i)
  BY <1>1 DEF Preparing
<1>4. StageOK' /\ RefusedOK' /\ panicked' \in BOOLEAN
  BY <1>1 DEF CInv, StageOK, RefusedOK
<1>5. RequestsOK'
  BY <1>1, <1>3 DEF CInv, RequestsOK
<1>6. ServingOK'
  BY <1>1, <1>3 DEF CInv, ServingOK
<1>7. AnswersOK'
  BY <1>1, <1>3 DEF CInv, AnswersOK
<1>8. SubmittedOK'
  BY <1>1 DEF CInv, SubmittedOK
<1>9. QED
  BY <1>2, <1>4, <1>5, <1>6, <1>7, <1>8 DEF CInv

\* The three calls that configure the beacon.
LEMMA ConfigurationKeeps ==
  ASSUME CInv,
         \/ \E k \in Key : SetKeypair(k)
         \/ SetSolanaRpcUrl
         \/ \E id \in Program : SetProgramId(id)
  PROVE  CInv'
<1>1. ASSUME NEW k \in Key, SetKeypair(k)
      PROVE  CInv'
  <2>1. /\ keypair' = Some(k) /\ Configure
        /\ rekeyed' = (rekeyed \/ keypair \notin {None, Some(k)})
        /\ UNCHANGED <<solana_rpc_url, program_id>>
    BY <1>1 DEF SetKeypair
  <2>2. Some(k) # None /\ ConfigOK' /\ solana_rpc_url' \in BOOLEAN
    BY <2>1 DEF CInv, ConfigOK, Option, Some, None
  <2>3. \A j : OnlyKey(j) => OnlyKey(j)'
    BY <2>1, <2>2 DEF OnlyKey
  <2>4. QED
    BY <2>1, <2>2, <2>3, ConfigureKeeps
<1>2. CASE SetSolanaRpcUrl
  <2>1. Configure /\ solana_rpc_url' = TRUE /\ UNCHANGED <<keypair, program_id, rekeyed>>
    BY <1>2 DEF SetSolanaRpcUrl
  <2>2. QED
    BY <2>1, ConfigureKeeps DEF CInv, ConfigOK, OnlyKey
<1>3. ASSUME NEW id \in Program, SetProgramId(id)
      PROVE  CInv'
  <2>1. /\ Configure /\ program_id' = Some(id)
        /\ UNCHANGED <<keypair, solana_rpc_url, rekeyed>>
    BY <1>3 DEF SetProgramId
  <2>2. ConfigOK' /\ solana_rpc_url' \in BOOLEAN
    BY <2>1 DEF CInv, ConfigOK, Option
  <2>3. QED
    BY <2>1, <2>2, ConfigureKeeps DEF OnlyKey
<1>4. QED
  BY <1>1, <1>2, <1>3

\* A lost request is one less to answer.
LEMMA LoseKeeps ==
  ASSUME CInv, NEW r, LoseRequest(r)
  PROVE  CInv'
<1>1. /\ sent' \subseteq sent
      /\ UNCHANGED <<keypair, solana_rpc_url, program_id, configs, rekeyed, asks, stage,
                     serving, panicked, answers, submitted, refused>>
  BY DEF LoseRequest, configVars, clientVars, serverVars
<1>2. \A q, i : Preparing(q, i)' <=> Preparing(q, i)
  BY <1>1 DEF Preparing
<1>3. RequestsOK'
  BY <1>1, <1>2 DEF CInv, RequestsOK
<1>4. ServingOK' /\ AnswersOK' /\ SubmittedOK'
  BY <1>1, <1>2 DEF CInv, ServingOK, AnswersOK, SubmittedOK, OnlyKey
<1>5. QED
  BY <1>1, <1>3, <1>4 DEF CInv, ConfigOK, StageOK, RefusedOK

\* An answer is of the right kind if its transaction is, and a client that asked
\* for a transaction gets one with a success.
LEMMA ReplyKeeps ==
  ASSUME CInv, NEW id \in 0 .. asks, NEW ok \in BOOLEAN, NEW code, NEW fields, NEW tx,
         Reply(id, ok, code, fields, tx), UNCHANGED <<configVars, clientVars>>,
         "result" \notin fields,
         \A p \in Payment : Preparing(p, id) /\ ok => tx # None,
         tx # None => \E k \in Key, b \in Blockhash, p \in Payment, prog \in Program :
                        tx[1] = Build(k, b, p, prog) /\ OnlyKey(k)
  PROVE  AnswersOK'
<1> DEFINE new(up) == [id |-> id, ok |-> ok, code |-> code, fields |-> fields,
                       tx |-> tx, delivered |-> up]
<1>1. PICK up \in BOOLEAN : answers' = answers \cup {new(up)}
  BY DEF Reply
<1>2. UNCHANGED <<keypair, rekeyed, asks, stage>>
  BY DEF configVars, clientVars
<1>3. /\ \A q, i : Preparing(q, i)' <=> Preparing(q, i)
      /\ \A k : OnlyKey(k)' <=> OnlyKey(k)
  BY <1>2 DEF Preparing, OnlyKey
<1> DEFINE Ok(a) ==
      /\ a.id \in 0 .. asks /\ a.ok \in BOOLEAN /\ a.delivered \in BOOLEAN
      /\ "result" \notin a.fields
      /\ \A p \in Payment : Preparing(p, a.id) /\ a.ok => a.tx # None
      /\ a.tx # None => \E k \in Key, b \in Blockhash, p \in Payment, prog \in Program :
                          a.tx[1] = Build(k, b, p, prog) /\ OnlyKey(k)
<1>4. \A a \in answers : Ok(a)
  BY DEF CInv, AnswersOK
<1>5. Ok(new(up))
  OBVIOUS
<1>6. \A a \in answers' : Ok(a)
  BY <1>1, <1>4, <1>5
<1>7. QED
  BY <1>2, <1>3, <1>6 DEF AnswersOK

\* The receiver is done with a request.
LEMMA FinishKeeps ==
  ASSUME CInv, Finish, AnswersOK', panicked' \in BOOLEAN
  PROVE  CInv'
<1>1. /\ serving' = None
      /\ UNCHANGED <<keypair, solana_rpc_url, program_id, configs, rekeyed, asks, stage,
                     sent, submitted, refused>>
  BY DEF Finish, configVars, clientVars
<1>2. \A q, i : Preparing(q, i)' <=> Preparing(q, i)
  BY <1>1 DEF Preparing
<1>3. RequestsOK'
  BY <1>1, <1>2 DEF CInv, RequestsOK
<1>4. ServingOK' /\ SubmittedOK'
  BY <1>1 DEF CInv, ServingOK, SubmittedOK, OnlyKey
<1>5. QED
  BY <1>1, <1>3, <1>4 DEF CInv, ConfigOK, StageOK, RefusedOK
\* A transaction the receiver accepts is signed by its payer and calls the
\* program of the beacon; signed by the beacon as well, it is good.
LEMMA AcceptedIsGood ==
  ASSUME NEW arg, arg # None, IsTx(arg[1]), NEW program, NEW k \in Key,
         CosignError(arg, program) = 0
  PROVE  Good(sign_tx_at_slot(arg[1], k, 1), program, k)
<1> DEFINE tx == arg[1]
           signed == sign_tx_at_slot(tx, k, 1)
<1>1. Len(tx.signatures) \in Nat
  BY DEF IsTx
<1>2. /\ ~(Len(tx.signatures) < 2)
      /\ verify_slot_signature(tx, tx.message.account_keys[1], 0)
      /\ verify_execute_payment_instruction(tx.message, program)
  BY <1>1 DEF CosignError
<1>3. /\ signed.message = tx.message
      /\ Len(signed.signatures) = Len(tx.signatures)
      /\ \A j \in 1 .. Len(tx.signatures) : j # 1 + 1 =>
           signed.signatures[j] = tx.signatures[j]
      /\ 1 < Len(tx.signatures) =>
           signed.signatures[1 + 1] = SignatureBy(k, tx.message)
  BY Signing
<1> HIDE DEF signed
<1>4. /\ signed.signatures[1] = tx.signatures[1]
      /\ signed.signatures[2] = SignatureBy(k, tx.message)
  BY <1>1, <1>2, <1>3
<1>5. verify_slot_signature(signed, signed.message.account_keys[1], 0)
  BY <1>2, <1>3, <1>4 DEF verify_slot_signature
<1>6. verify_slot_signature(signed, k, 1)
  BY <1>1, <1>2, <1>3, <1>4 DEF verify_slot_signature
<1>7. QED
  BY <1>2, <1>3, <1>5, <1>6 DEF Good, signed

\* What the beacon built and the payer signed is accepted for its program.
LEMMA BuiltIsAccepted ==
  ASSUME NEW arg, arg # None, Built(arg[1].message), Len(arg[1].signatures) = 2,
         verify_slot_signature(arg[1], arg[1].message.account_keys[1], 0)
  PROVE  CosignError(arg, Last(arg[1].message.account_keys)) = 0
<1> DEFINE tx == arg[1]
<1>1. PICK k \in Key, b \in Blockhash, p \in Payment, id \in Program :
        tx.message = Build(k, b, p, id).message
  BY DEF Built
<1>2. /\ Len(tx.message.account_keys) = 12
      /\ verify_execute_payment_instruction(tx.message, Last(tx.message.account_keys))
  BY <1>1, BuildFacts
<1>3. tx.message.account_keys # <<>>
  BY <1>2
<1>4. ~(Len(tx.signatures) < 2)
  OBVIOUS
<1> HIDE DEF tx
<1>5. arg # None /\ verify_slot_signature(tx, tx.message.account_keys[1], 0)
  BY DEF tx
<1>6. QED
  BY <1>2, <1>3, <1>4, <1>5 DEF CosignError, tx

\* What an option holds.
LEMMA OptionHolds ==
  ASSUME NEW S, NEW o \in Option(S), o # None
  PROVE  o[1] \in S /\ o = Some(o[1])
BY DEF Option, Some

\* The receiver takes a request.
LEMMA TakeKeeps ==
  ASSUME CInv, NEW r \in sent, TakeRequest(r)
  PROVE  CInv'
<1> USE DEF Method
<1>1. /\ UNCHANGED <<keypair, solana_rpc_url, program_id, configs, rekeyed, asks, stage,
                     panicked, submitted>>
      /\ sent' \subseteq sent
  BY DEF TakeRequest, configVars, clientVars
<1>2. /\ \A q, i : Preparing(q, i)' <=> Preparing(q, i)
      /\ \A k : OnlyKey(k)' <=> OnlyKey(k)
  BY <1>1 DEF Preparing, OnlyKey
<1>3. /\ RequestsOK' /\ SubmittedOK' /\ StageOK' /\ ConfigOK'
      /\ (configs \in 0 .. MaxConfigs /\ solana_rpc_url \in BOOLEAN /\ panicked \in BOOLEAN)'
  BY <1>1, <1>2 DEF CInv, RequestsOK, SubmittedOK, StageOK, ConfigOK
<1>4. /\ r.id \in 1 .. asks /\ r.method \in Method /\ r.pay \in Option(Payment)
      /\ r.tx # None =>
           /\ r.method = "cosignTransaction" /\ IsTx(r.tx[1])
           /\ Len(r.tx[1].message.account_keys) = 12 => keypair # None
      /\ \A q \in Payment : Preparing(q, r.id) => r.method = "prepareTransaction"
  BY DEF CInv, RequestsOK
<1>5. keypair \in Option(Key) /\ program_id \in Option(Program) /\ asks \in Nat
  BY CoSignBoundsAssumption DEF CInv, ConfigOK, StageOK
<1>6. CASE UNCHANGED <<answers, serving, refused>>
  BY <1>1, <1>2, <1>3, <1>6 DEF CInv, AnswersOK, ServingOK, RefusedOK
<1>7. CASE /\ RequestError(r) # 0
           /\ error_response(IF r.method = "malformed" THEN 0 ELSE r.id, RequestError(r))
           /\ refused' = refused \cup
                (IF r.tx # None /\ program_id # None
                   THEN {[tx |-> r.tx[1], program |-> program_id[1]]} ELSE {})
           /\ UNCHANGED serving
  <2>1. PICK id \in 0 .. asks : Reply(id, FALSE, RequestError(r), {}, None)
    <3>1. (IF r.method = "malformed" THEN 0 ELSE r.id) \in 0 .. asks
      BY <1>4, <1>5
    <3>2. QED
      BY <1>7, <3>1 DEF error_response
  <2>2. AnswersOK'
    BY <1>1, <2>1, ReplyKeeps DEF configVars, clientVars
  <2>3. ServingOK'
    BY <1>1, <1>2, <1>7 DEF CInv, ServingOK
  <2>4. ASSUME r.tx # None, program_id # None, Built(r.tx[1].message),
               Len(r.tx[1].signatures) = 2,
               verify_slot_signature(r.tx[1], r.tx[1].message.account_keys[1], 0),
               program_id[1] = Last(r.tx[1].message.account_keys)
        PROVE  FALSE
    <3>1. CosignError(r.tx, program_id[1]) = 0
      BY <2>4, BuiltIsAccepted
    <3>2. Len(r.tx[1].message.account_keys) = 12
      BY <2>4, BuildFacts DEF Built
    <3>3. RequestError(r) = 0
      BY <1>4, <2>4, <3>1, <3>2 DEF RequestError
    <3>4. QED
      BY <1>7, <3>3
  <2>5. RefusedOK'
    <3> SUFFICES ASSUME NEW f \in refused', Built(f.tx.message), Len(f.tx.signatures) = 2,
                        verify_slot_signature(f.tx, f.tx.message.account_keys[1], 0),
                        f.program = Last(f.tx.message.account_keys)
                 PROVE  FALSE
      BY DEF RefusedOK
    <3>1. f \notin refused
      BY DEF CInv, RefusedOK
    <3>2. /\ r.tx # None /\ program_id # None
          /\ f = [tx |-> r.tx[1], program |-> program_id[1]]
      BY <1>7, <3>1
    <3>3. f.tx = r.tx[1] /\ f.program = program_id[1]
      BY <3>2
    <3>4. QED
      BY <2>4, <3>2, <3>3
  <2>6. QED
    BY <1>3, <2>2, <2>3, <2>5 DEF CInv
<1>8. CASE /\ RequestError(r) = 0
           /\ serving' = Some([req |-> r, keypair |-> keypair, program_id |-> program_id,
                               tx |-> IF r.tx = None THEN None
                                      ELSE Some(sign_tx_at_slot(r.tx[1], keypair[1], 1)),
                               reached |-> FALSE])
           /\ UNCHANGED <<answers, refused>>
  <2> DEFINE tx == IF r.tx = None THEN None
                   ELSE Some(sign_tx_at_slot(r.tx[1], keypair[1], 1))
             s == [req |-> r, keypair |-> keypair, program_id |-> program_id, tx |-> tx,
                   reached |-> FALSE]
  <2>1. serving' # None /\ serving'[1] = s
    BY <1>8 DEF Some, None
  <2>2. AnswersOK' /\ RefusedOK'
    BY <1>1, <1>2, <1>8 DEF CInv, AnswersOK, RefusedOK
  <2>3. r.method \in Method \ {"malformed"}
    BY <1>4, <1>8 DEF RequestError
  <2>4. ASSUME r.method # "getBalance"
        PROVE  \E k \in Key, id \in Program :
                 /\ keypair = Some(k) /\ program_id = Some(id) /\ OnlyKey(k)
                 /\ r.tx # None => Good(sign_tx_at_slot(r.tx[1], keypair[1], 1), id, k)
    <3>1. keypair # None /\ program_id # None
      BY <1>8, <2>3, <2>4 DEF RequestError
    <3>2. PICK k \in Key, id \in Program : keypair = Some(k) /\ program_id = Some(id)
      BY <1>5, <3>1 DEF Option
    <3>3. keypair[1] = k /\ program_id[1] = id
      BY <3>2 DEF Some
    <3>4. OnlyKey(k)
      BY <3>1, <3>2 DEF OnlyKey
    <3>5. ASSUME r.tx # None
          PROVE  Good(sign_tx_at_slot(r.tx[1], k, 1), id, k)
      <4>1. CosignError(r.tx, id) = 0
        BY <1>4, <1>8, <3>1, <3>3, <3>5 DEF RequestError
      <4>2. QED
        BY <1>4, <3>5, <4>1, AcceptedIsGood
    <3>6. QED
      BY <3>2, <3>3, <3>4, <3>5
  <2>5. r.method = "prepareTransaction" => \E p \in Payment : r.pay = Some(p)
    <3>1. r.method = "prepareTransaction" => r.pay # None
      BY <1>8, <2>4 DEF RequestError, Some, None
    <3>2. QED
      BY <1>4, <3>1 DEF Option
  <2> DEFINE signed == sign_tx_at_slot(r.tx[1], keypair[1], 1)
  <2>6. tx # None <=> r.tx # None
    BY DEF Some, None
  <2>7. tx # None => tx[1] = signed
    BY DEF Some, None
  <2>8. /\ s.req = r /\ s.keypair = keypair /\ s.program_id = program_id /\ s.tx = tx
        /\ s = [req |-> s.req, keypair |-> s.keypair, program_id |-> s.program_id,
                tx |-> s.tx, reached |-> s.reached]
    OBVIOUS
  <2> HIDE DEF tx, s, signed
  <2>9. s.req.method # "getBalance" =>
          \E k \in Key, id \in Program :
            /\ s.keypair = Some(k) /\ s.program_id = Some(id) /\ OnlyKey(k)
            /\ s.tx # None => Good(s.tx[1], id, k)
    BY <2>4, <2>6, <2>7, <2>8 DEF signed
  <2>10. ServingOK'
    BY <1>1, <1>2, <1>4, <2>1, <2>3, <2>5, <2>6, <2>8, <2>9 DEF ServingOK
  <2>11. QED
    BY <1>3, <2>2, <2>10 DEF CInv
<1>9. QED
  BY <1>6, <1>7, <1>8 DEF TakeRequest
\* A request that is served keeps its other fields when the call gets through.
LEMMA Reaching ==
  ASSUME NEW s, NEW v,
         s = [req |-> s.req, keypair |-> s.keypair, program_id |-> s.program_id,
              tx |-> s.tx, reached |-> s.reached]
  PROVE  [s EXCEPT !.reached = v]
           = [req |-> s.req, keypair |-> s.keypair, program_id |-> s.program_id,
              tx |-> s.tx, reached |-> v]
OBVIOUS

\* The steps of a call over HTTP.
LEMMA HttpKeeps ==
  ASSUME CInv, HttpNext
  PROVE  CInv'
<1> DEFINE s == serving[1]
<1>1. /\ serving # None
      /\ s = [req |-> s.req, keypair |-> s.keypair, program_id |-> s.program_id,
              tx |-> s.tx, reached |-> s.reached]
      /\ s.req.id \in 1 .. asks
      /\ s.req.method \in Method \ {"malformed"}
      /\ \A p \in Payment : Preparing(p, s.req.id) => s.req.method = "prepareTransaction"
      /\ s.req.method # "getBalance" =>
           \E k \in Key, id \in Program :
             /\ s.keypair = Some(k) /\ s.program_id = Some(id) /\ OnlyKey(k)
             /\ s.tx # None => Good(s.tx[1], id, k)
      /\ s.req.method = "prepareTransaction" => \E p \in Payment : s.req.pay = Some(p)
      /\ s.tx # None => s.req.method = "cosignTransaction"
  <2>1. serving # None
    <3>1. CASE PostJson
      BY <3>1 DEF PostJson
    <3>2. CASE HttpFails
      BY <3>2 DEF HttpFails
    <3>3. CASE \E b \in Blockhash : PrepareTransaction(b)
      BY <3>3 DEF PrepareTransaction
    <3>4. CASE RewrapResponse \/ RewrapPanics
      BY <3>4 DEF RewrapResponse, RewrapPanics
    <3>5. QED
      BY <3>1, <3>2, <3>3, <3>4 DEF HttpNext
  <2>2. QED
    BY <2>1 DEF CInv, ServingOK
<1>2. s.req.id \in 0 .. asks
  BY <1>1, CoSignBoundsAssumption DEF CInv, StageOK
<1>3. panicked \in BOOLEAN
  BY DEF CInv
<1>4. CASE PostJson
  <2> DEFINE t == [s EXCEPT !.reached = TRUE]
  <2>1. /\ serving' = Some(t)
        /\ submitted' = submitted \cup
             (IF s.tx = None THEN {}
              ELSE {[tx |-> s.tx[1], program |-> s.program_id[1]]})
        /\ UNCHANGED <<keypair, solana_rpc_url, program_id, configs, rekeyed, sent, asks,
                       stage, panicked, answers, refused>>
    BY <1>4 DEF PostJson, configVars, clientVars
  <2>2. /\ \A q, i : Preparing(q, i)' <=> Preparing(q, i)
        /\ \A k : OnlyKey(k)' <=> OnlyKey(k)
    BY <2>1 DEF Preparing, OnlyKey
  <2> HIDE DEF s
  <2>3. /\ t = [req |-> t.req, keypair |-> t.keypair, program_id |-> t.program_id,
                tx |-> t.tx, reached |-> t.reached]
        /\ t.req = s.req /\ t.keypair = s.keypair /\ t.program_id = s.program_id
        /\ t.tx = s.tx
    <3>1. t = [req |-> s.req, keypair |-> s.keypair, program_id |-> s.program_id,
               tx |-> s.tx, reached |-> TRUE]
      <4>1. s = [req |-> s.req, keypair |-> s.keypair, program_id |-> s.program_id,
                 tx |-> s.tx, reached |-> s.reached]
        BY <1>1
      <4>2. QED
        BY <4>1, Reaching, Zenon
    <3>2. QED
      BY <3>1
  <2> HIDE DEF t
  <2>4. serving' # None /\ serving'[1] = t
    BY <2>1 DEF Some, None
  <2>5. ServingOK'
    BY <1>1, <2>1, <2>2, <2>3, <2>4 DEF ServingOK
  <2>6. ASSUME s.tx # None
        PROVE  \E k \in Key : Good(s.tx[1], s.program_id[1], k) /\ OnlyKey(k)
    BY <1>1, <2>6 DEF Some
  <2>7. SubmittedOK'
    <3> SUFFICES ASSUME NEW x \in submitted'
                 PROVE  \E k \in Key : Good(x.tx, x.program, k) /\ OnlyKey(k)
      BY <2>2 DEF SubmittedOK
    <3>1. CASE x \in submitted
      BY <3>1 DEF CInv, SubmittedOK
    <3>2. CASE s.tx # None /\ x = [tx |-> s.tx[1], program |-> s.program_id[1]]
      <4>1. x.tx = s.tx[1] /\ x.program = s.program_id[1]
        BY <3>2
      <4>2. QED
        BY <2>6, <3>2, <4>1
    <3>3. QED
      BY <2>1, <3>1, <3>2
  <2>8. RequestsOK' /\ AnswersOK'
    BY <2>1, <2>2 DEF CInv, RequestsOK, AnswersOK
  <2>9. QED
    BY <2>1, <2>5, <2>7, <2>8 DEF CInv, ConfigOK, StageOK, RefusedOK
<1>5. CASE HttpFails
  <2>1. PICK code : Reply(s.req.id, FALSE, code, {}, None)
    <3>1. PICK code : error_response(s.req.id, code)
      BY <1>5 DEF HttpFails
    <3>2. QED
      BY <3>1 DEF error_response
  <2>2. Finish /\ UNCHANGED <<panicked, configVars, clientVars>>
    BY <1>5 DEF HttpFails, Finish
  <2> HIDE DEF s
  <2>3. AnswersOK'
    BY <1>2, <2>1, <2>2, ReplyKeeps
  <2>4. QED
    BY <1>3, <2>2, <2>3, FinishKeeps
<1>6. ASSUME NEW b \in Blockhash, PrepareTransaction(b)
      PROVE  CInv'
  <2> DEFINE tx == build_unsigned_execute_payment(s.keypair[1], b, Asked[s.req.pay[1]],
                                                  s.req.pay[1], s.program_id[1])
             fields == {"unsignedTxB64"}
             given == Some(tx)
  <2>1. /\ s.req.method = "prepareTransaction"
        /\ \/ \E code : Reply(s.req.id, FALSE, code, {}, None)
           \/ \E ok \in BOOLEAN : Reply(s.req.id, ok, 0, fields, given)
    <3> DEFINE bad == HasBadHex(s.req.pay[1], AccountName \ {"nonce_account"})
    <3>1. s.req.method = "prepareTransaction"
      BY <1>6 DEF PrepareTransaction
    <3>2. ASSUME bad
          PROVE  \E code : Reply(s.req.id, FALSE, code, {}, None)
      <4>1. PICK code : error_response(s.req.id, code)
        BY <1>6, <3>2 DEF PrepareTransaction
      <4>2. QED
        BY <4>1 DEF error_response
    <3>3. ASSUME ~bad
          PROVE  \E ok \in BOOLEAN : Reply(s.req.id, ok, 0, fields, given)
      <4>1. Reply(s.req.id, TRUE, 0, fields, given)
        BY <1>6, <3>3 DEF PrepareTransaction, Reply
      <4>2. QED
        BY <4>1
    <3> HIDE DEF bad
    <3>4. QED
      BY <3>1, <3>2, <3>3
  <2>2. Finish /\ UNCHANGED <<panicked, configVars, clientVars>>
    BY <1>6 DEF PrepareTransaction, Finish
  <2>3. PICK k \in Key, id \in Program, p \in Payment :
          /\ s.keypair = Some(k) /\ s.program_id = Some(id) /\ OnlyKey(k)
          /\ s.req.pay = Some(p)
    BY <1>1, <2>1
  <2>4. given # None /\ given[1] = Build(k, b, p, id)
    BY <2>3 DEF Build, Some, None
  <2>5. "result" \notin fields
    OBVIOUS
  <2> HIDE DEF s, tx, given, fields
  <2>6. ASSUME \E code : Reply(s.req.id, FALSE, code, {}, None)
        PROVE  AnswersOK'
    <3>1. PICK code : Reply(s.req.id, FALSE, code, {}, None)
      BY <2>6
    <3>2. QED
      BY <1>2, <2>2, <3>1, ReplyKeeps
  <2>7. ASSUME NEW ok \in BOOLEAN, Reply(s.req.id, ok, 0, fields, given)
        PROVE  AnswersOK'
    <3>1. \E j \in Key, c \in Blockhash, q \in Payment, prog \in Program :
            given[1] = Build(j, c, q, prog) /\ OnlyKey(j)
      BY <2>3, <2>4
    <3>2. QED
      BY <1>2, <2>2, <2>4, <2>5, <2>7, <3>1, ReplyKeeps
  <2>8. AnswersOK'
    BY <2>1, <2>6, <2>7
  <2>9. QED
    BY <1>3, <2>2, <2>8, FinishKeeps
<1>7. CASE RewrapResponse
  <2>1. PICK ok \in BOOLEAN : \E code : Reply(s.req.id, ok, code, {}, None)
    BY <1>7 DEF RewrapResponse
  <2>2. Finish /\ UNCHANGED <<panicked, configVars, clientVars>>
    BY <1>7 DEF RewrapResponse, Finish
  <2>3. \A p \in Payment : ~Preparing(p, s.req.id)
    BY <1>1, <1>7 DEF RewrapResponse
  <2> HIDE DEF s
  <2>4. AnswersOK'
    BY <1>2, <2>1, <2>2, <2>3, ReplyKeeps
  <2>5. QED
    BY <1>3, <2>2, <2>4, FinishKeeps
<1>8. CASE RewrapPanics
  <2>1. Finish /\ panicked' = TRUE /\ UNCHANGED answers
    BY <1>8 DEF RewrapPanics
  <2>2. UNCHANGED <<keypair, rekeyed, asks, stage>>
    BY <2>1 DEF Finish, configVars, clientVars
  <2>3. /\ \A q, i : Preparing(q, i)' <=> Preparing(q, i)
        /\ \A k : OnlyKey(k)' <=> OnlyKey(k)
    BY <2>2 DEF Preparing, OnlyKey
  <2>4. AnswersOK'
    BY <2>1, <2>2, <2>3 DEF CInv, AnswersOK
  <2>5. QED
    BY <2>1, <2>4, FinishKeeps
<1>9. QED
  BY <1>4, <1>5, <1>6, <1>7, <1>8 DEF HttpNext

\* A stop drops what the receiver serves and some of the requests.
LEMMA StopKeeps ==
  ASSUME CInv, NEW lost, StopServing(lost)
  PROVE  CInv'
<1>1. /\ serving' = None /\ panicked' = FALSE /\ sent' \subseteq sent
      /\ UNCHANGED <<keypair, solana_rpc_url, program_id, configs, rekeyed, asks, stage,
                     answers, submitted, refused>>
  BY DEF StopServing, configVars, clientVars
<1>2. /\ \A q, i : Preparing(q, i)' <=> Preparing(q, i)
      /\ \A k : OnlyKey(k)' <=> OnlyKey(k)
  BY <1>1 DEF Preparing, OnlyKey
<1>3. RequestsOK'
  BY <1>1, <1>2 DEF CInv, RequestsOK
<1>4. ServingOK' /\ AnswersOK' /\ SubmittedOK'
  BY <1>1, <1>2 DEF CInv, ServingOK, AnswersOK, SubmittedOK
<1>5. QED
  BY <1>1, <1>3, <1>4 DEF CInv, ConfigOK, StageOK, RefusedOK

\* CInv holds along every behaviour of CoSign.
LEMMA CInvHolds == CoSignSpec => []CInv
<1>1. ASSUME CInv, [CoSignNext]_cosignVars
      PROVE  CInv'
  <2>1. CASE UNCHANGED cosignVars
    <3>1. UNCHANGED <<keypair, solana_rpc_url, program_id, configs, rekeyed, asks, stage,
                      sent, serving, panicked, answers, submitted, refused>>
      BY <2>1 DEF cosignVars, configVars, clientVars, serverVars
    <3>2. /\ \A q, i : Preparing(q, i)' <=> Preparing(q, i)
          /\ \A k : OnlyKey(k)' <=> OnlyKey(k)
      BY <3>1 DEF Preparing, OnlyKey
    <3>3. RequestsOK' /\ ServingOK' /\ AnswersOK' /\ SubmittedOK'
      BY <1>1, <3>1, <3>2 DEF CInv, RequestsOK, ServingOK, AnswersOK, SubmittedOK
    <3>4. QED
      BY <1>1, <3>1, <3>3 DEF CInv, ConfigOK, StageOK, RefusedOK
  <2>2. QED
    BY <1>1, <2>1, ConfigurationKeeps, ClientKeeps, LoseKeeps, TakeKeeps, HttpKeeps,
       StopKeeps DEF CoSignNext
<1>2. QED
  BY InitCInv, <1>1, PTL DEF CoSignSpec
-----------------------------------------------------------------------------
(* The channels                                                            *)

\* A sequence is one of its own elements.
LEMMA OfItsElements ==
  ASSUME NEW S, NEW s \in Seq(S)
  PROVE  s \in Seq(ToSet(s)) /\ ToSet(s) \subseteq S
BY DEF ToSet

\* What a channel holds once its first entry is taken.
LEMMA Taking ==
  ASSUME NEW S, NEW s \in Seq(S), s # <<>>
  PROVE  /\ Tail(s) \in Seq(S) /\ Len(Tail(s)) = Len(s) - 1
         /\ Head(s) = s[1] /\ s[1] \in S /\ 1 \in 1 .. Len(s) /\ Len(s) \in Nat
         /\ \A i \in 1 .. Len(Tail(s)) : i + 1 \in 1 .. Len(s) /\ Tail(s)[i] = s[i + 1]
<1>1. Len(s) \in Nat /\ Len(s) # 0
  OBVIOUS
<1>2. Tail(s) \in Seq(S) /\ Len(Tail(s)) = Len(s) - 1
  BY HeadTailProperties
<1>3. \A i \in 1 .. Len(s) - 1 : Tail(s)[i] = s[i + 1]
  OBVIOUS
<1>4. QED
  BY <1>1, <1>2, <1>3

\* What a channel holds once x entered it: the old entries, or all but the first
\* where it was full, and x.
LEMMA Pushing ==
  ASSUME NEW S, NEW s \in Seq(S), Len(s) <= RxCap, NEW x \in S
  PROVE  LET full == Len(s) = RxCap
             t == Append(IF full THEN Tail(s) ELSE s, x)
             d == IF full THEN 1 ELSE 0
         IN
         /\ t \in Seq(S) /\ Len(t) = Len(s) - d + 1 /\ Len(t) <= RxCap
         /\ \A i \in 1 .. Len(t) - 1 : i + d \in 1 .. Len(s) /\ t[i] = s[i + d]
         /\ t[Len(t)] = x
         /\ full => s # <<>> /\ Head(s) = s[1]
<1> DEFINE full == Len(s) = RxCap
           t == Append(IF full THEN Tail(s) ELSE s, x)
<1>1. Len(s) \in Nat /\ RxCap \in Nat \ {0}
  BY InboundBoundsAssumption
<1>2. CASE full
  <2>1. s # <<>>
    BY <1>1, <1>2
  <2>2. /\ Tail(s) \in Seq(S) /\ Len(Tail(s)) = Len(s) - 1
        /\ Head(s) = s[1] /\ s[1] \in S
        /\ \A i \in 1 .. Len(Tail(s)) : i + 1 \in 1 .. Len(s) /\ Tail(s)[i] = s[i + 1]
    BY <2>1, Taking
  <2>3. /\ t \in Seq(S) /\ Len(t) = Len(Tail(s)) + 1
        /\ \A i \in 1 .. Len(Tail(s)) : t[i] = Tail(s)[i]
        /\ t[Len(Tail(s)) + 1] = x
    BY <1>2, <2>2, AppendProperties
  <2> HIDE DEF t
  <2>4. QED
    BY <1>1, <1>2, <2>1, <2>2, <2>3 DEF t
<1>3. CASE ~full
  <2>1. /\ t \in Seq(S) /\ Len(t) = Len(s) + 1
        /\ \A i \in 1 .. Len(s) : t[i] = s[i]
        /\ t[Len(s) + 1] = x
    BY <1>3, AppendProperties
  <2> HIDE DEF t
  <2>2. QED
    BY <1>1, <1>3, <2>1 DEF t
<1>4. QED
  BY <1>2, <1>3

\* The channels of the data, resource and group receivers are the three.
LEMMA Channels == \A c : c \in Channel <=> c \in {"data", "resource", "group"}
BY DEF Channel

\* A step that changes only requests which are in no channel.
LEMMA RequestsElsewhere ==
  ASSUME RxShape, RxOK, rx' = rx,
         \A r \in sent : r \in ToSet(rx.data) => r \in sent'
  PROVE  RxShape' /\ RxOK'
<1>1. RxShape'
  BY DEF RxShape
<1>2. \A i \in DOMAIN rx.data : rx.data[i] \in ToSet(rx.data)
  BY DEF RxShape, ToSet
<1>3. RxOK'
  BY <1>2 DEF RxOK
<1>4. QED
  BY <1>1, <1>3

\* The receiver takes the first entry of a channel; if it is a request, it is
\* no longer on its way.
LEMMA TakingKeeps ==
  ASSUME RxShape, RxOK, NEW c \in Channel, rx[c] # <<>>, Take(c),
         sent' = sent \/ (c = "data" /\ sent' = sent \ {Head(rx.data)})
  PROVE  RxShape' /\ RxOK'
<1>1. rx' = [rx EXCEPT ![c] = Tail(rx[c])]
  BY DEF Take
<1>2. /\ rx = [x \in Channel |-> rx[x]]
      /\ \A x \in Channel \ {"data"} : rx[x] \in Seq(Msg)
      /\ rx.data \in Seq(ToSet(rx.data))
      /\ \A x \in Channel : Len(rx[x]) <= RxCap
  BY DEF RxShape
<1>3. /\ rx' = [x \in Channel |-> rx'[x]]
      /\ rx'[c] = Tail(rx[c]) /\ \A x \in Channel \ {c} : rx'[x] = rx[x]
  BY <1>1, <1>2
<1>4. CASE c # "data"
  <2>1. /\ Tail(rx[c]) \in Seq(Msg) /\ Len(Tail(rx[c])) = Len(rx[c]) - 1 /\ Len(rx[c]) \in Nat
    BY <1>2, <1>4, Taking
  <2>2. Len(Tail(rx[c])) <= RxCap
    BY <1>2, <2>1, InboundBoundsAssumption
  <2>3. rx'.data = rx.data
    BY <1>3, <1>4, Channels
  <2>4. RxShape'
    <3>1. \A x \in Channel \ {"data"} : rx'[x] \in Seq(Msg)
      BY <1>2, <1>3, <2>1
    <3>2. \A x \in Channel : Len(rx'[x]) <= RxCap
      BY <1>2, <1>3, <2>2
    <3>3. QED
      BY <1>2, <1>3, <2>3, <3>1, <3>2 DEF RxShape
  <2>5. RxOK'
    BY <1>4, <2>3 DEF RxOK
  <2>6. QED
    BY <2>4, <2>5
<1>5. CASE c = "data"
  <2> DEFINE s == rx.data
             t == Tail(s)
  <2>1. /\ t \in Seq(ToSet(s)) /\ Len(t) = Len(s) - 1
        /\ Head(s) = s[1] /\ 1 \in 1 .. Len(s) /\ Len(s) \in Nat
        /\ \A i \in 1 .. Len(t) : i + 1 \in 1 .. Len(s) /\ t[i] = s[i + 1]
    BY <1>2, <1>5, Taking
  <2>2. rx'.data = t /\ \A x \in Channel \ {"data"} : rx'[x] = rx[x]
    BY <1>3, <1>5
  <2>3. t \in Seq(ToSet(t)) /\ DOMAIN t = 1 .. Len(t) /\ DOMAIN s = 1 .. Len(s)
    BY <1>2, <2>1, OfItsElements
  <2>4. Len(t) <= RxCap
    BY <1>2, <2>1, Channels, InboundBoundsAssumption
  <2>5. \A i \in DOMAIN s : s[i] \notin Msg =>
          s[i] \in sent /\ \A j \in DOMAIN s : s[i] = s[j] => i = j
    BY DEF RxOK
  <2>6. sent' = sent \/ sent' = sent \ {s[1]}
    BY <2>1
  <2> HIDE DEF s, t
  <2>7. RxShape'
    <3>1. \A x \in Channel \ {"data"} : rx'[x] \in Seq(Msg)
      BY <1>2, <2>2
    <3>2. \A x \in Channel : Len(rx'[x]) <= RxCap
      BY <1>2, <2>2, <2>4
    <3>3. QED
      BY <1>3, <2>2, <2>3, <3>1, <3>2 DEF RxShape
  <2>8. RxOK'
    <3>1. \A i \in 1 .. Len(t) : t[i] \notin Msg =>
            t[i] \in sent' /\ \A j \in 1 .. Len(t) : t[i] = t[j] => i = j
      <4> SUFFICES ASSUME NEW i \in 1 .. Len(t), t[i] \notin Msg
                   PROVE  t[i] \in sent' /\ \A j \in 1 .. Len(t) : t[i] = t[j] => i = j
        OBVIOUS
      <4>1. t[i] = s[i + 1] /\ i + 1 \in 1 .. Len(s) /\ i + 1 # 1
        BY <2>1
      <4>2. t[i] \in sent /\ \A j \in 1 .. Len(s) : t[i] = s[j] => i + 1 = j
        BY <2>3, <2>5, <4>1
      <4>3. t[i] # s[1]
        BY <2>1, <4>1, <4>2
      <4>4. ASSUME NEW j \in 1 .. Len(t), t[i] = t[j]
            PROVE  i = j
        <5>1. t[j] = s[j + 1] /\ j + 1 \in 1 .. Len(s)
          BY <2>1
        <5>2. i + 1 = j + 1
          BY <4>2, <4>4, <5>1
        <5>3. QED
          BY <5>2
      <4>5. QED
        BY <2>6, <4>2, <4>3, <4>4
    <3>2. QED
      BY <2>2, <2>3, <3>1 DEF RxOK
  <2>9. QED
    BY <2>7, <2>8
<1>6. QED
  BY <1>4, <1>5
\* x enters a channel, and an overwritten request is no longer on its way.
LEMMA PushingKeeps ==
  ASSUME RxShape, RxOK, NEW c \in Channel, NEW x, Push(c, x),
         sent' = sent \ Overwritten(c),
         x \in Msg \/ (c = "data" /\ x \in sent /\ x \notin ToSet(rx.data))
  PROVE  RxShape' /\ RxOK'
<1>1. /\ rx = [y \in Channel |-> rx[y]]
      /\ \A y \in Channel \ {"data"} : rx[y] \in Seq(Msg)
      /\ rx.data \in Seq(ToSet(rx.data))
      /\ \A y \in Channel : Len(rx[y]) <= RxCap
  BY DEF RxShape
<1> DEFINE s == rx[c]
           full == Len(s) = RxCap
           t == Append(IF full THEN Tail(s) ELSE s, x)
           d == IF full THEN 1 ELSE 0
<1>2. rx' = [rx EXCEPT ![c] = t]
  BY DEF Push, Lagging
<1>3. /\ rx' = [y \in Channel |-> rx'[y]]
      /\ rx'[c] = t /\ \A y \in Channel \ {c} : rx'[y] = rx[y]
  BY <1>1, <1>2
<1>4. ASSUME NEW S, s \in Seq(S), x \in S
      PROVE  /\ t \in Seq(S) /\ Len(t) = Len(s) - d + 1 /\ Len(t) <= RxCap
             /\ \A i \in 1 .. Len(t) - 1 : i + d \in 1 .. Len(s) /\ t[i] = s[i + d]
             /\ t[Len(t)] = x
             /\ full => s # <<>> /\ Head(s) = s[1]
  BY <1>1, <1>4, Pushing
<1>5. CASE c # "data"
  <2>1. t \in Seq(Msg) /\ Len(t) <= RxCap
    BY <1>1, <1>4, <1>5
  <2>2. rx'.data = rx.data
    BY <1>3, <1>5, Channels
  <2>3. Overwritten(c) \subseteq Msg
    <3>1. CASE full
      <4>1. s \in Seq(Msg) /\ s # <<>>
        BY <1>1, <1>4, <1>5, <3>1
      <4>2. Head(s) \in Msg
        BY <4>1
      <4>3. QED
        BY <4>2 DEF Overwritten
    <3>2. CASE ~full
      BY <3>2 DEF Overwritten, Lagging
    <3>3. QED
      BY <3>1, <3>2
  <2> HIDE DEF s, t, d, full
  <2>4. RxShape'
    <3>1. \A y \in Channel \ {"data"} : rx'[y] \in Seq(Msg)
      BY <1>1, <1>3, <2>1
    <3>2. \A y \in Channel : Len(rx'[y]) <= RxCap
      BY <1>1, <1>3, <2>1
    <3>3. QED
      BY <1>1, <1>3, <2>2, <3>1, <3>2 DEF RxShape
  <2>5. RxOK'
    BY <2>2, <2>3 DEF RxOK
  <2>6. QED
    BY <2>4, <2>5
<1>6. CASE c = "data"
  <2> DEFINE S == ToSet(s) \cup {x}
  <2>1. s = rx.data /\ s \in Seq(S) /\ x \in S
    BY <1>1, <1>6
  <2>2. /\ t \in Seq(S) /\ Len(t) = Len(s) - d + 1 /\ Len(t) <= RxCap
        /\ \A i \in 1 .. Len(t) - 1 : i + d \in 1 .. Len(s) /\ t[i] = s[i + d]
        /\ t[Len(t)] = x
        /\ full => s # <<>> /\ Head(s) = s[1]
    <3> HIDE DEF S, t, d, full, s
    <3>1. QED
      BY <1>4, <2>1
  <2>3. t \in Seq(ToSet(t)) /\ DOMAIN t = 1 .. Len(t) /\ DOMAIN s = 1 .. Len(s)
    <3> HIDE DEF S, t, s
    <3>1. t \in Seq(S) /\ s \in Seq(S)
      BY <2>1, <2>2
    <3>2. DOMAIN t = 1 .. Len(t) /\ DOMAIN s = 1 .. Len(s)
      BY <3>1
    <3>3. t \in Seq(ToSet(t))
      BY <3>1, OfItsElements, Zenon
    <3>4. QED
      BY <3>2, <3>3
  <2>4. \A i \in DOMAIN s : s[i] \notin Msg =>
          s[i] \in sent /\ \A j \in DOMAIN s : s[i] = s[j] => i = j
    BY <2>1 DEF RxOK
  <2>5. sent' = sent \/ (full /\ sent' = sent \ {s[1]})
    <3>1. CASE full
      BY <2>2, <3>1 DEF Overwritten
    <3>2. CASE ~full
      BY <3>2 DEF Overwritten, Lagging
    <3>3. QED
      BY <3>1, <3>2
  <2>6. x \in Msg \/ (x \in sent /\ x \notin ToSet(s))
    BY <2>1
  <2>7. /\ Len(t) \in Nat /\ Len(s) \in Nat /\ d \in {0, 1}
        /\ \A i \in 1 .. Len(s) : s[i] \in ToSet(s)
        /\ full => d = 1
        /\ s # <<>> => 1 \in 1 .. Len(s)
    BY <2>1, <2>2 DEF ToSet
  <2>8. rx'.data = t /\ \A y \in Channel \ {"data"} : rx'[y] = rx[y]
    BY <1>3, <1>6
  <2> HIDE DEF s, t, d, full, S
  <2>9. RxShape'
    <3>1. \A y \in Channel \ {"data"} : rx'[y] \in Seq(Msg)
      BY <1>1, <2>8
    <3>2. \A y \in Channel : Len(rx'[y]) <= RxCap
      BY <1>1, <2>2, <2>8
    <3>3. QED
      BY <1>3, <2>3, <2>8, <3>1, <3>2 DEF RxShape
  <2>10. ASSUME NEW i \in 1 .. Len(t) - 1, t[i] \notin Msg
         PROVE  t[i] \in sent' /\ \A j \in 1 .. Len(t) : t[i] = t[j] => i = j
    <3>1. t[i] = s[i + d] /\ i + d \in 1 .. Len(s)
      BY <2>2
    <3>2. t[i] \in sent /\ \A j \in 1 .. Len(s) : t[i] = s[j] => i + d = j
      BY <2>3, <2>4, <2>10, <3>1
    <3>3. t[i] \in sent'
      <4>1. CASE full
        <5>1. i + d # 1 /\ 1 \in 1 .. Len(s)
          BY <2>2, <2>7, <4>1
        <5>2. t[i] # s[1]
          BY <3>2, <5>1
        <5>3. QED
          BY <2>5, <3>2, <5>2
      <4>2. QED
        BY <2>5, <3>2, <4>1
    <3>4. t[i] # x
      BY <2>6, <2>7, <2>10, <3>1
    <3>5. ASSUME NEW j \in 1 .. Len(t), t[i] = t[j]
          PROVE  i = j
      <4>1. j # Len(t)
        BY <2>2, <3>4, <3>5
      <4>2. j \in 1 .. Len(t) - 1
        BY <2>7, <4>1
      <4>3. t[j] = s[j + d] /\ j + d \in 1 .. Len(s)
        BY <2>2, <4>2
      <4>4. i + d = j + d
        BY <3>2, <3>5, <4>3
      <4>5. QED
        BY <2>7, <4>4
    <3>6. QED
      BY <3>2, <3>3, <3>5
  <2>11. ASSUME x \notin Msg
         PROVE  x \in sent' /\ \A j \in 1 .. Len(t) : x = t[j] => Len(t) = j
    <3>1. x \in sent /\ x \notin ToSet(s)
      BY <2>6, <2>11
    <3>2. x \in sent'
      BY <2>2, <2>5, <2>7, <3>1
    <3>3. ASSUME NEW j \in 1 .. Len(t), x = t[j], j # Len(t)
          PROVE  FALSE
      <4>1. j \in 1 .. Len(t) - 1
        BY <2>7, <3>3
      <4>2. QED
        BY <2>2, <2>7, <3>1, <3>3, <4>1
    <3>4. QED
      BY <3>2, <3>3
  <2>12. RxOK'
    <3>1. \A i \in 1 .. Len(t) : i = Len(t) \/ i \in 1 .. Len(t) - 1
      BY <2>7
    <3>2. \A i \in 1 .. Len(t) : t[i] \notin Msg =>
            t[i] \in sent' /\ \A j \in 1 .. Len(t) : t[i] = t[j] => i = j
      BY <2>2, <2>10, <2>11, <3>1
    <3>3. QED
      BY <2>3, <2>8, <3>2 DEF RxOK
  <2>13. QED
    BY <2>9, <2>12
<1>7. QED
  BY <1>5, <1>6
-----------------------------------------------------------------------------
(* Inbound implements CoSign                                               *)

\* An overwritten request is lost; an overwritten message is none of CoSign.
LEMMA Overwriting ==
  ASSUME RxShape, RxOK, NEW c \in Channel, sent' = sent \ Overwritten(c),
         UNCHANGED <<configVars, clientVars, serverVars>>
  PROVE  [CoSignNext]_cosignVars
<1>1. CASE Overwritten(c) \cap sent = {}
  <2>1. sent' = sent
    BY <1>1
  <2>2. QED
    BY <2>1 DEF cosignVars
<1>2. CASE Overwritten(c) \cap sent # {}
  <2>1. PICK r \in sent : Overwritten(c) = {r}
    BY <1>2 DEF Overwritten
  <2>2. LoseRequest(r)
    BY <2>1 DEF LoseRequest
  <2>3. QED
    BY <2>2 DEF CoSignNext
<1>3. QED
  BY <1>1, <1>2

\* A request is in the data channel only while it is on its way.
LEMMA HeadIsSent ==
  ASSUME RxShape, RxOK, rx.data # <<>>, Head(rx.data) \notin Msg
  PROVE  Head(rx.data) \in sent
<1> DEFINE s == rx.data
<1>1. s \in Seq(ToSet(s)) /\ s # <<>>
  BY DEF RxShape
<1>2. /\ \A i \in DOMAIN s : s[i] \notin Msg => s[i] \in sent
      /\ Head(s) \notin Msg
  BY DEF RxOK
<1> HIDE DEF s
<1>3. Head(s) = s[1] /\ 1 \in 1 .. Len(s)
  BY <1>1, Taking, Zenon
<1>4. DOMAIN s = 1 .. Len(s)
  BY <1>1
<1>5. Head(s) \in sent
  BY <1>2, <1>3, <1>4
<1>6. QED
  BY <1>5 DEF s

\* A step of the clients adds requests and takes none away.
LEMMA ClientsAdd ==
  ASSUME ClientNext
  PROVE  sent \subseteq sent'
<1>1. ASSUME NEW p, NEW at, NEW method, NEW pay, NEW tx, Request(p, at, method, pay, tx)
      PROVE  sent \subseteq sent'
  BY <1>1 DEF Request
<1>2. ASSUME NEW p, NEW at, Settle(p, at)
      PROVE  sent \subseteq sent'
  BY <1>2 DEF Settle
<1>3. ASSUME NEW p \in Payment, RequestUnsignedTx(p)
      PROVE  sent \subseteq sent'
  BY <1>1, <1>3 DEF RequestUnsignedTx
<1>4. ASSUME NEW p \in Payment, NEW a \in answers, CosignAndSubmit(p, a)
      PROVE  sent \subseteq sent'
  BY <1>1, <1>2, <1>4 DEF CosignAndSubmit
<1>5. ASSUME NEW p \in Payment, NEW a \in answers, AppCosign(p, a)
      PROVE  sent \subseteq sent'
  BY <1>1, <1>5 DEF AppCosign
<1>6. ASSUME NEW p \in Payment, NEW a \in answers, SubmitSignedTx(p, a)
      PROVE  sent \subseteq sent'
  BY <1>2, <1>6 DEF SubmitSignedTx
<1>7. ASSUME NEW p \in Payment, NEW k \in Key, NEW b \in Blockhash, PartialSign(p, k, b)
      PROVE  sent \subseteq sent'
  BY <1>1, <1>2, <1>7 DEF PartialSign
<1>8. ASSUME NEW p \in Payment, OtherRequest(p) \/ TimeOut(p)
      PROVE  sent \subseteq sent'
  BY <1>1, <1>2, <1>8 DEF OtherRequest, TimeOut
<1>9. QED
  BY <1>3, <1>4, <1>5, <1>6, <1>7, <1>8 DEF ClientNext

\* An empty channel is in shape.
LEMMA EmptyShape ==
  /\ Len(<<>>) <= RxCap
  /\ <<>> \in Seq(Msg)
  /\ \A s : s = <<>> => s \in Seq(ToSet(s))
<1>1. Len(<<>>) = 0 /\ RxCap \in Nat
  BY InboundBoundsAssumption
<1>2. \A S : <<>> \in Seq(S)
  OBVIOUS
<1>3. Len(<<>>) <= RxCap
  BY <1>1
<1>4. \A s : s = <<>> => s \in Seq(ToSet(s))
  BY <1>2, Zenon
<1>5. QED
  BY <1>2, <1>3, <1>4, Zenon

\* Every step of Inbound is one of CoSign or none, and keeps the channels in
\* shape.
LEMMA StepRefines ==
  ASSUME RxShape, RxOK, [Next]_vars
  PROVE  [CoSignNext]_cosignVars /\ RxShape' /\ RxOK'
<1>1. ASSUME UNCHANGED <<cosignVars, rx>>
      PROVE  [CoSignNext]_cosignVars /\ RxShape' /\ RxOK'
  <2>1. sent' = sent /\ rx' = rx /\ UNCHANGED cosignVars
    BY <1>1 DEF cosignVars
  <2>2. QED
    BY <2>1, RequestsElsewhere
<1>2. CASE (\E n \in Mode : Start(n)) \/ (\E s \in Sources : Announce(s))
             \/ (\E k \in GroupKey : JoinGroup(k)) \/ LeaveGroup
  BY <1>1, <1>2 DEF Start, Announce, JoinGroup, LeaveGroup
<1>3. CASE UNCHANGED vars
  BY <1>1, <1>3 DEF vars, inboundVars
<1>4. CASE Stop
  <2>1. StopServing({r \in sent : Contains(rx.data, r)}) /\ rx' = [c \in Channel |-> <<>>]
    BY <1>4 DEF Stop
  <2>2. CoSignNext
    BY <2>1 DEF CoSignNext
  <2>3. /\ rx' = [c \in Channel |-> rx'[c]]
        /\ \A c \in Channel : rx'[c] = <<>>
        /\ rx'.data = <<>>
    BY <2>1, Channels
  <2>4. RxShape'
    BY <2>3, EmptyShape DEF RxShape
  <2>5. RxOK'
    BY <2>3 DEF RxOK
  <2>6. QED
    BY <2>2, <2>4, <2>5
<1>5. ASSUME NEW m \in Msg, Arrive(m)
      PROVE  [CoSignNext]_cosignVars /\ RxShape' /\ RxOK'
  <2>1. /\ Push(Packet[m].channel, m)
        /\ sent' = sent \ Overwritten(Packet[m].channel)
        /\ UNCHANGED <<configVars, clientVars, serverVars>>
    BY <1>5 DEF Arrive
  <2>2. Packet[m].channel \in Channel
    BY SentAssumption DEF Packet
  <2>3. QED
    BY <2>1, <2>2, Overwriting, PushingKeeps
<1>6. ASSUME NEW r \in sent, ArriveRequest(r)
      PROVE  [CoSignNext]_cosignVars /\ RxShape' /\ RxOK'
  <2>1. /\ Push("data", r) /\ r \notin ToSet(rx.data)
        /\ sent' = sent \ Overwritten("data")
        /\ UNCHANGED <<configVars, clientVars, serverVars>>
    BY <1>6 DEF ArriveRequest, Contains, ToSet
  <2>2. "data" \in Channel
    BY DEF Channel
  <2>3. QED
    BY <2>1, <2>2, Overwriting, PushingKeeps
<1>7. ASSUME NEW c \in Channel, rx[c] # <<>>, Take(c), UNCHANGED cosignVars
      PROVE  [CoSignNext]_cosignVars /\ RxShape' /\ RxOK'
  <2>1. sent' = sent
    BY <1>7 DEF cosignVars
  <2>2. QED
    BY <1>7, <2>1, TakingKeeps
<1>8. CASE ReceiveData \/ ReceiveResource \/ ReceiveGroup
  BY <1>7, <1>8, Channels DEF ReceiveData, ReceiveResource, ReceiveGroup
<1>9. CASE ReceiveRequest
  <2> DEFINE r == Head(rx.data)
  <2>1. /\ rx.data # <<>> /\ r \notin Msg /\ Take("data")
        /\ TakeRequest(r) \/ LoseRequest(r)
    BY <1>9 DEF ReceiveRequest
  <2>2. r \in sent
    BY <2>1, HeadIsSent
  <2>3. CoSignNext
    BY <2>1, <2>2 DEF CoSignNext
  <2>4. sent' = sent \ {Head(rx.data)}
    BY <2>1 DEF TakeRequest, LoseRequest
  <2>5. RxShape' /\ RxOK'
    <3>1. "data" \in Channel
      BY DEF Channel
    <3>2. QED
      BY <2>1, <2>4, <3>1, TakingKeeps
  <2>6. QED
    BY <2>3, <2>5
<1>10. CASE CoSignStep
  <2>1. rx' = rx
    BY <1>10 DEF CoSignStep, inboundVars
  <2>2. CoSignNext
    BY <1>10 DEF CoSignStep, CoSignNext
  <2>3. \A r \in sent : r \in ToSet(rx.data) => r \in sent'
    <3>1. CASE \E k \in Key : SetKeypair(k)
      BY <3>1 DEF SetKeypair, Configure
    <3>2. CASE SetSolanaRpcUrl
      BY <3>2 DEF SetSolanaRpcUrl, Configure
    <3>3. CASE \E id \in Program : SetProgramId(id)
      BY <3>3 DEF SetProgramId, Configure
    <3>4. CASE ClientNext
      BY <3>4, ClientsAdd
    <3>5. ASSUME NEW r \in sent, ~Contains(rx.data, r), LoseRequest(r)
          PROVE  \A x \in sent : x \in ToSet(rx.data) => x \in sent'
      BY <3>5 DEF LoseRequest, Contains, ToSet
    <3>6. CASE HttpNext
      <4>1. sent' = sent
        <5>1. CASE PostJson
          BY <5>1 DEF PostJson
        <5>2. HttpFails => Finish
          BY DEF HttpFails
        <5>3. \A b \in Blockhash : PrepareTransaction(b) => Finish
          BY DEF PrepareTransaction
        <5>4. RewrapResponse \/ RewrapPanics => Finish
          BY DEF RewrapResponse, RewrapPanics
        <5>5. Finish => sent' = sent
          BY DEF Finish
        <5>6. QED
          BY <3>6, <5>1, <5>2, <5>3, <5>4, <5>5 DEF HttpNext
      <4>2. QED
        BY <4>1
    <3>7. QED
      BY <1>10, <3>1, <3>2, <3>3, <3>4, <3>5, <3>6 DEF CoSignStep
  <2>4. QED
    BY <2>1, <2>2, <2>3, RequestsElsewhere
<1>11. QED
  BY <1>2, <1>3, <1>4, <1>5, <1>6, <1>8, <1>9, <1>10 DEF Next

\* A node starts with nothing to read and nothing to sign.
LEMMA InitRefines == Init => CoSignInit /\ RxShape /\ RxOK
<1> SUFFICES ASSUME Init PROVE CoSignInit /\ RxShape /\ RxOK
  OBVIOUS
<1>1. CoSignInit /\ rx = [c \in Channel |-> <<>>]
  BY DEF Init
<1>2. /\ rx = [c \in Channel |-> rx[c]]
      /\ \A c \in Channel : rx[c] = <<>>
      /\ rx.data = <<>>
  BY <1>1, Channels
<1>3. RxShape
  BY <1>2, EmptyShape DEF RxShape
<1>4. RxOK
  BY <1>2 DEF RxOK
<1>5. QED
  BY <1>1, <1>3, <1>4

\* The node as a whole does nothing with payments that CoSign does not allow:
\* the channels delay and lose requests, and a stop loses those in them.
THEOREM ImplementsCoSign == Spec => CoSignSpec
<1>1. RxShape /\ RxOK /\ [Next]_vars => [CoSignNext]_cosignVars /\ RxShape' /\ RxOK'
  BY StepRefines
<1>2. QED
  BY InitRefines, <1>1, PTL DEF Spec, CoSignSpec

\* The channels stay in shape.
LEMMA RxHolds == Spec => [](RxShape /\ RxOK)
<1>1. RxShape /\ RxOK /\ [Next]_vars => (RxShape /\ RxOK)'
  BY StepRefines
<1>2. QED
  BY InitRefines, <1>1, PTL DEF Spec
-----------------------------------------------------------------------------
(* What the beacon submits and refuses                                     *)

\* The message of a prepared transaction was built for the key of the beacon.
LEMMA PreparedIsBuilt ==
  ASSUME CInv, NEW tx, Prepared(tx)
  PROVE  \E k \in Key, b \in Blockhash, p \in Payment, id \in Program :
           tx.message = Build(k, b, p, id).message /\ OnlyKey(k)
BY DEF CInv, AnswersOK, Prepared

\* Submitted transactions are signed.
LEMMA SignedNow == CInv => SubmittedIsSigned
<1> SUFFICES ASSUME CInv, NEW s \in submitted
             PROVE  LET keys == s.tx.message.account_keys IN
                    /\ verify_slot_signature(s.tx, keys[1], 0)
                    /\ \E k \in Key : verify_slot_signature(s.tx, k, 1)
                    /\ Prepared(s.tx) /\ ~rekeyed => verify_slot_signature(s.tx, keys[2], 1)
  BY DEF SubmittedIsSigned
<1>1. PICK k \in Key : Good(s.tx, s.program, k) /\ OnlyKey(k)
  BY DEF CInv, SubmittedOK
<1>2. ASSUME Prepared(s.tx), ~rekeyed
      PROVE  verify_slot_signature(s.tx, s.tx.message.account_keys[2], 1)
  <2>1. PICK j \in Key, b \in Blockhash, p \in Payment, id \in Program :
          s.tx.message = Build(j, b, p, id).message /\ OnlyKey(j)
    BY <1>2, PreparedIsBuilt
  <2>2. s.tx.message.account_keys[2] = j
    BY <2>1, BuildFacts
  <2>3. j = k
    BY <1>1, <1>2, <2>1 DEF OnlyKey, Some
  <2>4. QED
    BY <1>1, <2>2, <2>3 DEF Good
<1>3. QED
  BY <1>1, <1>2 DEF Good

\* Submitted payments call the program with the accounts the client named.
LEMMA AsAskedNow == CInv => SubmittedPaysAsAsked
<1> SUFFICES ASSUME CInv, NEW s \in submitted, Prepared(s.tx)
             PROVE  LET m == s.tx.message
                        ix == m.instructions[1]
                        a == Asked[ix.data.params]
                    IN
                    /\ m.account_keys[ix.program_id_index + 1] = s.program
                    /\ KeysAt(m, ix.account_indices) =
                         <<a.payer, m.account_keys[2], a.payer_ata, a.recipient,
                           a.recipient_ata, a.broadcaster_ata, a.mint, "TOKEN_PROGRAM",
                           "SYSTEM_PROGRAM", "ASSOCIATED_TOKEN_PROGRAM", "SYSVAR_RENT">>
                    /\ Writable(m) = {a.payer, m.account_keys[2], a.payer_ata, a.recipient,
                                      a.recipient_ata, a.broadcaster_ata}
  BY DEF SubmittedPaysAsAsked
<1>1. PICK k \in Key, b \in Blockhash, p \in Payment, id \in Program :
        s.tx.message = Build(k, b, p, id).message
  BY PreparedIsBuilt
<1> DEFINE m == s.tx.message
           ix == m.instructions[1]
           a == Asked[p]
<1>2. verify_execute_payment_instruction(m, s.program)
  BY DEF CInv, SubmittedOK, Good
<1>3. m.account_keys[ix.program_id_index + 1] = s.program
  BY <1>2 DEF verify_execute_payment_instruction
<1>4. /\ m.account_keys[2] = k /\ ix.data.params = p
      /\ KeysAt(m, ix.account_indices) = PaymentAccounts(a, k)
      /\ Writable(m) = {a.payer, k, a.payer_ata, a.recipient, a.recipient_ata,
                        a.broadcaster_ata}
  BY <1>1, BuildFacts
<1>5. PaymentAccounts(a, k)
        = <<a.payer, k, a.payer_ata, a.recipient, a.recipient_ata,
            a.broadcaster_ata, a.mint, "TOKEN_PROGRAM", "SYSTEM_PROGRAM",
            "ASSOCIATED_TOKEN_PROGRAM", "SYSVAR_RENT">>
  BY Accounts
<1> HIDE DEF m, ix, a
<1>6. a = Asked[ix.data.params]
  BY <1>4 DEF a
<1>7. QED
  BY <1>3, <1>4, <1>5, <1>6 DEF m, ix

\* What the beacon built and the payer signed is refused for another program.
LEMMA AcceptedNow == CInv => PreparedIsAccepted
<1> SUFFICES ASSUME CInv, NEW f \in refused, Prepared(f.tx), Len(f.tx.signatures) = 2,
                    verify_slot_signature(f.tx, f.tx.message.account_keys[1], 0)
             PROVE  f.program # Last(f.tx.message.account_keys)
  BY DEF PreparedIsAccepted
<1>1. Built(f.tx.message)
  BY PreparedIsBuilt DEF Built
<1>2. QED
  BY <1>1 DEF CInv, RefusedOK

\* The invariant of the payments, over the node as a whole.
LEMMA PaymentsHold == Spec => []CInv
BY ImplementsCoSign, CInvHolds, PTL

\* Whatever a node hands to Solana carries the signature of its payer and its
\* own over the bytes it hands over; where it built the payment, and was not
\* given another key, in the slot of that key (beacon_server.rs,
\* handle_cosign_transaction).
THEOREM PaymentsAreSigned == Spec => []SubmittedIsSigned
BY PaymentsHold, SignedNow, PTL

\* A payment the node built and submitted calls the configured program with the
\* accounts the client named, in the order of the IDL, and lets it write those
\* of tokens, the payer and the beacon only (solana_tx.rs).
THEOREM PaymentsAreAsAsked == Spec => []SubmittedPaysAsAsked
BY PaymentsHold, AsAskedNow, PTL

\* A payment the node built and its payer signed is refused only when the
\* program was changed in between.
THEOREM PaymentsAreAccepted == Spec => []PreparedIsAccepted
BY PaymentsHold, AcceptedNow, PTL
\* Induction up to k, for what holds of the numbers of a set T.
LEMMA Induct ==
  ASSUME NEW T, NEW a \in Nat, NEW k \in Nat, a \in T,
         \A i \in a + 1 .. k : i - 1 \in T => i \in T
  PROVE  \A i \in a .. k : i \in T
<1> DEFINE W == (a .. k) \ T
<1>1. SUFFICES ASSUME W # {} PROVE FALSE
  OBVIOUS
<1>2. W \subseteq Nat
  OBVIOUS
<1> HIDE DEF W
<1>3. PICK x \in W : \A y \in W : x <= y
  BY <1>1, <1>2, Least
<1>4. x \in a + 1 .. k /\ x \notin T
  BY <1>3 DEF W
<1>5. x - 1 \in a .. k /\ x - 1 \notin W
  BY <1>2, <1>3, <1>4
<1>6. x - 1 \in T
  BY <1>5 DEF W
<1>7. QED
  BY <1>4, <1>6

\* A step for states of D and inputs of B, and the run from d over the inputs s
Steps(D, B, step, d, s) == step \in [D \X B -> D] /\ d \in D /\ s \in Seq(B)
IsRun(run, D, step, d, s) ==
  /\ run \in [0 .. Len(s) -> D] /\ run[0] = d
  /\ \A n \in 1 .. Len(s) : run[n] = step[<<run[n - 1], s[n]>>]

\* A state that is stepped through the elements of a sequence exists.
LEMMA RunExists ==
  ASSUME NEW D, NEW B, NEW step, NEW d, NEW s, Steps(D, B, step, d, s)
  PROVE  \E run : IsRun(run, D, step, d, s)
<1> DEFINE Run(m, run) ==
             run[0] = d /\ \A n \in 1 .. m : run[n] = step[<<run[n - 1], s[n]>>]
           T == {m \in Nat : \E run \in [0 .. m -> D] : Run(m, run)}
<1>0. step \in [D \X B -> D] /\ d \in D /\ s \in Seq(B)
  BY DEF Steps
<1>1. Len(s) \in Nat /\ \A n \in 1 .. Len(s) : s[n] \in B
  BY <1>0
<1>2. 0 \in T
  <2> DEFINE run == [n \in 0 .. 0 |-> d]
  <2>1. run \in [0 .. 0 -> D] /\ Run(0, run)
    BY <1>0
  <2>2. QED
    BY <2>1
<1>3. ASSUME NEW m \in 0 + 1 .. Len(s), m - 1 \in T
      PROVE  m \in T
  <2>1. PICK run \in [0 .. m - 1 -> D] : Run(m - 1, run)
    BY <1>3
  <2> DEFINE new == [n \in 0 .. m |-> IF n = m THEN step[<<run[m - 1], s[m]>>] ELSE run[n]]
  <2>2. m - 1 \in 0 .. m - 1 /\ run[m - 1] \in D /\ s[m] \in B
    BY <1>1, <2>1
  <2>3. step[<<run[m - 1], s[m]>>] \in D
    BY <1>0, <2>2
  <2>4. new \in [0 .. m -> D]
    BY <2>1, <2>3
  <2>5. new[0] = d
    BY <2>1
  <2>6. ASSUME NEW n \in 1 .. m
        PROVE  new[n] = step[<<new[n - 1], s[n]>>]
    <3>1. CASE n = m
      <4>1. new[m] = step[<<run[m - 1], s[m]>>] /\ new[m - 1] = run[m - 1]
        BY <2>2
      <4>2. QED
        BY <3>1, <4>1
    <3>2. CASE n # m
      <4>1. n \in 1 .. m - 1 /\ n - 1 \in 0 .. m - 1
        BY <3>2
      <4>2. run[n] = step[<<run[n - 1], s[n]>>]
        BY <2>1, <4>1
      <4>3. new[n] = run[n] /\ new[n - 1] = run[n - 1]
        BY <3>2, <4>1
      <4>4. QED
        BY <4>2, <4>3
    <3>3. QED
      BY <3>1, <3>2
  <2> HIDE DEF new
  <2>7. QED
    BY <2>4, <2>5, <2>6
<1> HIDE DEF T
<1>4. Len(s) \in T
  <2>1. \A i \in 0 .. Len(s) : i \in T
    BY <1>1, <1>2, <1>3, Induct
  <2>2. QED
    BY <1>1, <2>1
<1>5. QED
  BY <1>4 DEF T, IsRun

-----------------------------------------------------------------------------
(* Sequences of sequences, end to end                                      *)

\* The concatenation, sequence by sequence.
LEMMA Flatten ==
  ASSUME NEW S, NEW s \in Seq(Seq(S))
  PROVE  \E run \in [0 .. Len(s) -> Seq(S)] :
           /\ run[0] = <<>> /\ run[Len(s)] = FlattenSeq(s)
           /\ \A n \in 1 .. Len(s) : run[n] = run[n - 1] \o s[n]
<1> DEFINE step == [x \in Seq(S) \X Seq(S) |-> x[1] \o x[2]]
<1>1. step \in [Seq(S) \X Seq(S) -> Seq(S)]
  OBVIOUS
<1>2. \A x, y \in Seq(S) : step[<<x, y>>] = x \o y
  OBVIOUS
<1>3. <<>> \in Seq(S) /\ Len(s) \in Nat /\ \A n \in 1 .. Len(s) : s[n] \in Seq(S)
  OBVIOUS
<1> HIDE DEF step
<1>4. PICK run \in [0 .. Len(s) -> Seq(S)] :
        run[0] = <<>> /\ \A n \in 1 .. Len(s) : run[n] = step[<<run[n - 1], s[n]>>]
  <2>1. Steps(Seq(S), Seq(S), step, <<>>, s)
    BY <1>1, <1>3 DEF Steps
  <2>2. \E run : IsRun(run, Seq(S), step, <<>>, s)
    BY <2>1, RunExists
  <2>3. QED
    BY <2>2 DEF IsRun
<1>5. \A n \in 1 .. Len(s) : run[n] = run[n - 1] \o s[n]
  <2>1. ASSUME NEW n \in 1 .. Len(s)
        PROVE  run[n] = run[n - 1] \o s[n]
    <3>1. n - 1 \in 0 .. Len(s) /\ s[n] \in Seq(S)
      BY <1>3
    <3>2. run[n - 1] \in Seq(S)
      BY <3>1, Zenon
    <3>3. QED
      BY <1>2, <1>4, <3>1, <3>2, Zenon
  <2>2. QED
    BY <2>1
<1>6. 1 \in 1 .. Len(s) => run[1] = s[1] /\ s[1] \in Seq(S)
  <2>1. SUFFICES ASSUME 1 \in 1 .. Len(s) PROVE run[1] = s[1] /\ s[1] \in Seq(S)
    OBVIOUS
  <2>2. s[1] \in Seq(S) /\ run[1] = run[1 - 1] \o s[1]
    BY <1>3, <1>5, <2>1, Zenon
  <2>3. run[1 - 1] = <<>>
    <3>1. 1 - 1 = 0
      OBVIOUS
    <3>2. QED
      BY <1>4, <3>1, Zenon
  <2>4. <<>> \o s[1] = s[1]
    BY <2>2, ConcatEmptySeq
  <2>5. QED
    BY <2>2, <2>3, <2>4, Zenon
<1>7. run[Len(s)] = FlattenSeq(s)
  <2>1. CASE Len(s) = 0
    <3>1. s = <<>>
      BY <2>1
    <3>2. FlattenSeq(s) = s
      BY <2>1 DEF FlattenSeq
    <3>3. QED
      BY <1>4, <2>1, <3>1, <3>2
  <2>2. CASE Len(s) # 0
    <3> DEFINE flatten == CHOOSE f : f = [i \in 1 .. Len(s) |->
                                            IF i = 1 THEN s[i] ELSE f[i - 1] \o s[i]]
               g == [i \in 1 .. Len(s) |-> run[i]]
               T == {i \in Nat : flatten[i] = run[i]}
    <3>1. FlattenSeq(s) = flatten[Len(s)]
      BY <2>2 DEF FlattenSeq
    <3>2. g = [i \in 1 .. Len(s) |-> IF i = 1 THEN s[i] ELSE g[i - 1] \o s[i]]
      <4>1. ASSUME NEW i \in 1 .. Len(s)
            PROVE  run[i] = IF i = 1 THEN s[i] ELSE g[i - 1] \o s[i]
        <5>1. CASE i = 1
          BY <1>6, <5>1
        <5>2. CASE i # 1
          <6>1. i - 1 \in 1 .. Len(s)
            BY <1>3, <5>2
          <6>2. QED
            BY <1>5, <5>2, <6>1
        <5>3. QED
          BY <5>1, <5>2
      <4>2. QED
        BY <4>1, Zenon
    <3> HIDE DEF g
    <3>3. flatten = [i \in 1 .. Len(s) |-> IF i = 1 THEN s[i] ELSE flatten[i - 1] \o s[i]]
      <4>1. \E f : f = [i \in 1 .. Len(s) |-> IF i = 1 THEN s[i] ELSE f[i - 1] \o s[i]]
        BY <3>2, Zenon
      <4>2. QED
        BY <4>1, Zenon
    <3> HIDE DEF flatten
    <3>4. 1 \in T
      <4>1. 1 \in 1 .. Len(s)
        BY <1>3, <2>2
      <4>2. flatten[1] = s[1]
        BY <3>3, <4>1
      <4>3. QED
        BY <1>6, <4>1, <4>2
    <3>5. ASSUME NEW i \in 1 + 1 .. Len(s), i - 1 \in T
          PROVE  i \in T
      <4>1. i \in 1 .. Len(s) /\ i # 1 /\ i \in Nat
        BY <1>3
      <4>2. flatten[i] = flatten[i - 1] \o s[i]
        BY <3>3, <4>1
      <4>3. QED
        BY <1>5, <3>5, <4>1, <4>2
    <3>6. \A i \in 1 .. Len(s) : i \in T
      <4> HIDE DEF T
      <4>1. QED
        BY <1>3, <3>4, <3>5, Induct
    <3>7. QED
      BY <1>3, <2>2, <3>1, <3>6
  <2>3. QED
    BY <2>1, <2>2
<1>8. QED
  BY <1>4, <1>5, <1>7, Zenon

\* Where the first n of the sequences end
EndOf(s, n) == Len(FlattenSeq(SubSeq(s, 1, n)))

\* The concatenation of the first n sequences is a prefix of the whole.
LEMMA FlattenPrefix ==
  ASSUME NEW S, NEW s \in Seq(Seq(S)), NEW run,
         run[0] = <<>>, \A n \in 1 .. Len(s) : run[n] = run[n - 1] \o s[n],
         NEW n \in 0 .. Len(s)
  PROVE  FlattenSeq(SubSeq(s, 1, n)) = run[n]
<1> DEFINE t == SubSeq(s, 1, n)
<1>1. t \in Seq(Seq(S)) /\ Len(t) = n /\ \A i \in 1 .. n : t[i] = s[i]
  BY SubSeqProperties
<1> HIDE DEF t
<1>2. PICK other \in [0 .. Len(t) -> Seq(S)] :
        /\ other[0] = <<>> /\ other[Len(t)] = FlattenSeq(t)
        /\ \A i \in 1 .. Len(t) : other[i] = other[i - 1] \o t[i]
  <2>1. \A q \in Seq(Seq(S)) : \E r \in [0 .. Len(q) -> Seq(S)] :
          /\ r[0] = <<>> /\ r[Len(q)] = FlattenSeq(q)
          /\ \A i \in 1 .. Len(q) : r[i] = r[i - 1] \o q[i]
    BY Flatten
  <2>2. QED
    BY <1>1, <2>1, Zenon
<1> DEFINE T == {i \in Nat : other[i] = run[i]}
<1>3. 0 \in T
  BY <1>2
<1>4. ASSUME NEW i \in 0 + 1 .. n, i - 1 \in T
      PROVE  i \in T
  <2>1. i \in 1 .. n /\ i \in 1 .. Len(s) /\ i \in Nat
    OBVIOUS
  <2>2. other[i] = other[i - 1] \o t[i] /\ run[i] = run[i - 1] \o s[i] /\ t[i] = s[i]
    BY <1>1, <1>2, <2>1
  <2>3. QED
    BY <1>4, <2>1, <2>2
<1> HIDE DEF T
<1>5. \A i \in 0 .. n : i \in T
  <2>1. 0 \in Nat /\ n \in Nat
    OBVIOUS
  <2>2. QED
    BY <1>3, <1>4, <2>1, Induct
<1>6. n \in T
  BY <1>5
<1>7. QED
  BY <1>1, <1>2, <1>6 DEF T, t

\* The sequences lie one behind the other.
LEMMA Layout ==
  ASSUME NEW S, NEW s \in Seq(Seq(S))
  PROVE  /\ FlattenSeq(s) \in Seq(S) /\ Len(FlattenSeq(s)) = EndOf(s, Len(s))
         /\ EndOf(s, 0) = 0
         /\ \A n \in 0 .. Len(s) : EndOf(s, n) \in Nat
         /\ \A n \in 1 .. Len(s) : EndOf(s, n) = EndOf(s, n - 1) + Len(s[n])
         /\ \A n \in 1 .. Len(s) : \A j \in 1 .. Len(s[n]) :
              FlattenSeq(s)[EndOf(s, n - 1) + j] = s[n][j]
<1>1. PICK run \in [0 .. Len(s) -> Seq(S)] :
        /\ run[0] = <<>> /\ run[Len(s)] = FlattenSeq(s)
        /\ \A n \in 1 .. Len(s) : run[n] = run[n - 1] \o s[n]
  BY Flatten
<1>2. Len(s) \in Nat /\ \A n \in 1 .. Len(s) : s[n] \in Seq(S)
  OBVIOUS
<1>3. \A n \in 0 .. Len(s) : EndOf(s, n) = Len(run[n]) /\ run[n] \in Seq(S)
  <2>1. ASSUME NEW n \in 0 .. Len(s)
        PROVE  EndOf(s, n) = Len(run[n]) /\ run[n] \in Seq(S)
    <3>1. FlattenSeq(SubSeq(s, 1, n)) = run[n]
      BY <1>1, FlattenPrefix
    <3>2. QED
      BY <3>1 DEF EndOf
  <2>2. QED
    BY <2>1
<1>4. \A n \in 0 .. Len(s) : EndOf(s, n) \in Nat
  BY <1>3
<1>5. ASSUME NEW n \in 1 .. Len(s)
      PROVE  /\ EndOf(s, n) = EndOf(s, n - 1) + Len(s[n])
             /\ Len(s[n]) \in Nat /\ EndOf(s, n - 1) \in Nat
             /\ \A j \in 1 .. EndOf(s, n - 1) : run[n][j] = run[n - 1][j]
             /\ \A j \in 1 .. Len(s[n]) : run[n][EndOf(s, n - 1) + j] = s[n][j]
  <2>1. n - 1 \in 0 .. Len(s) /\ n \in 0 .. Len(s) /\ s[n] \in Seq(S)
    BY <1>2
  <2>2. run[n] = run[n - 1] \o s[n]
    BY <1>1
  <2> DEFINE u == run[n - 1]  v == s[n]
  <2>3. u \in Seq(S) /\ v \in Seq(S) /\ run[n] = u \o v
    BY <1>3, <2>1, <2>2
  <2>4. EndOf(s, n - 1) = Len(u) /\ EndOf(s, n) = Len(u \o v)
    BY <1>3, <2>1, <2>3
  <2> HIDE DEF u, v
  <2>5. /\ Len(u \o v) = Len(u) + Len(v) /\ Len(u) \in Nat /\ Len(v) \in Nat
        /\ \A i \in 1 .. Len(u) + Len(v) :
             (u \o v)[i] = IF i <= Len(u) THEN u[i] ELSE v[i - Len(u)]
    BY <2>3, ConcatProperties
  <2>6. \A j \in 1 .. Len(u) : (u \o v)[j] = u[j]
    BY <2>5
  <2>7. \A j \in 1 .. Len(v) : (u \o v)[Len(u) + j] = v[j]
    BY <2>5
  <2>8. QED
    BY <2>3, <2>4, <2>5, <2>6, <2>7 DEF u, v
<1>6. ASSUME NEW n \in 1 .. Len(s), NEW j \in 1 .. Len(s[n])
      PROVE  FlattenSeq(s)[EndOf(s, n - 1) + j] = s[n][j]
  <2> DEFINE at == EndOf(s, n - 1) + j
             T == {m \in Nat : m \in 1 .. Len(s) /\ at \in 1 .. EndOf(s, m) /\ run[m][at] = s[n][j]}
  <2>1. n \in T
    <3>1. /\ EndOf(s, n) = EndOf(s, n - 1) + Len(s[n])
          /\ Len(s[n]) \in Nat /\ EndOf(s, n - 1) \in Nat /\ run[n][at] = s[n][j]
      BY <1>5
    <3>2. at \in 1 .. EndOf(s, n)
      BY <3>1, SMTT(30)
    <3>3. QED
      BY <3>1, <3>2
  <2>2. ASSUME NEW m \in n + 1 .. Len(s), m - 1 \in T
        PROVE  m \in T
    <3>1. m \in 1 .. Len(s) /\ m \in Nat
      BY <1>2
    <3>2. /\ EndOf(s, m) = EndOf(s, m - 1) + Len(s[m])
          /\ Len(s[m]) \in Nat /\ EndOf(s, m - 1) \in Nat
          /\ \A i \in 1 .. EndOf(s, m - 1) : run[m][i] = run[m - 1][i]
      BY <1>5, <3>1
    <3>3. at \in 1 .. EndOf(s, m - 1) /\ run[m - 1][at] = s[n][j]
      BY <2>2
    <3>4. at \in 1 .. EndOf(s, m) /\ run[m][at] = s[n][j]
      <4> HIDE DEF at
      <4>1. QED
        BY <3>2, <3>3, SMTT(30)
    <3>5. QED
      BY <3>1, <3>4
  <2> HIDE DEF T
  <2>3. \A m \in n .. Len(s) : m \in T
    <3>1. n \in Nat /\ Len(s) \in Nat
      BY <1>2
    <3>2. QED
      BY <2>1, <2>2, <3>1, Induct
  <2>4. Len(s) \in T
    BY <1>2, <2>3
  <2>5. QED
    BY <1>1, <2>4 DEF T
<1>7. FlattenSeq(s) \in Seq(S) /\ Len(FlattenSeq(s)) = EndOf(s, Len(s))
  <2>1. Len(s) \in 0 .. Len(s)
    BY <1>2
  <2>2. QED
    BY <1>1, <1>3, <2>1, Zenon
<1>8. EndOf(s, 0) = 0
  <2>1. 0 \in 0 .. Len(s)
    BY <1>2
  <2>2. QED
    BY <1>1, <1>3, <2>1
<1>9. QED
  BY <1>4, <1>5, <1>6, <1>7, <1>8

\* A sequence ends behind those before it.
LEMMA EndMonotone ==
  ASSUME NEW S, NEW s \in Seq(Seq(S)), NEW m \in 0 .. Len(s), NEW k \in m .. Len(s)
  PROVE  EndOf(s, m) <= EndOf(s, k)
<1> DEFINE T == {i \in 0 .. Len(s) : EndOf(s, m) <= EndOf(s, i)}
<1>1. Len(s) \in Nat /\ \A i \in 1 .. Len(s) : Len(s[i]) \in Nat
  OBVIOUS
<1>2. \A i \in 0 .. Len(s) : EndOf(s, i) \in Nat
  BY Layout
<1>3. \A i \in 1 .. Len(s) : EndOf(s, i) = EndOf(s, i - 1) + Len(s[i])
  BY Layout
<1>4. m \in T
  BY <1>2
<1>5. ASSUME NEW i \in m + 1 .. k, i - 1 \in T
      PROVE  i \in T
  <2>1. i \in 1 .. Len(s) /\ i \in 0 .. Len(s) /\ i - 1 \in 0 .. Len(s)
    BY <1>1
  <2>2. EndOf(s, i) = EndOf(s, i - 1) + Len(s[i]) /\ Len(s[i]) \in Nat
    BY <1>1, <1>3, <2>1
  <2>3. EndOf(s, m) <= EndOf(s, i - 1) /\ EndOf(s, m) \in Nat /\ EndOf(s, i - 1) \in Nat
    BY <1>2, <1>5, <2>1
  <2>4. QED
    BY <2>1, <2>2, <2>3
<1>6. k \in m .. k /\ m \in Nat /\ k \in Nat
  BY <1>1
<1> HIDE DEF T
<1>7. \A i \in m .. k : i \in T
  BY <1>4, <1>5, <1>6, Induct
<1>8. k \in T
  BY <1>6, <1>7
<1>9. QED
  BY <1>8 DEF T

-----------------------------------------------------------------------------
(* Sequences that lie in a buffer                                          *)

\* The bytes s lie in mp at offset p.
LiesAt(mp, p, s) ==
  /\ p \in Nat /\ mp \in Seq(Byte) /\ s \in Seq(Byte) /\ p + Len(s) <= Len(mp)
  /\ \A j \in 1 .. Len(s) : mp[p + j] = s[j]

\* Each part of what lies in a buffer lies there.
LEMMA LiesParts ==
  ASSUME NEW mp, NEW p, NEW s \in Seq(Byte), NEW t \in Seq(Byte), LiesAt(mp, p, s \o t)
  PROVE  LiesAt(mp, p, s) /\ LiesAt(mp, p + Len(s), t)
<1>1. /\ Len(s \o t) = Len(s) + Len(t) /\ Len(s) \in Nat /\ Len(t) \in Nat
      /\ \A i \in 1 .. Len(s) + Len(t) : (s \o t)[i] = IF i <= Len(s) THEN s[i] ELSE t[i - Len(s)]
  BY ConcatProperties
<1> DEFINE u == s \o t
<1>2. /\ p \in Nat /\ mp \in Seq(Byte) /\ p + Len(u) <= Len(mp)
      /\ \A j \in 1 .. Len(u) : mp[p + j] = u[j]
  BY DEF LiesAt
<1>3. \A j \in 1 .. Len(s) : u[j] = s[j]
  BY <1>1
<1>4. \A j \in 1 .. Len(t) : u[Len(s) + j] = t[j]
  BY <1>1
<1>5. Len(u) = Len(s) + Len(t)
  BY <1>1
<1> HIDE DEF u
<1>6. LiesAt(mp, p, s)
  BY <1>1, <1>2, <1>3, <1>5 DEF LiesAt
<1>7. \A j \in 1 .. Len(t) : mp[p + Len(s) + j] = t[j]
  <2>1. ASSUME NEW j \in 1 .. Len(t)
        PROVE  mp[p + Len(s) + j] = t[j]
    <3>1. Len(s) + j \in 1 .. Len(u) /\ p + (Len(s) + j) = p + Len(s) + j
      BY <1>1, <1>2, <1>5
    <3>2. mp[p + (Len(s) + j)] = u[Len(s) + j]
      BY <1>2, <3>1
    <3>3. QED
      BY <1>4, <3>1, <3>2
  <2>2. QED
    BY <2>1
<1>8. p + Len(s) \in Nat /\ p + Len(s) + Len(t) <= Len(mp)
  BY <1>1, <1>2, <1>5
<1>9. QED
  BY <1>2, <1>6, <1>7, <1>8 DEF LiesAt

\* The bytes that lie in a buffer are those read there.
LEMMA LiesBytes ==
  ASSUME NEW mp, NEW p, NEW s, LiesAt(mp, p, s)
  PROVE  Bytes(mp, p, Len(s)) = s
<1>1. p \in Nat /\ mp \in Seq(Byte) /\ s \in Seq(Byte) /\ Len(s) \in Nat /\ Len(mp) \in Nat
      /\ p + Len(s) <= Len(mp)
  BY DEF LiesAt
<1> DEFINE t == SubSeq(mp, p + 1, p + Len(s))
<1>2. p + 1 \in 1 .. Len(mp) + 1 /\ p + Len(s) \in p .. Len(mp)
  BY <1>1
<1>3. t \in Seq(Byte) /\ Len(t) = Len(s) /\ \A i \in 1 .. Len(s) : t[i] = mp[p + i]
  <2>1. /\ t \in Seq(Byte)
        /\ Len(t) = IF p + 1 <= p + Len(s) THEN p + Len(s) - (p + 1) + 1 ELSE 0
        /\ \A i \in 1 .. p + Len(s) - (p + 1) + 1 : t[i] = mp[p + 1 + i - 1]
    BY <1>1, <1>2, SubSeqProperties
  <2>2. p + Len(s) - (p + 1) + 1 = Len(s) /\ \A i \in 1 .. Len(s) : p + 1 + i - 1 = p + i
    BY <1>1
  <2>3. QED
    BY <1>1, <2>1, <2>2
<1>4. \A i \in 1 .. Len(s) : t[i] = s[i]
  BY <1>3 DEF LiesAt
<1> HIDE DEF t
<1>5. t = s
  BY <1>1, <1>3, <1>4
<1>6. QED
  BY <1>5 DEF Bytes, t

\* Bytes behind a marker are bytes, and one more.
LEMMA MarkedBytes ==
  ASSUME NEW b \in Byte, NEW s \in Seq(Byte)
  PROVE  /\ Marked(b, s) \in Seq(Byte) /\ Len(Marked(b, s)) = 1 + Len(s) /\ Len(s) \in Nat
         /\ Marked(b, s)[1] = b
<1>1. <<b>> \in Seq(Byte) /\ Len(<<b>>) = 1 /\ <<b>>[1] = b
  OBVIOUS
<1> DEFINE h == <<b>>
<1> HIDE DEF h
<1>2. h \in Seq(Byte) /\ Len(h) = 1 /\ h[1] = b /\ Marked(b, s) = h \o s
  BY <1>1 DEF h, Marked
<1>3. /\ Len(h \o s) = 1 + Len(s) /\ h \o s \in Seq(Byte) /\ Len(s) \in Nat
      /\ (h \o s)[1] = h[1]
  <2>1. /\ Len(h \o s) = Len(h) + Len(s) /\ h \o s \in Seq(Byte) /\ Len(s) \in Nat
        /\ \A i \in 1 .. Len(h) + Len(s) : (h \o s)[i] = IF i <= Len(h) THEN h[i] ELSE s[i - Len(h)]
    <3>1. h \in Seq(Byte) /\ s \in Seq(Byte)
      BY <1>2
    <3>2. /\ Len(h \o s) = Len(h) + Len(s) /\ h \o s \in Seq(Byte)
          /\ \A i \in 1 .. Len(h) + Len(s) :
               (h \o s)[i] = IF i <= Len(h) THEN h[i] ELSE s[i - Len(h)]
      BY <3>1, ConcatProperties, Zenon
    <3>3. QED
      BY <3>1, <3>2
  <2>2. 1 \in 1 .. Len(h) + Len(s) /\ 1 <= Len(h)
    BY <1>2, <2>1
  <2>3. QED
    BY <1>2, <2>1, <2>2
<1>4. QED
  BY <1>2, <1>3

\* A byte lies before the bytes behind it.
LEMMA LiesByte ==
  ASSUME NEW mp, NEW p, NEW b \in Byte, NEW s \in Seq(Byte), LiesAt(mp, p, Marked(b, s))
  PROVE  /\ mp \in Seq(Byte) /\ p \in Nat /\ p < Len(mp) /\ mp[p + 1] = b
         /\ LiesAt(mp, p + 1, s)
<1>1. <<b>> \in Seq(Byte) /\ Len(<<b>>) = 1 /\ <<b>>[1] = b
  OBVIOUS
<1> DEFINE h == <<b>>
<1> HIDE DEF h
<1>2. h \in Seq(Byte) /\ Len(h) = 1 /\ h[1] = b /\ LiesAt(mp, p, h \o s)
  BY <1>1 DEF h, Marked
<1>3. LiesAt(mp, p, h) /\ LiesAt(mp, p + 1, s)
  BY <1>2, LiesParts
<1>4. QED
  BY <1>2, <1>3 DEF LiesAt

\* Sequences that lie in a buffer end to end lie there one by one.
LEMMA LiesFlat ==
  ASSUME NEW mp, NEW p, NEW s \in Seq(Seq(Byte)), LiesAt(mp, p, FlattenSeq(s)),
         NEW i \in 1 .. Len(s)
  PROVE  LiesAt(mp, p + EndOf(s, i - 1), s[i])
<1> DEFINE u == FlattenSeq(s)
<1>1. /\ u \in Seq(Byte) /\ Len(u) = EndOf(s, Len(s)) /\ EndOf(s, i - 1) \in Nat
      /\ \A j \in 1 .. Len(s[i]) : u[EndOf(s, i - 1) + j] = s[i][j]
  <2>1. i - 1 \in 0 .. Len(s)
    OBVIOUS
  <2>2. QED
    BY <2>1, Layout
<1>2. s[i] \in Seq(Byte) /\ Len(s[i]) \in Nat
  OBVIOUS
<1>3. EndOf(s, i - 1) + Len(s[i]) <= Len(u)
  <2>1. EndOf(s, i) = EndOf(s, i - 1) + Len(s[i])
    BY Layout
  <2>2. EndOf(s, i) <= EndOf(s, Len(s))
    <3>1. i \in 0 .. Len(s) /\ Len(s) \in i .. Len(s)
      OBVIOUS
    <3>2. QED
      BY <3>1, EndMonotone
  <2>3. QED
    BY <1>1, <2>1, <2>2
<1>4. /\ p \in Nat /\ mp \in Seq(Byte) /\ p + Len(u) <= Len(mp) /\ Len(u) \in Nat
      /\ \A j \in 1 .. Len(u) : mp[p + j] = u[j]
  BY <1>1 DEF LiesAt
<1> HIDE DEF u
<1>5. ASSUME NEW j \in 1 .. Len(s[i])
      PROVE  mp[p + EndOf(s, i - 1) + j] = s[i][j]
  <2>1. EndOf(s, i - 1) + j \in 1 .. Len(u)
    <3> DEFINE start == EndOf(s, i - 1)
               len == Len(s[i])
    <3>1. start \in Nat /\ len \in Nat /\ start + len <= Len(u) /\ j \in 1 .. len
      BY <1>1, <1>2, <1>3, <1>5
    <3> HIDE DEF start, len
    <3>2. start + j \in 1 .. Len(u)
      BY <1>4, <3>1
    <3>3. QED
      BY <3>2 DEF start
  <2>2. mp[p + (EndOf(s, i - 1) + j)] = u[EndOf(s, i - 1) + j]
    BY <1>4, <2>1
  <2>3. p + (EndOf(s, i - 1) + j) = p + EndOf(s, i - 1) + j
    BY <1>1, <1>4
  <2>4. QED
    BY <1>1, <2>2, <2>3
<1>6. p + EndOf(s, i - 1) \in Nat /\ p + EndOf(s, i - 1) + Len(s[i]) <= Len(mp)
  <2> DEFINE start == EndOf(s, i - 1)
             len == Len(s[i])
             all == Len(u)
             L == Len(mp)
  <2>1. /\ start \in Nat /\ len \in Nat /\ all \in Nat /\ p \in Nat /\ L \in Nat
        /\ start + len <= all /\ p + all <= L
    BY <1>1, <1>2, <1>3, <1>4
  <2> HIDE DEF start, len, all, L
  <2>2. p + start \in Nat /\ p + start + len <= L
    BY <2>1
  <2>3. QED
    BY <2>2 DEF start, len, L
<1>7. QED
  BY <1>2, <1>4, <1>5, <1>6 DEF LiesAt

-----------------------------------------------------------------------------
(* Numbers, blobs and strings                                              *)

\* 16 MiB is more than 16 bits count.
LEMMA MibNat == Mib16 \in Nat /\ 65535 <= Mib16
BY DEF Mib16

\* A number is read from the bytes that lie there.
LEMMA NumLies ==
  ASSUME NEW mp, NEW p, NEW h, LiesAt(mp, p, h), NEW w \in {1, 2, 4}, Len(h) = 1 + w
  PROVE  Num(mp, p + 1, w) = Num(h, 1, w)
<1>1. p \in Nat /\ mp[p + 1] = h[1] /\ \A i \in 1 .. w : mp[p + (1 + i)] = h[1 + i]
  BY DEF LiesAt
<1>2. CASE w = 1
  <2>1. mp[p + 1 + 1] = h[1 + 1]
    BY <1>1, <1>2
  <2>2. QED
    BY <1>2, <2>1 DEF Num
<1>3. CASE w = 2
  <2>1. mp[p + 1 + 1] = h[1 + 1] /\ mp[p + 1 + 2] = h[1 + 2]
    BY <1>1, <1>3
  <2>2. QED
    BY <1>3, <2>1 DEF Num
<1>4. CASE w = 4
  <2>1. /\ mp[p + 1 + 1] = h[1 + 1] /\ mp[p + 1 + 2] = h[1 + 2]
        /\ mp[p + 1 + 3] = h[1 + 3] /\ mp[p + 1 + 4] = h[1 + 4]
    BY <1>1, <1>4
  <2>2. QED
    BY <1>4, <2>1 DEF Num
<1>5. QED
  BY <1>2, <1>3, <1>4

\* The markers of blobs and strings, by the bytes of their length
LEMMA BlobMarkers ==
  ASSUME NEW b, LenWidth(b) \in {0, 1, 2, 4}, LenWidth(b) = 0 => b \in \ha0 .. \hbf
  PROVE  /\ LenWidth(b) = 1 => b \in {\hc4, \hd9}
         /\ LenWidth(b) = 2 => b \in {\hc5, \hda}
         /\ LenWidth(b) = 4 => b = \hc6
         /\ NumericWidth(b) = 0
<1>1. CASE b \in {\hc4, \hd9}
  BY <1>1 DEF LenWidth, NumericWidth
<1>2. CASE b \in {\hc5, \hda}
  BY <1>2 DEF LenWidth, NumericWidth
<1>3. CASE b = \hc6
  BY <1>3 DEF LenWidth, NumericWidth
<1>4. CASE b \notin {\hc4, \hd9, \hc5, \hda, \hc6}
  <2>1. LenWidth(b) = 0
    BY <1>4 DEF LenWidth
  <2>2. b \in Int /\ \ha0 <= b /\ b <= \hbf
    BY <2>1
  <2>3. QED
    BY <2>1, <2>2 DEF NumericWidth
<1>5. QED
  BY <1>1, <1>2, <1>3, <1>4

\* How a blob or string is skipped
LEMMA BlobBehindIt ==
  ASSUME NEW mp, NEW p, NEW b, mp[p + 1] = b,
         LenWidth(b) \in {0, 1, 2, 4}, LenWidth(b) = 0 => b \in \ha0 .. \hbf
  PROVE  /\ LenWidth(b) = 0 => Behind(mp, p) = Smaller(p + 1 + b - \ha0, Len(mp))
         /\ LenWidth(b) # 0 => Behind(mp, p) = SkipCounted(mp, p + 1, LenWidth(b))
         /\ Inner(mp, p) = 0
<1>1. NumericWidth(b) = 0
  BY BlobMarkers
<1>2. CASE LenWidth(b) = 0
  <2>1. b \in \ha0 .. \hbf /\ b \in Int /\ \ha0 <= b /\ b <= \hbf
    BY <1>2
  <2>2. Behind(mp, p) = Smaller(p + 1 + b - \ha0, Len(mp))
    BY <1>1, <2>1 DEF Behind
  <2>3. b \notin \h90 .. \h9f /\ b \notin \h80 .. \h8f /\ b # \hde
    BY <2>1
  <2>4. QED
    BY <1>2, <2>2, <2>3 DEF Inner
<1>3. CASE LenWidth(b) = 1
  <2>1. b \in {\hc4, \hd9}
    BY <1>3, BlobMarkers
  <2>2. Behind(mp, p) = SkipCounted(mp, p + 1, 1)
    BY <1>1, <2>1 DEF Behind
  <2>3. b \notin \h90 .. \h9f /\ b \notin \h80 .. \h8f /\ b # \hde
    BY <2>1
  <2>4. Inner(mp, p) = 0
    BY <2>3 DEF Inner
  <2>5. QED
    BY <1>3, <2>2, <2>4
<1>4. CASE LenWidth(b) = 2
  <2>1. b \in {\hc5, \hda}
    BY <1>4, BlobMarkers
  <2>2. Behind(mp, p) = SkipCounted(mp, p + 1, 2)
    BY <1>1, <2>1 DEF Behind
  <2>3. b \notin \h90 .. \h9f /\ b \notin \h80 .. \h8f /\ b # \hde
    BY <2>1
  <2>4. Inner(mp, p) = 0
    BY <2>3 DEF Inner
  <2>5. QED
    BY <1>4, <2>2, <2>4
<1>5. CASE LenWidth(b) = 4
  <2>1. b = \hc6
    BY <1>5, BlobMarkers
  <2>2. Behind(mp, p) = SkipCounted(mp, p + 1, 4)
    BY <1>1, <2>1 DEF Behind
  <2>3. b \notin \h90 .. \h9f /\ b \notin \h80 .. \h8f /\ b # \hde
    BY <2>1
  <2>4. Inner(mp, p) = 0
    BY <2>3 DEF Inner
  <2>5. QED
    BY <1>5, <2>2, <2>4
<1>6. QED
  BY <1>2, <1>3, <1>4, <1>5

\* What has a header is read, and skipped, to its end.
LEMMA BlobLies ==
  ASSUME NEW mp, NEW p, NEW h, NEW d, Heads(h, d), LiesAt(mp, p, h \o d)
  PROVE  /\ mp_read_bytes(mp, p) = [val |-> Some(d), pos |-> p + Len(h \o d)]
         /\ Behind(mp, p) = p + Len(h \o d) /\ Inner(mp, p) = 0
         /\ p < Len(mp)
<1> DEFINE b == h[1]
           w == LenWidth(b)
           q == p + 1 + w
           n == Len(d)
           L == Len(mp)
           u == h \o d
<1>1. /\ h \in Seq(Byte) /\ d \in Seq(Byte) /\ n \in Nat /\ n <= Mib16
      /\ w \in {0, 1, 2, 4} /\ Len(h) = 1 + w /\ Len(u) = 1 + w + n
  BY DEF Heads
<1>2. /\ p \in Nat /\ mp \in Seq(Byte) /\ L \in Nat /\ p + Len(u) <= L
  BY DEF LiesAt
<1>3. LiesAt(mp, p, h) /\ LiesAt(mp, p + Len(h), d)
  BY <1>1, LiesParts
<1>4. mp[p + 1] = b /\ b \in Byte
  <2>1. 1 \in 1 .. Len(h)
    BY <1>1
  <2>2. QED
    BY <1>1, <1>3, <2>1 DEF LiesAt
<1>5. w # 0 => w \in {1, 2, 4} /\ Num(mp, p + 1, w) = n
  <2>1. w # 0 => w \in {1, 2, 4} /\ Num(h, 1, w) = n
    BY <1>1 DEF Heads
  <2>2. QED
    BY <1>1, <1>3, <2>1, NumLies
<1>6. w = 0 => b \in \ha0 .. \hbf /\ b - \ha0 = n
  BY DEF Heads
<1>7. /\ w = 0 => Behind(mp, p) = Smaller(p + 1 + b - \ha0, L)
      /\ w # 0 => Behind(mp, p) = SkipCounted(mp, p + 1, w)
      /\ Inner(mp, p) = 0
  BY <1>1, <1>4, <1>6, BlobBehindIt
<1>8. Bytes(mp, p + Len(h), n) = d
  BY <1>3, LiesBytes
<1>9. mp_read_bytes(mp, p) = IF p >= L THEN [val |-> None, pos |-> p] ELSE BlobBehind(mp, p, b, w)
  BY <1>4 DEF mp_read_bytes
<1> HIDE DEF n, u, L, w, b
<1>10. q = p + Len(h) /\ q \in Nat /\ q + n = p + Len(u) /\ p < L /\ q + n <= L /\ q <= L
  BY <1>1, <1>2
<1> HIDE DEF q
<1>11. mp_read_bytes(mp, p) = BlobBehind(mp, p, b, w)
  BY <1>2, <1>9, <1>10
<1>12. BlobBehind(mp, p, b, w) = Blob(mp, q, n)
  BY <1>1, <1>2, <1>5, <1>6, <1>10 DEF BlobBehind, q, L
<1>13. Blob(mp, q, n) = [val |-> Some(d), pos |-> q + n]
  <2>1. ~(n > Mib16 \/ q + n > Len(mp))
    <3>1. Mib16 \in Nat
      BY MibNat
    <3>2. QED
      BY <1>1, <1>2, <1>10, <3>1 DEF L
  <2>2. QED
    BY <1>8, <1>10, <2>1 DEF Blob
<1>14. Behind(mp, p) = q + n
  <2>1. CASE w = 0
    <3>1. b - \ha0 = n /\ b \in Nat
      BY <1>4, <1>6, <2>1 DEF Byte
    <3>2. p + 1 + b - \ha0 = q + n
      BY <1>1, <1>2, <2>1, <3>1 DEF q
    <3>3. QED
      BY <1>1, <1>2, <1>7, <1>10, <2>1, <3>2 DEF Smaller
  <2>2. CASE w # 0
    <3>1. w \in {1, 2, 4} /\ Num(mp, p + 1, w) = n
      BY <1>5, <2>2
    <3>2. p + 1 + w = q /\ ~(q > L) /\ ~(n > Mib16)
      BY <1>1, <1>2, <1>10, MibNat DEF q
    <3>3. SkipCounted(mp, p + 1, w) = Smaller(q + n, L)
      BY <3>1, <3>2 DEF SkipCounted, L
    <3>4. Smaller(q + n, L) = q + n
      BY <1>1, <1>2, <1>10 DEF Smaller
    <3>5. QED
      BY <1>7, <2>2, <3>3, <3>4
  <2>3. QED
    BY <2>1, <2>2
<1>15. QED
  BY <1>7, <1>10, <1>11, <1>12, <1>13, <1>14 DEF u, L

\* The four bytes of a number up to 16 MiB
LEMMA Digits ==
  ASSUME NEW n \in Nat, n <= Mib16
  PROVE  /\ n \div Mib16 \in 0 .. 1
         /\ (n \div 65536) % 256 \in Byte /\ (n \div 256) % 256 \in Byte /\ n % 256 \in Byte
         /\ 256 * (256 * (256 * (n \div Mib16) + ((n \div 65536) % 256)) + ((n \div 256) % 256))
              + (n % 256) = n
<1> DEFINE M == Mib16  m == n \div 256  k == n \div 65536
           a == k \div 256  b == k % 256  c == m % 256  e == n % 256
<1>0. /\ M = Mib16 /\ b = (n \div 65536) % 256 /\ c = (n \div 256) % 256 /\ e = n % 256
  OBVIOUS
<1>1. M \in Nat /\ M = 256 * 65536
  BY DEF Mib16
<1>2. m \in Nat /\ k \in Nat /\ a \in Nat /\ b \in Byte /\ c \in Byte /\ e \in Byte
  BY DEF Byte
<1>3. n = 256 * m + e /\ k = m \div 256
  OBVIOUS
<1>4. m = 256 * k + c
  BY <1>2, <1>3
<1>5. k = 256 * a + b
  BY <1>2
<1> HIDE DEF m, k, a, b, c, e
<1>6. 256 * (256 * (256 * a + b) + c) + e = n
  BY <1>3, <1>4, <1>5
<1>7. a \in 0 .. 1 /\ n \div M = a
  <2>1. CASE n < M
    <3>1. n \div M = 0
      <4> HIDE DEF M
      <4>1. QED
        BY <1>1, <2>1
    <3>2. a = 0
      BY <1>1, <1>2, <1>6, <2>1 DEF Byte
    <3>3. QED
      BY <3>1, <3>2
  <2>2. CASE n = M
    <3>1. n \div M = 1
      BY <1>1, <2>2
    <3>2. a = 1
      BY <1>1, <1>2, <1>6, <2>2 DEF Byte
    <3>3. QED
      BY <3>1, <3>2
  <2>3. QED
    BY <1>1, <2>1, <2>2
<1> HIDE DEF M
<1>8. QED
  BY <1>0, <1>2, <1>6, <1>7

\* A blob is written behind a header.
LEMMA BinHeads ==
  ASSUME NEW d \in BlobData
  PROVE  Heads(BinHeader(Len(d)), d)
<1> DEFINE n == Len(d)
<1>1. d \in Seq(Byte) /\ n \in Nat /\ n <= Mib16
  BY DEF BlobData
<1> SUFFICES Heads(BinHeader(n), d)
  OBVIOUS
<1> HIDE DEF n
<1>2. CASE n < 256
  <2> DEFINE h == <<\hc4, n>>
  <2>1. h \in Seq(Byte) /\ Len(h) = 2 /\ h[1] = \hc4 /\ h[2] = n
    BY <1>1, <1>2 DEF Byte
  <2>2. LenWidth(h[1]) = 1
    BY <2>1 DEF LenWidth
  <2>3. Num(h, 1, 1) = n
    BY <2>1 DEF Num
  <2>4. Heads(h, d)
    BY <1>1, <2>1, <2>2, <2>3, MibNat DEF Heads, n
  <2>5. BinHeader(n) = h
    BY <1>1, <1>2 DEF BinHeader
  <2>6. QED
    BY <2>4, <2>5
<1>3. CASE n >= 256 /\ n < 65536
  <2> DEFINE h == <<\hc5, n \div 256, n % 256>>
  <2>0. n \div 256 \in Byte /\ n % 256 \in Byte /\ 256 * (n \div 256) + (n % 256) = n
    BY <1>1, <1>3 DEF Byte
  <2>1. h \in Seq(Byte) /\ Len(h) = 3 /\ h[1] = \hc5 /\ h[2] = n \div 256 /\ h[3] = n % 256
    BY <2>0 DEF Byte
  <2>2. LenWidth(h[1]) = 2
    BY <2>1 DEF LenWidth
  <2>3. Num(h, 1, 2) = n
    <3>1. Num(h, 1, 2) = 256 * h[1 + 1] + h[1 + 2] /\ h[1 + 1] = h[2] /\ h[1 + 2] = h[3]
      BY DEF Num
    <3>2. QED
      BY <2>0, <2>1, <3>1
  <2>4. Heads(h, d)
    BY <1>1, <2>1, <2>2, <2>3, MibNat DEF Heads, n
  <2>5. BinHeader(n) = h
    BY <1>1, <1>3 DEF BinHeader
  <2>6. QED
    BY <2>4, <2>5
<1>4. CASE n >= 65536
  <2> DEFINE a == n \div Mib16  b == (n \div 65536) % 256  c == (n \div 256) % 256  e == n % 256
             h == <<\hc6, a, b, c, e>>
  <2>0. /\ a \in 0 .. 1 /\ b \in Byte /\ c \in Byte /\ e \in Byte
        /\ 256 * (256 * (256 * a + b) + c) + e = n
    BY <1>1, Digits
  <2> HIDE DEF a, b, c, e
  <2>1. /\ h \in Seq(Byte) /\ Len(h) = 5 /\ h[1] = \hc6
        /\ h[2] = a /\ h[3] = b /\ h[4] = c /\ h[5] = e
    BY <2>0 DEF Byte
  <2>2. LenWidth(h[1]) = 4
    BY <2>1 DEF LenWidth
  <2>3. Num(h, 1, 4) = n
    BY <2>0, <2>1 DEF Num
  <2>4. Heads(h, d)
    BY <1>1, <2>1, <2>2, <2>3, MibNat DEF Heads, n
  <2>5. BinHeader(n) = h
    BY <1>1, <1>4 DEF BinHeader, a, b, c, e
  <2>6. QED
    BY <2>4, <2>5
<1>5. n < 256 \/ (n >= 256 /\ n < 65536) \/ n >= 65536
  BY <1>1
<1>6. QED
  BY <1>1, <1>2, <1>3, <1>4, <1>5

\* A text is written behind a header.
LEMMA StrHeads ==
  ASSUME NEW d \in Name
  PROVE  Heads(StrHeader(Len(d)), d)
<1> DEFINE n == Len(d)
<1>1. d \in Seq(Byte) /\ n \in Nat /\ n < 65536
  BY DEF Name
<1> SUFFICES Heads(StrHeader(n), d)
  OBVIOUS
<1> HIDE DEF n
<1>2. CASE n < 32
  <2> DEFINE h == <<\ha0 + n>>
  <2>1. h \in Seq(Byte) /\ Len(h) = 1 /\ h[1] = \ha0 + n
    BY <1>1, <1>2 DEF Byte
  <2>2. LenWidth(h[1]) = 0 /\ h[1] \in \ha0 .. \hbf /\ h[1] - \ha0 = n
    <3>1. h[1] \in Nat /\ \ha0 <= h[1] /\ h[1] <= \hbf /\ h[1] - \ha0 = n
      BY <1>1, <1>2, <2>1
    <3>2. QED
      BY <3>1 DEF LenWidth
  <2>3. Heads(h, d)
    BY <1>1, <2>1, <2>2, MibNat DEF Heads, n
  <2>4. StrHeader(n) = h
    BY <1>1, <1>2 DEF StrHeader
  <2>5. QED
    BY <2>3, <2>4
<1>3. CASE n >= 32 /\ n < 256
  <2> DEFINE h == <<\hd9, n>>
  <2>1. h \in Seq(Byte) /\ Len(h) = 2 /\ h[1] = \hd9 /\ h[2] = n
    BY <1>1, <1>3 DEF Byte
  <2>2. LenWidth(h[1]) = 1
    BY <2>1 DEF LenWidth
  <2>3. Num(h, 1, 1) = n
    BY <2>1 DEF Num
  <2>4. Heads(h, d)
    BY <1>1, <2>1, <2>2, <2>3, MibNat DEF Heads, n
  <2>5. StrHeader(n) = h
    BY <1>1, <1>3 DEF StrHeader
  <2>6. QED
    BY <2>4, <2>5
<1>4. CASE n >= 256
  <2> DEFINE a == (n \div 256) % 256  b == n % 256
             h == <<\hda, a, b>>
  <2>0. a \in Byte /\ b \in Byte /\ 256 * a + b = n
    BY <1>1, <1>4 DEF Byte
  <2> HIDE DEF a, b
  <2>1. h \in Seq(Byte) /\ Len(h) = 3 /\ h[1] = \hda /\ h[2] = a /\ h[3] = b
    BY <2>0 DEF Byte
  <2>2. LenWidth(h[1]) = 2
    BY <2>1 DEF LenWidth
  <2>3. Num(h, 1, 2) = n
    <3>1. Num(h, 1, 2) = 256 * h[1 + 1] + h[1 + 2] /\ h[1 + 1] = h[2] /\ h[1 + 2] = h[3]
      BY DEF Num
    <3>2. QED
      BY <2>0, <2>1, <3>1
  <2>4. Heads(h, d)
    BY <1>1, <2>1, <2>2, <2>3, MibNat DEF Heads, n
  <2>5. StrHeader(n) = h
    BY <1>1, <1>4 DEF StrHeader, a, b
  <2>6. QED
    BY <2>4, <2>5
<1>5. n < 32 \/ (n >= 32 /\ n < 256) \/ n >= 256
  BY <1>1
<1>6. QED
  BY <1>2, <1>3, <1>4, <1>5, Zenon

-----------------------------------------------------------------------------
(* Skipping                                                                *)

\* run does a step again and again, from x.
Iterates(run, D, x, step) ==
  run \in [Nat -> D] /\ run[0] = x /\ \A k \in Nat \ {0} : run[k] = step[run[k - 1]]

\* A step can be done again and again.
LEMMA Iteration ==
  ASSUME NEW D, NEW x \in D, NEW step \in [D -> D]
  PROVE  \E run : Iterates(run, D, x, step)
<1> DEFINE Upto(m, r) == /\ r \in [0 .. m -> D] /\ r[0] = x
                         /\ \A k \in 1 .. m : r[k] = step[r[k - 1]]
           Run(m) == CHOOSE r : Upto(m, r)
           run == [m \in Nat |-> Run(m)[m]]
           one == [y \in D \X {0} |-> step[y[1]]]
<1>1. ASSUME NEW m \in Nat
      PROVE  Upto(m, Run(m))
  <2> DEFINE s == [i \in 1 .. m |-> 0]
  <2>1. s \in Seq({0}) /\ Len(s) = m /\ \A i \in 1 .. m : s[i] = 0
    OBVIOUS
  <2>2. one \in [D \X {0} -> D] /\ \A y \in D : one[<<y, 0>>] = step[y]
    OBVIOUS
  <2> HIDE DEF s, one
  <2>3. PICK r : IsRun(r, D, one, x, s)
    <3>1. Steps(D, {0}, one, x, s)
      BY <2>1, <2>2 DEF Steps
    <3>2. QED
      BY <3>1, RunExists
  <2>4. r \in [0 .. m -> D] /\ r[0] = x
    BY <2>1, <2>3 DEF IsRun
  <2>5. \A k \in 1 .. m : r[k] = step[r[k - 1]]
    <3>1. ASSUME NEW k \in 1 .. m
          PROVE  r[k] = step[r[k - 1]]
      <4>1. r[k] = one[<<r[k - 1], s[k]>>] /\ s[k] = 0
        BY <2>1, <2>3 DEF IsRun
      <4>2. r[k - 1] \in D
        BY <2>4
      <4>3. QED
        BY <2>2, <4>1, <4>2
    <3>2. QED
      BY <3>1
  <2>6. Upto(m, r)
    BY <2>4, <2>5
  <2> HIDE DEF Upto
  <2>7. QED
    BY <2>6, Zenon
<1> HIDE DEF Run
<1>2. ASSUME NEW m \in Nat, NEW n \in Nat, m <= n
      PROVE  \A i \in 0 .. m : Run(m)[i] = Run(n)[i]
  <2> DEFINE T == {i \in Nat : Run(m)[i] = Run(n)[i]}
  <2>1. Upto(m, Run(m)) /\ Upto(n, Run(n))
    BY <1>1
  <2>2. 0 \in T
    BY <2>1
  <2>3. ASSUME NEW i \in 0 + 1 .. m, i - 1 \in T
        PROVE  i \in T
    <3>1. i \in 1 .. m /\ i \in 1 .. n /\ i \in Nat
      BY <1>2
    <3>2. Run(m)[i] = step[Run(m)[i - 1]] /\ Run(n)[i] = step[Run(n)[i - 1]]
      BY <2>1, <3>1
    <3>3. QED
      BY <2>3, <3>1, <3>2
  <2> HIDE DEF T
  <2>4. \A i \in 0 .. m : i \in T
    BY <2>2, <2>3, Induct
  <2>5. QED
    BY <2>4 DEF T
<1>3. run \in [Nat -> D]
  <2>1. ASSUME NEW m \in Nat
        PROVE  Run(m)[m] \in D
    <3>1. Upto(m, Run(m)) /\ m \in 0 .. m
      BY <1>1
    <3>2. QED
      BY <3>1
  <2>2. QED
    BY <2>1
<1>4. run[0] = x
  <2>1. Upto(0, Run(0)) /\ 0 \in Nat
    BY <1>1
  <2>2. QED
    BY <2>1
<1>5. ASSUME NEW k \in Nat \ {0}
      PROVE  run[k] = step[run[k - 1]]
  <2>1. k \in Nat /\ k - 1 \in Nat /\ k - 1 <= k /\ k - 1 \in 0 .. k - 1 /\ k \in 1 .. k
    OBVIOUS
  <2>2. Upto(k, Run(k))
    BY <1>1, <2>1
  <2>3. Run(k)[k] = step[Run(k)[k - 1]]
    BY <2>1, <2>2
  <2>4. Run(k - 1)[k - 1] = Run(k)[k - 1]
    BY <1>2, <2>1
  <2>5. run[k] = Run(k)[k] /\ run[k - 1] = Run(k - 1)[k - 1]
    BY <2>1
  <2>6. QED
    BY <2>3, <2>4, <2>5
<1> HIDE DEF run
<1>6. QED
  BY <1>3, <1>4, <1>5 DEF Iterates

\* The skip of a buffer, as the function that mp_skip applies
IsSkip(after, mp) ==
  after = [x \in Nat \X Nat \X Nat |->
             LET k == x[1]
                 p == x[2]
                 d == x[3]
             IN IF k = 0 \/ d > MaxDepth \/ p >= Len(mp) THEN p
                ELSE after[<<k - 1, after[<<Inner(mp, p), Behind(mp, p), d + 1>>], d>>]]

\* Where it is behind the value at offset p, and its value at one point
Into(after, mp, p, d) == after[<<Inner(mp, p), Behind(mp, p), d + 1>>]
Skipping(after, mp, k, p, d) ==
  IF k = 0 \/ d > MaxDepth \/ p >= Len(mp) THEN p ELSE after[<<k - 1, Into(after, mp, p, d), d>>]

\* The function takes one step at a time.
LEMMA SkipAt ==
  ASSUME NEW mp, NEW after, IsSkip(after, mp), NEW k \in Nat, NEW p \in Nat, NEW d \in Nat
  PROVE  after[<<k, p, d>>] = Skipping(after, mp, k, p, d)
<1>1. <<k, p, d>> \in Nat \X Nat \X Nat
  OBVIOUS
<1>2. QED
  BY <1>1 DEF IsSkip, Skipping, Into

\* A number that is read is one.
LEMMA NumNat ==
  ASSUME NEW mp \in Seq(Byte), NEW q \in Nat, NEW w \in {1, 2, 4}, q + w <= Len(mp)
  PROVE  Num(mp, q, w) \in Nat
<1>1. \A i \in 1 .. w : mp[q + i] \in Nat
  BY DEF Byte
<1>2. CASE w = 1
  BY <1>1, <1>2 DEF Num
<1>3. CASE w = 2
  <2>1. Num(mp, q, w) = 256 * mp[q + 1] + mp[q + 2] /\ mp[q + 1] \in Nat /\ mp[q + 2] \in Nat
    BY <1>1, <1>3 DEF Num
  <2>2. QED
    BY <2>1
<1>4. CASE w = 4
  <2> DEFINE a == mp[q + 1]  b == mp[q + 2]  c == mp[q + 3]  e == mp[q + 4]
  <2>1. a \in Nat /\ b \in Nat /\ c \in Nat /\ e \in Nat
    BY <1>1, <1>4
  <2>2. Num(mp, q, w) = IF a > 1 THEN Mib16 + 1 ELSE 256 * (256 * (256 * a + b) + c) + e
    <3>1. CASE a > 1
      BY <1>4, <2>1, <3>1 DEF Num
    <3>2. CASE ~(a > 1)
      BY <1>4, <2>1, <3>2 DEF Num
    <3>3. QED
      BY <3>1, <3>2
  <2> HIDE DEF a, b, c, e
  <2>3. QED
    BY <2>1, <2>2, MibNat
<1>5. QED
  BY <1>2, <1>3, <1>4

\* What is skipped is counted by natural numbers.
LEMMA SkipNat ==
  ASSUME NEW mp \in Seq(Byte), NEW p \in Nat, p < Len(mp)
  PROVE  Inner(mp, p) \in Nat /\ Behind(mp, p) \in Nat
<1> DEFINE b == mp[p + 1]
           L == Len(mp)
<1>1. b \in Nat /\ b < 256 /\ L \in Nat
  BY DEF Byte
<1>a. Inner(mp, p) = CASE b \in \h90 .. \h9f -> b - \h90
                      [] b \in \h80 .. \h8f -> 2 * (b - \h80)
                      [] b = \hde /\ p + 3 <= L -> 2 * Num(mp, p + 1, 2)
                      [] OTHER -> 0
  BY DEF Inner
<1>b. Behind(mp, p) = CASE NumericWidth(b) > 0 -> Smaller(p + 1 + NumericWidth(b), L)
                       [] b \in \ha0 .. \hbf -> Smaller(p + 1 + b - \ha0, L)
                       [] b \in {\hd9, \hc4} -> SkipCounted(mp, p + 1, 1)
                       [] b \in {\hda, \hc5, \hdc} -> SkipCounted(mp, p + 1, 2)
                       [] b \in {\hdb, \hc6, \hdd} -> SkipCounted(mp, p + 1, 4)
                       [] b = \hde /\ p + 3 <= L -> p + 3
                       [] OTHER -> p + 1
  BY DEF Behind
<1> HIDE DEF b, L
<1>2. \A m, n \in Nat : Smaller(m, n) \in Nat
  BY DEF Smaller
<1>3. NumericWidth(b) \in Nat
  BY DEF NumericWidth
<1>4. ASSUME NEW w \in {1, 2, 4}
      PROVE  SkipCounted(mp, p + 1, w) \in Nat
  <2>1. CASE p + 1 + w > L
    BY <1>1, <2>1 DEF SkipCounted, L
  <2>2. CASE ~(p + 1 + w > L)
    <3> DEFINE n == Num(mp, p + 1, w)
    <3>1. n \in Nat
      BY <1>1, <2>2, NumNat DEF L
    <3>2. Smaller(p + 1 + w + n, L) \in Nat
      <4> HIDE DEF n
      <4>1. p + 1 + w + n \in Nat
        BY <3>1
      <4>2. QED
        BY <1>1, <1>2, <4>1
    <3>3. SkipCounted(mp, p + 1, w) \in {L, Smaller(p + 1 + w + n, L)}
      <4> HIDE DEF n
      <4>1. n = Num(mp, p + 1, w)
        BY DEF n
      <4>2. QED
        BY <1>1, <2>2, <4>1 DEF SkipCounted, L
    <3>4. QED
      BY <1>1, <3>2, <3>3
  <2>3. QED
    BY <2>1, <2>2
<1>5. p + 3 <= L => Num(mp, p + 1, 2) \in Nat
  BY <1>1, NumNat DEF L
<1>6. Inner(mp, p) \in Nat
  <2>1. CASE b \in \h90 .. \h9f
    <3>2. \h90 <= b /\ b \notin \h80 .. \h8f /\ b # \hde
      BY <1>1, <2>1
    <3>1. Inner(mp, p) = b - \h90
      BY <1>a, <2>1, <3>2
    <3>3. QED
      BY <1>1, <3>1, <3>2
  <2>2. CASE b \in \h80 .. \h8f
    <3>1. b \notin \h90 .. \h9f /\ \h80 <= b /\ b # \hde
      BY <1>1, <2>2
    <3>2. Inner(mp, p) = 2 * (b - \h80)
      BY <1>a, <2>2, <3>1
    <3>3. QED
      BY <1>1, <3>1, <3>2
  <2>3. CASE b \notin \h90 .. \h9f /\ b \notin \h80 .. \h8f
    <3>1. Inner(mp, p) = IF b = \hde /\ p + 3 <= L THEN 2 * Num(mp, p + 1, 2) ELSE 0
      BY <1>a, <2>3
    <3>2. QED
      BY <1>5, <3>1
  <2>4. QED
    BY <2>1, <2>2, <2>3
<1>7. Behind(mp, p) \in Nat
  <2>1. CASE NumericWidth(b) > 0
    <3>a. b \in {\hcc, \hd0, \hcd, \hd1, \hca, \hce, \hd2, \hcb, \hcf, \hd3}
      BY <2>1 DEF NumericWidth
    <3>b. /\ b \notin \ha0 .. \hbf /\ b # \hde
          /\ b \notin {\hd9, \hc4} \cup {\hda, \hc5, \hdc} \cup {\hdb, \hc6, \hdd}
      BY <3>a
    <3>1. Behind(mp, p) = Smaller(p + 1 + NumericWidth(b), L)
      BY <1>b, <2>1, <3>b
    <3>2. p + 1 + NumericWidth(b) \in Nat
      BY <1>3
    <3>3. QED
      BY <1>1, <1>2, <3>1, <3>2
  <2>2. CASE ~(NumericWidth(b) > 0) /\ b \in \ha0 .. \hbf
    <3>b. /\ b # \hde
          /\ b \notin {\hd9, \hc4} \cup {\hda, \hc5, \hdc} \cup {\hdb, \hc6, \hdd}
      BY <1>1, <2>2
    <3>1. Behind(mp, p) = Smaller(p + 1 + b - \ha0, L)
      BY <1>b, <2>2, <3>b
    <3>2. \ha0 <= b
      BY <2>2
    <3>3. p + 1 + b - \ha0 \in Nat
      BY <1>1, <3>2
    <3>4. QED
      BY <1>1, <1>2, <3>1, <3>3
  <2>3. CASE ~(NumericWidth(b) > 0) /\ b \notin \ha0 .. \hbf
    <3>1. Behind(mp, p) \in {SkipCounted(mp, p + 1, 1), SkipCounted(mp, p + 1, 2),
                             SkipCounted(mp, p + 1, 4), p + 3, p + 1}
      <4> DEFINE x == SkipCounted(mp, p + 1, 1)
                 y == SkipCounted(mp, p + 1, 2)
                 z == SkipCounted(mp, p + 1, 4)
      <4>1. Behind(mp, p) =
              CASE b \in {\hd9, \hc4} -> x
                [] b \in {\hda, \hc5, \hdc} -> y
                [] b \in {\hdb, \hc6, \hdd} -> z
                [] b = \hde /\ p + 3 <= L -> p + 3
                [] OTHER -> p + 1
        BY <1>b, <2>3
      <4> HIDE DEF x, y, z
      <4>2. Behind(mp, p) \in {x, y, z, p + 3, p + 1}
        BY <4>1
      <4>3. QED
        BY <4>2 DEF x, y, z
    <3>2. QED
      BY <1>4, <3>1
  <2>4. QED
    BY <2>1, <2>2, <2>3
<1>8. QED
  BY <1>6, <1>7

\* Skipping in containers of one depth, given how the next depth is skipped
NextDepth(mp, g, h) ==
  \A k, p \in Nat :
    h[<<k, p>>] = IF k = 0 \/ p >= Len(mp) THEN p
                  ELSE h[<<k - 1, g[<<Inner(mp, p), Behind(mp, p)>>]>>]

\* One depth follows from the next.
LEMMA DepthExists ==
  ASSUME NEW mp \in Seq(Byte), NEW g \in [Nat \X Nat -> Nat]
  PROVE  \E h \in [Nat \X Nat -> Nat] : NextDepth(mp, g, h)
<1> DEFINE D == [Nat -> Nat]
           to == [p \in Nat |-> IF p >= Len(mp) THEN p ELSE g[<<Inner(mp, p), Behind(mp, p)>>]]
           id == [p \in Nat |-> p]
           step == [f \in D |-> [p \in Nat |-> IF p >= Len(mp) THEN p ELSE f[to[p]]]]
<1>1. to \in D
  <2>1. ASSUME NEW p \in Nat, p < Len(mp)
        PROVE  g[<<Inner(mp, p), Behind(mp, p)>>] \in Nat
    <3>1. Inner(mp, p) \in Nat /\ Behind(mp, p) \in Nat
      BY <2>1, SkipNat
    <3>2. QED
      BY <3>1
  <2>2. Len(mp) \in Nat
    OBVIOUS
  <2>3. QED
    BY <2>1, <2>2
<1>2. \A p \in Nat : p < Len(mp) => to[p] = g[<<Inner(mp, p), Behind(mp, p)>>]
  OBVIOUS
<1> HIDE DEF to
<1>3. id \in D /\ step \in [D -> D] /\ \A p \in Nat : id[p] = p
  BY <1>1
<1>4. \A f \in D, p \in Nat : step[f][p] = IF p >= Len(mp) THEN p ELSE f[to[p]]
  OBVIOUS
<1> HIDE DEF id, step
<1>5. PICK run \in [Nat -> D] : run[0] = id /\ \A k \in Nat \ {0} : run[k] = step[run[k - 1]]
  <2> HIDE DEF D
  <2>1. \E run : Iterates(run, D, id, step)
    BY <1>3, Iteration
  <2>2. QED
    BY <2>1 DEF Iterates
<1> DEFINE h == [x \in Nat \X Nat |-> run[x[1]][x[2]]]
<1>6. h \in [Nat \X Nat -> Nat] /\ \A k, p \in Nat : h[<<k, p>>] = run[k][p]
  <2>1. \A k, p \in Nat : run[k][p] \in Nat
    BY <1>5
  <2>2. \A x \in Nat \X Nat : run[x[1]][x[2]] \in Nat
    BY <2>1
  <2>3. h \in [Nat \X Nat -> Nat]
    BY <2>2
  <2>4. \A k, p \in Nat : h[<<k, p>>] = run[k][p]
    OBVIOUS
  <2>5. QED
    BY <2>3, <2>4
<1> HIDE DEF h
<1>7. ASSUME NEW k \in Nat, NEW p \in Nat
      PROVE  h[<<k, p>>] = IF k = 0 \/ p >= Len(mp) THEN p
                           ELSE h[<<k - 1, g[<<Inner(mp, p), Behind(mp, p)>>]>>]
  <2>1. CASE k = 0
    BY <1>3, <1>5, <1>6, <2>1
  <2>2. CASE k # 0
    <3>0. k - 1 \in Nat /\ k \in Nat \ {0}
      BY <2>2
    <3>1. k - 1 \in Nat /\ k \in Nat \ {0} /\ run[k - 1] \in D
      <4> HIDE DEF D
      <4>1. QED
        BY <1>5, <3>0
    <3>2. run[k] = step[run[k - 1]]
      BY <1>5, <3>1
    <3>3. run[k][p] = IF p >= Len(mp) THEN p ELSE run[k - 1][to[p]]
      BY <1>4, <3>1, <3>2
    <3>4. CASE p >= Len(mp)
      BY <1>6, <3>3, <3>4
    <3>5. CASE ~(p >= Len(mp))
      <4>1. to[p] = g[<<Inner(mp, p), Behind(mp, p)>>] /\ to[p] \in Nat
        BY <1>1, <1>2, <3>5
      <4>2. h[<<k, p>>] = run[k - 1][to[p]] /\ h[<<k - 1, to[p]>>] = run[k - 1][to[p]]
        BY <1>6, <3>1, <3>3, <3>5, <4>1
      <4>3. QED
        BY <2>2, <3>5, <4>1, <4>2
    <3>6. QED
      BY <3>4, <3>5
  <2>3. QED
    BY <2>1, <2>2
<1>8. QED
  BY <1>6, <1>7 DEF NextDepth

\* The skip of a buffer is a function.
LEMMA SkipExists ==
  ASSUME NEW mp \in Seq(Byte)
  PROVE  \E after : IsSkip(after, mp) /\ after \in [Nat \X Nat \X Nat -> Nat]
<1> DEFINE D == [Nat \X Nat -> Nat]
           Next1(g) == CHOOSE h \in D : NextDepth(mp, g, h)
           step == [g \in D |-> Next1(g)]
           id == [x \in Nat \X Nat |-> x[2]]
<1>1. \A g \in D : Next1(g) \in D /\ NextDepth(mp, g, Next1(g))
  BY DepthExists
<1> HIDE DEF Next1
<1>2. id \in D /\ \A k, p \in Nat : id[<<k, p>>] = p
  OBVIOUS
<1>3. step \in [D -> D] /\ \A g \in D : NextDepth(mp, g, step[g])
  BY <1>1
<1> HIDE DEF step, id
<1>4. PICK E \in [Nat -> D] : E[0] = id /\ \A n \in Nat \ {0} : E[n] = step[E[n - 1]]
  <2> HIDE DEF D
  <2>1. \E run : Iterates(run, D, id, step)
    BY <1>2, <1>3, Iteration
  <2>2. QED
    BY <2>1 DEF Iterates
<1> DEFINE after == [x \in Nat \X Nat \X Nat |->
                       IF x[3] > MaxDepth THEN x[2] ELSE E[MaxDepth + 1 - x[3]][<<x[1], x[2]>>]]
<1>5. MaxDepth = 16
  BY DEF MaxDepth
<1>6. \A n \in Nat : E[n] \in D
  BY <1>4
<1>7. after \in [Nat \X Nat \X Nat -> Nat]
  <2>1. ASSUME NEW x \in Nat \X Nat \X Nat, ~(x[3] > MaxDepth)
        PROVE  E[MaxDepth + 1 - x[3]][<<x[1], x[2]>>] \in Nat
    <3>a. x[3] \in Nat /\ x[1] \in Nat /\ x[2] \in Nat
      OBVIOUS
    <3>b. MaxDepth + 1 - x[3] \in Nat
      BY <1>5, <2>1, <3>a
    <3>1. MaxDepth + 1 - x[3] \in Nat /\ <<x[1], x[2]>> \in Nat \X Nat
      BY <3>a, <3>b
    <3>2. E[MaxDepth + 1 - x[3]] \in D
      BY <1>6, <3>1
    <3>3. QED
      BY <3>1, <3>2
  <2>2. QED
    BY <2>1
<1>8. \A k, p, d \in Nat : after[<<k, p, d>>] = IF d > MaxDepth THEN p
                                               ELSE E[MaxDepth + 1 - d][<<k, p>>]
  OBVIOUS
<1> HIDE DEF after
<1>9. ASSUME NEW k \in Nat, NEW p \in Nat, NEW d \in Nat
      PROVE  after[<<k, p, d>>] =
               IF k = 0 \/ d > MaxDepth \/ p >= Len(mp) THEN p
               ELSE after[<<k - 1, after[<<Inner(mp, p), Behind(mp, p), d + 1>>], d>>]
  <2>1. CASE d > MaxDepth
    BY <1>8, <2>1
  <2>2. CASE ~(d > MaxDepth)
    <3> DEFINE n == MaxDepth + 1 - d
               g == E[n - 1]
    <3>1. n \in Nat \ {0} /\ n - 1 \in Nat
      BY <1>5, <2>2
    <3>2. g \in D /\ E[n] = step[g]
      BY <1>4, <1>6, <3>1
    <3>3. NextDepth(mp, g, E[n])
      BY <1>3, <3>2
    <3>4. after[<<k, p, d>>] = E[n][<<k, p>>]
      BY <1>8, <2>2
    <3>5. E[n][<<k, p>>] = IF k = 0 \/ p >= Len(mp) THEN p
                           ELSE E[n][<<k - 1, g[<<Inner(mp, p), Behind(mp, p)>>]>>]
      BY <3>3 DEF NextDepth
    <3>6. CASE k = 0 \/ p >= Len(mp)
      BY <3>4, <3>5, <3>6
    <3>7. CASE ~(k = 0 \/ p >= Len(mp))
      <4> DEFINE i == Inner(mp, p)  q == Behind(mp, p)
      <4>1. i \in Nat /\ q \in Nat /\ k - 1 \in Nat
        BY <3>7, SkipNat
      <4> HIDE DEF i, q
      <4>2. after[<<i, q, d + 1>>] = g[<<i, q>>]
        <5>1. CASE d = MaxDepth
          <6>1. n - 1 = 0 /\ d + 1 > MaxDepth
            BY <1>5, <5>1
          <6>2. g = id
            BY <1>4, <6>1
          <6>3. g[<<i, q>>] = q
            BY <1>2, <4>1, <6>2
          <6>4. after[<<i, q, d + 1>>] = q
            <7>1. d + 1 \in Nat /\ d + 1 > MaxDepth
              BY <6>1
            <7>2. QED
              BY <1>8, <4>1, <7>1
          <6>5. QED
            BY <6>3, <6>4
        <5>2. CASE d # MaxDepth
          <6>1. ~(d + 1 > MaxDepth) /\ MaxDepth + 1 - (d + 1) = n - 1 /\ d + 1 \in Nat
            BY <1>5, <2>2, <5>2
          <6>2. QED
            BY <1>8, <4>1, <6>1
        <5>3. QED
          BY <5>1, <5>2
      <4>3. g[<<i, q>>] \in Nat
        BY <3>2, <4>1
      <4>4. after[<<k - 1, g[<<i, q>>], d>>] = E[n][<<k - 1, g[<<i, q>>]>>]
        <5> DEFINE m == g[<<i, q>>]
        <5>1. m \in Nat
          BY <4>3
        <5> HIDE DEF m, g
        <5>2. after[<<k - 1, m, d>>] = E[n][<<k - 1, m>>]
          BY <1>8, <2>2, <4>1, <5>1
        <5>3. QED
          BY <5>2 DEF m
      <4>5. E[n][<<k, p>>] = E[n][<<k - 1, g[<<i, q>>]>>]
        BY <3>5, <3>7 DEF i, q
      <4>6. QED
        BY <2>2, <3>4, <3>7, <4>2, <4>4, <4>5 DEF i, q
    <3>8. QED
      BY <3>6, <3>7
  <2>3. QED
    BY <2>1, <2>2
<1>10. IsSkip(after, mp)
  <2> DEFINE F(x) == LET k == x[1]
                         p == x[2]
                         d == x[3]
                     IN IF k = 0 \/ d > MaxDepth \/ p >= Len(mp) THEN p
                        ELSE after[<<k - 1, after[<<Inner(mp, p), Behind(mp, p), d + 1>>], d>>]
  <2>1. ASSUME NEW x \in Nat \X Nat \X Nat
        PROVE  after[x] = F(x)
    <3>1. PICK k \in Nat, p \in Nat, d \in Nat : x = <<k, p, d>>
      OBVIOUS
    <3>2. x[1] = k /\ x[2] = p /\ x[3] = d
      BY <3>1
    <3>3. QED
      BY <1>9, <3>1, <3>2
  <2>2. after = [x \in Nat \X Nat \X Nat |-> F(x)]
    <3> HIDE DEF F
    <3>1. QED
      BY <1>7, <2>1
  <2>3. QED
    BY <2>2 DEF IsSkip
<1>11. QED
  BY <1>7, <1>10

\* mp_skip applies it.
LEMMA SkipRuns ==
  ASSUME NEW mp \in Seq(Byte)
  PROVE  \E after : IsSkip(after, mp) /\ \A k, p : mp_skip(mp, k, p) = after[<<k, p, 0>>]
<1> DEFINE after == CHOOSE f : IsSkip(f, mp)
<1>1. IsSkip(after, mp)
  BY SkipExists
<1>2. \A k, p : mp_skip(mp, k, p) = after[<<k, p, 0>>]
  BY DEF mp_skip, IsSkip
<1> HIDE DEF after
<1>3. QED
  BY <1>1, <1>2

\* Wherever v lies it is skipped to its end in one step.
Flat(v) ==
  /\ v \in Seq(Byte)
  /\ \A mp, p : LiesAt(mp, p, v) => /\ p < Len(mp)
                                    /\ Behind(mp, p) = p + Len(v) /\ Inner(mp, p) = 0

\* A skip of m values, with k to follow, leads over the bytes s at offset p.
Over(after, s, m, p, k, d) == after[<<k + m, p, d>>] = after[<<k, p + Len(s), d>>]

\* The bytes s are m values, in containers of up to n levels, and a skip of m
\* values leads over them.
Skips(s, m, n) ==
  /\ s \in Seq(Byte)
  /\ \A mp, after, p, k, d :
       /\ mp \in Seq(Byte) /\ IsSkip(after, mp) /\ LiesAt(mp, p, s)
       /\ k \in Nat /\ d \in Nat /\ d + n <= MaxDepth
       => Over(after, s, m, p, k, d)

\* No value, and one
LEMMA SkipNone ==
  ASSUME NEW mp, NEW after, IsSkip(after, mp), NEW p \in Nat, NEW d \in Nat
  PROVE  after[<<0, p, d>>] = p
<1>1. 0 \in Nat
  OBVIOUS
<1>2. after[<<0, p, d>>] = Skipping(after, mp, 0, p, d)
  BY <1>1, SkipAt, Zenon
<1>3. QED
  BY <1>2 DEF Skipping

\* A skip of k + 1 values passes the first one, with what is in it, and then k more.
LEMMA SkipOne ==
  ASSUME NEW mp, NEW after, IsSkip(after, mp), NEW k \in Nat, NEW p \in Nat, NEW d \in Nat,
         d <= MaxDepth, p < Len(mp), Len(mp) \in Nat
  PROVE  after[<<k + 1, p, d>>] = after[<<k, Into(after, mp, p, d), d>>]
<1>1. SUFFICES ASSUME NEW j \in Nat, j = k + 1
               PROVE  after[<<j, p, d>>] = after[<<k, Into(after, mp, p, d), d>>]
  OBVIOUS
<1>2. j # 0 /\ j - 1 = k /\ ~(d > MaxDepth) /\ ~(p >= Len(mp))
  BY <1>1 DEF MaxDepth
<1>3. after[<<j, p, d>>] = Skipping(after, mp, j, p, d)
  BY <1>1, SkipAt
<1>4. QED
  BY <1>2, <1>3 DEF Skipping

\* What Skips says of one skip
LEMMA SkipsAt ==
  ASSUME NEW s, NEW m, NEW n, Skips(s, m, n), NEW mp \in Seq(Byte), NEW after, IsSkip(after, mp),
         NEW p, LiesAt(mp, p, s), NEW k \in Nat, NEW d \in Nat, d + n <= MaxDepth
  PROVE  after[<<k + m, p, d>>] = after[<<k, p + Len(s), d>>]
<1>1. Over(after, s, m, p, k, d)
  BY DEF Skips
<1>2. QED
  BY <1>1 DEF Over

\* A text is read.
LEMMA TextLies ==
  ASSUME NEW mp, NEW p, NEW s, NEW d, Text(s, d), LiesAt(mp, p, s)
  PROVE  mp_read_bytes(mp, p) = [val |-> Some(d), pos |-> p + Len(s)]
<1>1. PICK h : Heads(h, d) /\ s = h \o d
  BY DEF Text
<1>2. QED
  BY <1>1, BlobLies

\* A text is bytes.
LEMMA TextFlat ==
  ASSUME NEW s, NEW d, Text(s, d)
  PROVE  Flat(s) /\ d \in BlobData /\ Len(s) >= 1
<1>1. PICK h : Heads(h, d) /\ s = h \o d
  BY DEF Text
<1>2. h \in Seq(Byte) /\ d \in Seq(Byte) /\ Len(h) >= 1 /\ d \in BlobData
  BY <1>1 DEF Heads, BlobData
<1>3. s \in Seq(Byte) /\ Len(s) = Len(h) + Len(d) /\ Len(d) \in Nat
  BY <1>1, <1>2
<1>4. \A mp, p : LiesAt(mp, p, s) => /\ p < Len(mp)
                                    /\ Behind(mp, p) = p + Len(s) /\ Inner(mp, p) = 0
  BY <1>1, BlobLies
<1>5. QED
  BY <1>2, <1>3, <1>4 DEF Flat

\* What this client writes is a text.
LEMMA OwnTexts ==
  /\ \A d \in BlobData : Text(mp_bin(d), d)
  /\ \A d \in Name : Text(mp_str(d), d)
<1>1. \A d \in BlobData : Text(mp_bin(d), d)
  BY BinHeads DEF Text, mp_bin
<1>2. \A d \in Name : Text(mp_str(d), d)
  BY StrHeads DEF Text, mp_str
<1>3. QED
  BY <1>1, <1>2

\* Numbers, booleans and nil are skipped to their end.
LEMMA ScalarFlat ==
  ASSUME NEW v, Scalar(v)
  PROVE  Flat(v)
<1> DEFINE b == v[1]
<1>1. v \in Seq(Byte) /\ Len(v) = 1 + NumericWidth(b) /\ NumericWidth(b) \in Nat
  BY DEF Scalar, NumericWidth
<1>2. b \in Nat /\ b < 256
  <2>1. 1 \in 1 .. Len(v)
    BY <1>1
  <2>2. QED
    BY <1>1, <2>1 DEF Byte
<1>3. /\ b \notin \ha0 .. \hbf /\ b \notin \h80 .. \h8f /\ b \notin \h90 .. \h9f /\ b # \hde
      /\ b \notin {\hd9, \hc4} \cup {\hda, \hc5, \hdc} \cup {\hdb, \hc6, \hdd}
  <2>1. b \in 0 .. \h7f \cup \he0 .. \hff \cup {\hc0, \hc2, \hc3} \cup \hca .. \hd3
    BY DEF Scalar
  <2> HIDE DEF b
  <2>2. b <= \h7f \/ \he0 <= b \/ b \in {\hc0, \hc2, \hc3} \/ (\hca <= b /\ b <= \hd3)
    BY <1>2, <2>1
  <2>3. QED
    BY <1>2, <2>2
<1>4. ASSUME NEW mp, NEW p, LiesAt(mp, p, v)
      PROVE  p < Len(mp) /\ Behind(mp, p) = p + Len(v) /\ Inner(mp, p) = 0
  <2> DEFINE L == Len(mp)
  <2>1. /\ p \in Nat /\ mp \in Seq(Byte) /\ L \in Nat /\ p + Len(v) <= L
        /\ mp[p + 1] = b
    BY <1>1, <1>4 DEF LiesAt
  <2> HIDE DEF b, L
  <2>2. p + 1 + NumericWidth(b) <= L /\ p + 1 + NumericWidth(b) = p + Len(v) /\ p < L
    BY <1>1, <2>1
  <2>3. Inner(mp, p) = 0
    BY <1>3, <2>1 DEF Inner
  <2>4. CASE NumericWidth(b) > 0
    <3>1. Behind(mp, p) = Smaller(p + 1 + NumericWidth(b), L)
      BY <1>3, <2>1, <2>4 DEF Behind, L
    <3>2. QED
      BY <2>1, <2>2, <2>3, <3>1 DEF Smaller, L
  <2>5. CASE ~(NumericWidth(b) > 0)
    <3>1. Behind(mp, p) = p + 1
      BY <1>3, <2>1, <2>5 DEF Behind
    <3>2. NumericWidth(b) = 0
      BY <1>1, <2>5
    <3>3. QED
      BY <2>1, <2>2, <2>3, <3>1, <3>2 DEF L
  <2>6. QED
    BY <2>4, <2>5
<1>5. QED
  BY <1>1, <1>4 DEF Flat

\* One flat value
LEMMA SkipsFlat ==
  ASSUME NEW v, Flat(v)
  PROVE  Skips(v, 1, 0)
<1>1. SUFFICES ASSUME NEW mp, NEW after, NEW p, NEW k, NEW d,
                      mp \in Seq(Byte), IsSkip(after, mp), LiesAt(mp, p, v),
                      k \in Nat, d \in Nat, d + 0 <= MaxDepth
               PROVE  after[<<k + 1, p, d>>] = after[<<k, p + Len(v), d>>]
  BY DEF Skips, Flat, Over
<1>2. /\ p \in Nat /\ p < Len(mp) /\ Len(mp) \in Nat /\ Len(v) \in Nat
      /\ Behind(mp, p) = p + Len(v) /\ Inner(mp, p) = 0
  <2>1. p \in Nat /\ Len(mp) \in Nat /\ Len(v) \in Nat
    BY <1>1 DEF LiesAt
  <2>2. p < Len(mp) /\ Behind(mp, p) = p + Len(v) /\ Inner(mp, p) = 0
    BY <1>1 DEF Flat
  <2>3. QED
    BY <2>1, <2>2
<1> DEFINE q == p + Len(v)
<1>3. q \in Nat /\ k + 1 \in Nat /\ d + 1 \in Nat /\ k + 1 # 0 /\ k + 1 - 1 = k
  BY <1>1, <1>2
<1>4. d <= MaxDepth
  BY <1>1, <1>2 DEF MaxDepth
<1> HIDE DEF q
<1>5. after[<<k + 1, p, d>>] = after[<<k, after[<<0, q, d + 1>>], d>>]
  <2>1. Inner(mp, p) = 0 /\ Behind(mp, p) = q
    BY <1>2 DEF q
  <2>2. after[<<k + 1, p, d>>] = after[<<k, Into(after, mp, p, d), d>>]
    BY <1>1, <1>2, <1>4, SkipOne
  <2>3. QED
    BY <2>1, <2>2 DEF Into
<1>6. after[<<0, q, d + 1>>] = q
  BY <1>1, <1>3, SkipNone
<1>7. QED
  BY <1>3, <1>5, <1>6 DEF q

\* Values one behind the other
LEMMA SkipsJoin ==
  ASSUME NEW s, NEW t, NEW m \in Nat, NEW n \in Nat, NEW l \in Nat, Skips(s, m, l), Skips(t, n, l)
  PROVE  Skips(s \o t, m + n, l)
<1>1. s \in Seq(Byte) /\ t \in Seq(Byte)
  BY DEF Skips
<1>2. s \o t \in Seq(Byte) /\ Len(s \o t) = Len(s) + Len(t) /\ Len(s) \in Nat /\ Len(t) \in Nat
  BY <1>1
<1>3. SUFFICES ASSUME NEW mp, NEW after, NEW p, NEW k, NEW d,
                      mp \in Seq(Byte), IsSkip(after, mp), LiesAt(mp, p, s \o t),
                      k \in Nat, d \in Nat, d + l <= MaxDepth
               PROVE  after[<<k + (m + n), p, d>>] = after[<<k, p + Len(s \o t), d>>]
  BY <1>2 DEF Skips, Over
<1>4. LiesAt(mp, p, s) /\ LiesAt(mp, p + Len(s), t) /\ p \in Nat
  <2>1. p \in Nat
    BY <1>3 DEF LiesAt
  <2>2. QED
    BY <1>1, <1>3, <2>1, LiesParts
<1>5. after[<<(k + n) + m, p, d>>] = after[<<k + n, p + Len(s), d>>]
  <2>1. k + n \in Nat
    BY <1>3
  <2>2. QED
    BY <1>3, <1>4, <2>1, SkipsAt
<1>6. after[<<k + n, p + Len(s), d>>] = after[<<k, p + Len(s) + Len(t), d>>]
  <2> DEFINE q == p + Len(s)
  <2>1. LiesAt(mp, q, t)
    BY <1>4
  <2> HIDE DEF q
  <2>2. after[<<k + n, q, d>>] = after[<<k, q + Len(t), d>>]
    BY <1>3, <2>1, SkipsAt
  <2>3. QED
    BY <2>2 DEF q
<1>7. (k + n) + m = k + (m + n) /\ p + Len(s) + Len(t) = p + Len(s \o t)
  BY <1>2, <1>3, <1>4
<1>8. QED
  BY <1>5, <1>6, <1>7

\* What is skipped with few levels is skipped with more.
LEMMA SkipsMore ==
  ASSUME NEW s, NEW m \in Nat, NEW n \in Nat, NEW l \in Nat, n <= l, Skips(s, m, n)
  PROVE  Skips(s, m, l)
<1>1. \A d \in Nat : d + l <= MaxDepth => d + n <= MaxDepth
  BY DEF MaxDepth
<1>2. SUFFICES ASSUME NEW mp, NEW after, NEW p, NEW k, NEW d,
                      mp \in Seq(Byte), IsSkip(after, mp), LiesAt(mp, p, s),
                      k \in Nat, d \in Nat, d + l <= MaxDepth
               PROVE  after[<<k + m, p, d>>] = after[<<k, p + Len(s), d>>]
  BY DEF Skips, Over
<1>3. QED
  <2>1. d + n <= MaxDepth
    BY <1>1, <1>2
  <2>2. QED
    BY <1>2, <2>1, SkipsAt

\* A container of m values
LEMMA SkipsContainer ==
  ASSUME NEW s, NEW m \in Nat, NEW l \in Nat, Skips(s, m, l), NEW b \in Byte,
         \/ b = \h90 + m /\ m <= 15
         \/ m <= 30 /\ \E n \in 0 .. 15 : m = 2 * n /\ b = \h80 + n
  PROVE  Skips(Marked(b, s), 1, l + 1)
<1>0. s \in Seq(Byte)
  BY DEF Skips
<1>1. /\ Len(Marked(b, s)) = 1 + Len(s) /\ Len(s) \in Nat
      /\ Marked(b, s) \in Seq(Byte)
  BY <1>0, MarkedBytes
<1>2. SUFFICES ASSUME NEW mp, NEW after, NEW p, NEW k, NEW d,
                      mp \in Seq(Byte), IsSkip(after, mp), LiesAt(mp, p, Marked(b, s)),
                      k \in Nat, d \in Nat, d + (l + 1) <= MaxDepth
               PROVE  after[<<k + 1, p, d>>] = after[<<k, p + Len(Marked(b, s)), d>>]
  BY <1>1 DEF Skips, Over
<1>3. p \in Nat /\ p < Len(mp) /\ Len(mp) \in Nat /\ mp[p + 1] = b /\ LiesAt(mp, p + 1, s)
  <2>1. LiesAt(mp, p, Marked(b, s))
    BY <1>2
  <2>2. QED
    <3>1. p \in Nat /\ p < Len(mp) /\ mp[p + 1] = b /\ LiesAt(mp, p + 1, s)
      BY <1>0, <2>1, LiesByte
    <3>2. QED
      BY <1>2, <3>1
<1>4. \/ b \in \h90 .. \h9f /\ b - \h90 = m
      \/ b \in \h80 .. \h8f /\ 2 * (b - \h80) = m /\ b \notin \h90 .. \h9f
  OBVIOUS
<1>5. b \notin \ha0 .. \hbf /\ b # \hde
  OBVIOUS
<1>6. NumericWidth(b) = 0
  BY <1>4 DEF NumericWidth
<1>7. b \notin {\hd9, \hc4} \cup {\hda, \hc5, \hdc} \cup {\hdb, \hc6, \hdd}
  BY <1>4
<1>8. Inner(mp, p) = m
  <2>1. CASE b \in \h90 .. \h9f /\ b - \h90 = m
    <3>1. b \notin \h80 .. \h8f /\ b # \hde
      BY <2>1
    <3>2. Inner(mp, p) = b - \h90
      BY <1>3, <2>1, <3>1 DEF Inner
    <3>3. QED
      BY <2>1, <3>2
  <2>2. CASE b \in \h80 .. \h8f /\ 2 * (b - \h80) = m /\ b \notin \h90 .. \h9f
    <3>1. Inner(mp, p) = 2 * (b - \h80)
      BY <1>3, <1>5, <2>2 DEF Inner
    <3>2. QED
      BY <2>2, <3>1
  <2>3. QED
    BY <1>4, <2>1, <2>2
<1>9. Behind(mp, p) = p + 1
  BY <1>3, <1>5, <1>6, <1>7 DEF Behind
<1> DEFINE q == p + 1  e == q + Len(s)
<1>10. /\ q \in Nat /\ e \in Nat /\ k + 1 \in Nat /\ d + 1 \in Nat /\ k + 1 # 0 /\ k + 1 - 1 = k
       /\ e = p + Len(Marked(b, s))
  BY <1>1, <1>2, <1>3
<1>11. d <= MaxDepth /\ (d + 1) + l <= MaxDepth
  BY <1>2, <1>3 DEF MaxDepth
<1> HIDE DEF q, e
<1>12. after[<<m, q, d + 1>>] = after[<<0, e, d + 1>>]
  <2>1. LiesAt(mp, q, s) /\ e = q + Len(s)
    BY <1>3 DEF q, e
  <2>2. SUFFICES ASSUME NEW j \in Nat, j = 0
                 PROVE  after[<<j + m, q, d + 1>>] = after[<<j, q + Len(s), d + 1>>]
    BY <2>1
  <2> DEFINE c == d + 1
  <2>3. c \in Nat /\ c + l <= MaxDepth
    BY <1>10, <1>11
  <2> HIDE DEF c
  <2>4. after[<<j + m, q, c>>] = after[<<j, q + Len(s), c>>]
    BY <1>2, <2>1, <2>2, <2>3, SkipsAt
  <2>5. QED
    BY <2>4 DEF c
<1>13. after[<<k + 1, p, d>>] = after[<<k, after[<<m, q, d + 1>>], d>>]
  <2>1. Inner(mp, p) = m /\ Behind(mp, p) = q
    BY <1>8, <1>9 DEF q
  <2>2. IsSkip(after, mp) /\ k \in Nat /\ p \in Nat /\ d \in Nat
    BY <1>2, <1>3
  <2>3. after[<<k + 1, p, d>>] = after[<<k, Into(after, mp, p, d), d>>]
    BY <1>3, <1>11, <2>2, SkipOne
  <2>4. QED
    BY <2>1, <2>3 DEF Into
<1>14. after[<<0, e, d + 1>>] = e
  BY <1>2, <1>10, SkipNone
<1>15. QED
  BY <1>10, <1>12, <1>13, <1>14

\* No value is no bytes.
LEMMA SkipsEmpty ==
  ASSUME NEW l \in Nat
  PROVE  Skips(<<>>, 0, l)
<1>1. <<>> \in Seq(Byte) /\ Len(<<>>) = 0
  OBVIOUS
<1>2. ASSUME NEW mp, NEW after, NEW p, NEW k, NEW d, LiesAt(mp, p, <<>>), k \in Nat
      PROVE  Over(after, <<>>, 0, p, k, d)
  <2>1. p + 0 = p /\ k + 0 = k
    BY <1>2 DEF LiesAt
  <2>2. QED
    BY <1>1, <2>1 DEF Over
<1>3. QED
  BY <1>1, <1>2 DEF Skips

\* Sequences of m values each
LEMMA SkipsFlatten ==
  ASSUME NEW m \in {1, 2}, NEW l \in Nat, NEW ss \in Seq(Seq(Byte)),
         \A i \in 1 .. Len(ss) : Skips(ss[i], m, l)
  PROVE  Skips(FlattenSeq(ss), m * Len(ss), l)
<1>1. PICK run \in [0 .. Len(ss) -> Seq(Byte)] :
        /\ run[0] = <<>> /\ run[Len(ss)] = FlattenSeq(ss)
        /\ \A i \in 1 .. Len(ss) : run[i] = run[i - 1] \o ss[i]
  BY Flatten
<1> DEFINE T == {i \in Nat : Skips(run[i], m * i, l)}
<1>2. 0 \in T
  <2>1. m * 0 = 0
    OBVIOUS
  <2>2. QED
    BY <1>1, <2>1, SkipsEmpty
<1>3. ASSUME NEW i \in 0 + 1 .. Len(ss), i - 1 \in T
      PROVE  i \in T
  <2>1. i \in 1 .. Len(ss) /\ i \in Nat /\ m * (i - 1) \in Nat /\ m * (i - 1) + m = m * i
    OBVIOUS
  <2>2. Skips(run[i - 1] \o ss[i], m * (i - 1) + m, l)
    <3>1. Skips(run[i - 1], m * (i - 1), l) /\ Skips(ss[i], m, l) /\ m \in Nat
      BY <1>3, <2>1
    <3>2. QED
      BY <2>1, <3>1, SkipsJoin
  <2>3. QED
    BY <1>1, <2>1, <2>2
<1> HIDE DEF T
<1>4. Len(ss) \in T
  <2>1. Len(ss) \in Nat /\ 0 \in Nat
    OBVIOUS
  <2>2. \A i \in 0 .. Len(ss) : i \in T
    BY <1>2, <1>3, <2>1, Induct
  <2>3. QED
    BY <2>1, <2>2
<1>5. QED
  BY <1>1, <1>4 DEF T

\* A container of values that are skipped is skipped.
LEMMA ContainerSkips ==
  ASSUME NEW v, NEW vs \in Seq(Seq(Byte)), Container(v, vs), NEW l \in Nat,
         \A i \in 1 .. Len(vs) : Skips(vs[i], 1, l)
  PROVE  Skips(v, 1, l + 1)
<1>1. Skips(FlattenSeq(vs), 1 * Len(vs), l) /\ 1 * Len(vs) = Len(vs) /\ Len(vs) \in Nat
  BY SkipsFlatten
<1>2. PICK n \in 0 .. 15 :
        \/ Len(vs) = n /\ v = Marked(\h90 + n, FlattenSeq(vs))
        \/ Len(vs) = 2 * n /\ v = Marked(\h80 + n, FlattenSeq(vs))
  BY DEF Container
<1>3. \h90 + n \in Byte /\ \h80 + n \in Byte
  BY DEF Byte
<1>4. CASE Len(vs) = n /\ v = Marked(\h90 + n, FlattenSeq(vs))
  BY <1>1, <1>3, <1>4, SkipsContainer
<1>5. CASE Len(vs) = 2 * n /\ v = Marked(\h80 + n, FlattenSeq(vs))
  BY <1>1, <1>3, <1>5, SkipsContainer
<1>6. QED
  BY <1>2, <1>4, <1>5

\* Every value is skipped.
LEMMA ValueSkips ==
  ASSUME NEW v \in Value
  PROVE  Skips(v, 1, 15)
<1>1. PICK level : Levels(level) /\ v \in level[15]
  BY DEF Value
<1> DEFINE T == {n \in 0 .. 15 : \A x \in level[n] : Skips(x, 1, n)}
<1>2. ASSUME NEW n \in 0 .. 15, n > 0 => n - 1 \in T, NEW x \in level[n]
      PROVE  Skips(x, 1, n)
  <2>1. CASE Scalar(x) \/ \E d : Text(x, d)
    <3>1. Flat(x)
      BY <2>1, ScalarFlat, TextFlat
    <3>2. Skips(x, 1, 0)
      BY <3>1, SkipsFlat
    <3>3. QED
      BY <3>2, SkipsMore
  <2>2. CASE n > 0 /\ \E vs \in Seq(level[n - 1]) : Container(x, vs)
    <3>1. PICK vs \in Seq(level[n - 1]) : Container(x, vs)
      BY <2>2
    <3>2. n - 1 \in 0 .. 15 /\ n - 1 \in Nat /\ \A y \in level[n - 1] : Skips(y, 1, n - 1)
      BY <1>2, <2>2
    <3>3. \A i \in 1 .. Len(vs) : vs[i] \in level[n - 1]
      OBVIOUS
    <3>4. vs \in Seq(Seq(Byte))
      <4>1. level[n - 1] \in SUBSET Seq(Byte)
        BY <1>1, <3>2 DEF Levels
      <4>2. QED
        BY <4>1
    <3>5. Skips(x, 1, (n - 1) + 1)
      BY <3>1, <3>2, <3>3, <3>4, ContainerSkips
    <3>6. (n - 1) + 1 = n
      OBVIOUS
    <3>7. QED
      BY <3>5, <3>6
  <2>3. QED
    BY <1>1, <2>1, <2>2 DEF Levels
<1>3. 0 \in T
  BY <1>2
<1>4. ASSUME NEW n \in 0 + 1 .. 15, n - 1 \in T
      PROVE  n \in T
  <2>1. n \in 0 .. 15
    OBVIOUS
  <2>2. QED
    BY <1>2, <1>4, <2>1
<1> HIDE DEF T
<1>5. \A n \in 0 .. 15 : n \in T
  BY <1>3, <1>4, Induct
<1>6. 15 \in T
  BY <1>5
<1>7. QED
  BY <1>1, <1>6 DEF T

-----------------------------------------------------------------------------
(* Files and images                                                        *)

\* The bytes of its parts
LEMMA NamedDataBytes ==
  ASSUME NEW s, NEW x, NEW a, NEW b, Text(a, x[1]), Text(b, x[2]), s = Marked(\h92, a \o b)
  PROVE  /\ a \in Seq(Byte) /\ b \in Seq(Byte) /\ a \o b \in Seq(Byte) /\ s \in Seq(Byte)
         /\ Len(a) \in Nat /\ Len(b) \in Nat /\ Len(s) = 1 + Len(a) + Len(b)
<1>1. a \in Seq(Byte) /\ b \in Seq(Byte)
  BY TextFlat DEF Flat
<1>2. \h92 \in Byte
  BY DEF Byte
<1>3. a \o b \in Seq(Byte) /\ Len(a \o b) = Len(a) + Len(b) /\ Len(a) \in Nat /\ Len(b) \in Nat
  BY <1>1
<1>4. s \in Seq(Byte) /\ Len(s) = 1 + Len(a \o b)
  <2> DEFINE v == a \o b
  <2>1. v \in Seq(Byte) /\ s = Marked(\h92, v)
    BY <1>3
  <2> HIDE DEF v
  <2>2. s \in Seq(Byte) /\ Len(s) = 1 + Len(v)
    BY <1>2, <2>1, MarkedBytes
  <2>3. QED
    BY <2>2 DEF v
<1>5. QED
  BY <1>1, <1>3, <1>4

\* It is skipped.
LEMMA NamedDataSkips ==
  ASSUME NEW s, NEW x, NamedData(s, x)
  PROVE  Skips(s, 1, 1) /\ s \in Seq(Byte)
<1>1. PICK a, b : Text(a, x[1]) /\ Text(b, x[2]) /\ s = Marked(\h92, a \o b)
  BY DEF NamedData
<1>2. Skips(a, 1, 0) /\ Skips(b, 1, 0)
  BY <1>1, TextFlat, SkipsFlat
<1>3. Skips(a \o b, 1 + 1, 0)
  BY <1>2, SkipsJoin
<1>4. \h92 \in Byte /\ \h92 = \h90 + 2 /\ 1 + 1 = 2
  BY DEF Byte
<1>5. Skips(s, 1, 0 + 1)
  BY <1>1, <1>3, <1>4, SkipsContainer
<1>6. QED
  BY <1>5 DEF Skips

\* It is read.
LEMMA NamedDataLies ==
  ASSUME NEW mp, NEW p, NEW s, NEW x, NamedData(s, x), IsUtf8(x[1]), LiesAt(mp, p, s), NEW default
  PROVE  IsPair(mp, p) /\ ReadPair(mp, p, default) = [val |-> Some(<<x[1], x[2]>>), pos |-> p + Len(s)]
<1>1. PICK a, b : Text(a, x[1]) /\ Text(b, x[2]) /\ s = Marked(\h92, a \o b)
  BY DEF NamedData
<1>2. /\ a \in Seq(Byte) /\ b \in Seq(Byte) /\ a \o b \in Seq(Byte)
      /\ Len(a) \in Nat /\ Len(b) \in Nat /\ Len(s) = 1 + Len(a) + Len(b)
  BY <1>1, NamedDataBytes
<1>3. p \in Nat /\ p < Len(mp) /\ mp[p + 1] = \h92 /\ LiesAt(mp, p + 1, a \o b)
  <2> DEFINE b1 == \h92  u == a \o b
  <2>1. b1 \in Byte
    BY DEF Byte
  <2>2. LiesAt(mp, p, Marked(b1, u)) /\ u \in Seq(Byte)
    BY <1>1, <1>2
  <2> HIDE DEF b1, u
  <2>3. p \in Nat /\ p < Len(mp) /\ mp[p + 1] = b1 /\ LiesAt(mp, p + 1, u)
    BY <2>1, <2>2, LiesByte
  <2>4. QED
    BY <2>3 DEF b1, u
<1> DEFINE q == p + 1  e == q + Len(a)
<1>4. LiesAt(mp, q, a) /\ LiesAt(mp, e, b)
  <2>1. LiesAt(mp, q, a \o b)
    BY <1>3
  <2> HIDE DEF q
  <2>2. QED
    BY <1>2, <2>1, LiesParts
<1>5. e + Len(b) = p + Len(s)
  BY <1>2, <1>3
<1> HIDE DEF q, e
<1>6. mp_read_bytes(mp, q) = [val |-> Some(x[1]), pos |-> e]
  BY <1>1, <1>4, TextLies DEF e
<1>7. mp_read_bytes(mp, e) = [val |-> Some(x[2]), pos |-> e + Len(b)]
  BY <1>1, <1>4, TextLies
<1>8. ReadPair(mp, p, default) =
        PairOf([val |-> Some(x[1]), pos |-> e], [val |-> Some(x[2]), pos |-> e + Len(b)], default)
  BY <1>6, <1>7 DEF ReadPair, PairNamed, q
<1>9. QED
  BY <1>3, <1>5, <1>8 DEF IsPair, PairOf, from_utf8, Some, None

\* Marker and number of elements of an array
ArrayHeader(n) ==
  IF n <= 15 THEN <<\h90 + n>> ELSE <<\hdc, (n \div 256) % 256, n % 256>>

\* They are bytes, and read back.
LEMMA ArrayHeaderBytes ==
  ASSUME NEW n \in Nat, n < 65536
  PROVE  /\ ArrayHeader(n) \in Seq(Byte)
         /\ \/ n <= 15 /\ Len(ArrayHeader(n)) = 1 /\ ArrayHeader(n)[1] = \h90 + n
            \/ /\ n > 15 /\ Len(ArrayHeader(n)) = 3 /\ ArrayHeader(n)[1] = \hdc
               /\ Num(ArrayHeader(n), 1, 2) = n
<1>1. CASE n <= 15
  <2> DEFINE h == <<\h90 + n>>
  <2>1. h \in Seq(Byte) /\ Len(h) = 1 /\ h[1] = \h90 + n
    BY <1>1 DEF Byte
  <2>2. ArrayHeader(n) = h
    BY <1>1 DEF ArrayHeader
  <2>3. QED
    BY <1>1, <2>1, <2>2
<1>2. CASE ~(n <= 15)
  <2> DEFINE a == (n \div 256) % 256  b == n % 256
             h == <<\hdc, a, b>>
  <2>1. a \in Byte /\ b \in Byte /\ 256 * a + b = n
    BY <1>2 DEF Byte
  <2>2. ArrayHeader(n) = h
    BY <1>2 DEF ArrayHeader
  <2> HIDE DEF a, b
  <2>3. h \in Seq(Byte) /\ Len(h) = 3 /\ h[1] = \hdc /\ h[2] = a /\ h[3] = b
    BY <2>1 DEF Byte
  <2>4. Num(h, 1, 2) = n
    <3>1. Num(h, 1, 2) = 256 * h[1 + 1] + h[1 + 2] /\ h[1 + 1] = h[2] /\ h[1 + 2] = h[3]
      BY DEF Num
    <3>2. QED
      BY <2>1, <2>3, <3>1
  <2>5. n > 15
    BY <1>2
  <2> HIDE DEF h
  <2>6. QED
    BY <2>2, <2>3, <2>4, <2>5
<1>3. QED
  BY <1>1, <1>2

\* The bytes v are those of s and behind them those of t.
Follows(v, s, t) == s \in Seq(Byte) /\ t \in Seq(Byte) /\ v = s \o t

\* The two halves lie where v does.
LEMMA LiesHalves ==
  ASSUME NEW mp, NEW p, NEW v, NEW s, NEW t, Follows(v, s, t), LiesAt(mp, p, v)
  PROVE  LiesAt(mp, p, s) /\ LiesAt(mp, p + Len(s), t)
<1>1. s \in Seq(Byte) /\ t \in Seq(Byte) /\ LiesAt(mp, p, s \o t)
  BY DEF Follows
<1>2. QED
  BY <1>1, LiesParts

\* An array is read up to its first element.
LEMMA ArrayLies ==
  ASSUME NEW mp, NEW p, NEW es \in Seq(Seq(Byte)), Len(es) < 65536, LiesAt(mp, p, mp_array(es))
  PROVE  \E q \in Nat :
           /\ mp_read_array_len(mp, p) = [len |-> Len(es), pos |-> q]
           /\ LiesAt(mp, q, FlattenSeq(es))
           /\ q + Len(FlattenSeq(es)) = p + Len(mp_array(es))
<1> DEFINE n == Len(es)
           h == ArrayHeader(n)
           u == FlattenSeq(es)
<1>1. n \in Nat /\ n < 65536
  OBVIOUS
<1>2. u \in Seq(Byte)
  BY Layout
<1>3. mp_array(es) = h \o u
  BY DEF mp_array, ArrayHeader
<1>4. h \in Seq(Byte)
  BY <1>1, ArrayHeaderBytes
<1>5. \/ n <= 15 /\ Len(h) = 1 /\ h[1] = \h90 + n
      \/ n > 15 /\ Len(h) = 3 /\ h[1] = \hdc /\ Num(h, 1, 2) = n
  <2> HIDE DEF n
  <2>1. QED
    BY <1>1, ArrayHeaderBytes
<1> HIDE DEF n, h, u
<1>6. Len(h \o u) = Len(h) + Len(u) /\ Len(h) \in Nat /\ Len(u) \in Nat
  BY <1>2, <1>4, <1>5
<1>7. LiesAt(mp, p, h) /\ LiesAt(mp, p + Len(h), u)
  <2> DEFINE v == mp_array(es)
  <2>1. LiesAt(mp, p, v)
    OBVIOUS
  <2> HIDE DEF v
  <2>2. Follows(v, h, u)
    BY <1>2, <1>3, <1>4 DEF Follows, v
  <2>3. QED
    BY <2>1, <2>2, LiesHalves
<1> DEFINE q == p + Len(h)
           L == Len(mp)
<1>8. p \in Nat /\ L \in Nat /\ q <= L /\ mp[p + 1] = h[1]
  <2>1. /\ p \in Nat /\ mp \in Seq(Byte) /\ p + Len(h) <= Len(mp)
        /\ \A j \in 1 .. Len(h) : mp[p + j] = h[j]
    BY <1>7 DEF LiesAt
  <2>2. 1 \in 1 .. Len(h)
    BY <1>5
  <2>3. QED
    BY <2>1, <2>2
<1>9. q \in Nat /\ q + Len(u) = p + Len(mp_array(es))
  BY <1>3, <1>6, <1>8
<1>10. mp_read_array_len(mp, p) = [len |-> n, pos |-> q]
  <2>1. CASE n <= 15 /\ Len(h) = 1 /\ h[1] = \h90 + n
    <3>1. p < L /\ mp[p + 1] \in \h90 .. \h9f /\ mp[p + 1] - \h90 = n /\ q = p + 1
          /\ mp[p + 1] # \hdc /\ mp[p + 1] # \hdd
      BY <1>1, <1>8, <2>1
    <3> HIDE DEF q
    <3>2. QED
      BY <3>1 DEF mp_read_array_len, L
  <2>2. CASE n > 15 /\ Len(h) = 3 /\ h[1] = \hdc /\ Num(h, 1, 2) = n
    <3>1. Num(mp, p + 1, 2) = Num(h, 1, 2)
      <4>1. Len(h) = 1 + 2
        BY <2>2
      <4>2. QED
        BY <1>7, <4>1, NumLies
    <3>2. p + 3 <= L /\ q = p + 3 /\ mp[p + 1] = \hdc /\ mp[p + 1] \notin \h90 .. \h9f
          /\ mp[p + 1] # \hdd
      BY <1>8, <2>2
    <3> HIDE DEF q
    <3>3. QED
      BY <2>2, <3>1, <3>2 DEF mp_read_array_len, L
  <2>3. QED
    BY <1>5, <2>1, <2>2
<1>11. QED
  <2>1. LiesAt(mp, q, u)
    BY <1>7
  <2> HIDE DEF q
  <2>2. QED
    BY <1>9, <1>10, <2>1 DEF n, u

\* They are bytes, and up to 15 files are skipped.
LEMMA FileArraySkips ==
  ASSUME NEW s, NEW files, FileArray(s, files)
  PROVE  s \in Seq(Byte) /\ (Len(files) <= 15 => Skips(s, 1, 2))
<1>1. PICK es \in Seq(Seq(Byte)) :
        /\ s = mp_array(es) /\ Len(es) = Len(files) /\ Len(es) < 65536
        /\ \A i \in 1 .. Len(es) : NamedData(es[i], files[i])
  BY DEF FileArray
<1> DEFINE n == Len(es)
           u == FlattenSeq(es)
<1>2. n \in Nat /\ u \in Seq(Byte) /\ ArrayHeader(n) \in Seq(Byte)
  BY <1>1, Layout, ArrayHeaderBytes
<1>3. s = ArrayHeader(n) \o u
  BY <1>1 DEF mp_array, ArrayHeader
<1>4. s \in Seq(Byte)
  <2> HIDE DEF n, u
  <2>1. QED
    BY <1>2, <1>3
<1>5. ASSUME n <= 15
      PROVE  Skips(s, 1, 2)
  <2>1. Skips(u, 1 * n, 1)
    BY <1>1, NamedDataSkips, SkipsFlatten
  <2>2. Container(s, es)
    <3>1. n \in 0 .. 15
      <4> HIDE DEF n, u
      <4>1. QED
        BY <1>2, <1>5
    <3>2. s = Marked(\h90 + n, u)
      BY <1>3, <1>5 DEF Marked, ArrayHeader
    <3>3. QED
      BY <3>1, <3>2 DEF Container
  <2>3. Skips(s, 1, 1 + 1)
    BY <1>1, <2>2, NamedDataSkips, ContainerSkips
  <2>4. QED
    BY <2>3
<1>6. QED
  BY <1>1, <1>4, <1>5

\* Where the reading of fields stands
State(i, f, p, s) == [image |-> i, files |-> f, pos |-> p, stop |-> s]

\* What changes it
LEMMA StateFacts ==
  ASSUME NEW i, NEW f, NEW p, NEW s
  PROVE  /\ State(i, f, p, s).image = i /\ State(i, f, p, s).files = f
         /\ State(i, f, p, s).pos = p /\ State(i, f, p, s).stop = s
BY DEF State

\* A state that moves on keeps the rest.
LEMMA StateMoved ==
  ASSUME NEW i, NEW f, NEW p, NEW s, NEW q
  PROVE  [State(i, f, p, s) EXCEPT !.pos = q] = State(i, f, q, s)
BY DEF State

\* An image that was read is set.
LEMMA StateImage ==
  ASSUME NEW i, NEW f, NEW p, NEW s, NEW q, NEW x
  PROVE  SetImage(State(i, f, p, s), [val |-> Some(x), pos |-> q]) = State(Some(x), f, q, s)
<1> DEFINE v == Some(x)
           r == State(i, f, p, s)
<1>1. v # None
  BY DEF Some, None
<1>2. [r EXCEPT !.image = v] = State(v, f, p, s)
  BY DEF State
<1> HIDE DEF v, r
<1>3. SetImage(r, [val |-> v, pos |-> q]) = [r EXCEPT !.image = v, !.pos = q]
  BY <1>1 DEF SetImage
<1>4. [r EXCEPT !.image = v, !.pos = q] = [[r EXCEPT !.image = v] EXCEPT !.pos = q]
  OBVIOUS
<1>5. [State(v, f, p, s) EXCEPT !.pos = q] = State(v, f, q, s)
  BY StateMoved
<1>6. SetImage(r, [val |-> v, pos |-> q]) = State(v, f, q, s)
  BY <1>2, <1>3, <1>4, <1>5, Zenon
<1>7. QED
  BY <1>6 DEF v, r

\* A file that was read is added.
LEMMA StateFile ==
  ASSUME NEW i, NEW f, NEW p, NEW s, NEW q, NEW x
  PROVE  AddFile(State(i, f, p, s), [val |-> Some(x), pos |-> q]) = State(i, f \o <<x>>, q, s)
<1> DEFINE v == Some(x)
           r == State(i, f, p, s)
           g == f \o v
<1>1. g = f \o <<x>> /\ r.files = f
  BY StateFacts DEF Some
<1>2. [r EXCEPT !.files = g] = State(i, g, p, s)
  BY DEF State
<1> HIDE DEF r
<1>3. AddFile(r, [val |-> v, pos |-> q]) = [r EXCEPT !.files = g, !.pos = q]
  <2> HIDE DEF v
  <2>1. QED
    BY <1>1 DEF AddFile
<1> HIDE DEF v, g
<1>4. [r EXCEPT !.files = g, !.pos = q] = [[r EXCEPT !.files = g] EXCEPT !.pos = q]
  OBVIOUS
<1>5. [State(i, g, p, s) EXCEPT !.pos = q] = State(i, g, q, s)
  BY StateMoved
<1>6. AddFile(r, [val |-> v, pos |-> q]) = State(i, g, q, s)
  BY <1>2, <1>3, <1>4, <1>5, Zenon
<1>7. QED
  BY <1>1, <1>6 DEF v, r

\* The first k of the files
First(files, k) == SubSeq(files, 1, k)

\* They grow by one.
LEMMA FirstGrows ==
  ASSUME NEW F, NEW files \in Seq(F)
  PROVE  /\ First(files, 0) = <<>> /\ First(files, Len(files)) = files
         /\ \A k \in 1 .. Len(files) : First(files, k) = First(files, k - 1) \o <<files[k]>>
<1>1. First(files, 0) = <<>>
  BY DEF First
<1>2. First(files, Len(files)) = files
  BY DEF First
<1>3. ASSUME NEW k \in 1 .. Len(files)
      PROVE  First(files, k) = First(files, k - 1) \o <<files[k]>>
  <2> DEFINE a == First(files, k)  b == First(files, k - 1)  c == <<files[k]>>
  <2>1. k - 1 \in 0 .. Len(files) /\ k \in 0 .. Len(files) /\ files[k] \in F
    OBVIOUS
  <2>2. a \in Seq(F) /\ Len(a) = k /\ \A j \in 1 .. k : a[j] = files[j]
    BY <2>1, SubSeqProperties DEF First
  <2>3. b \in Seq(F) /\ Len(b) = k - 1 /\ \A j \in 1 .. k - 1 : b[j] = files[j]
    BY <2>1, SubSeqProperties DEF First
  <2>4. c \in Seq(F) /\ Len(c) = 1 /\ c[1] = files[k]
    BY <2>1
  <2> HIDE DEF a, b, c
  <2>5. /\ b \o c \in Seq(F) /\ Len(b \o c) = k
        /\ \A j \in 1 .. k : (b \o c)[j] = IF j <= k - 1 THEN b[j] ELSE c[j - (k - 1)]
    <3>1. /\ b \o c \in Seq(F) /\ Len(b \o c) = Len(b) + Len(c)
          /\ \A j \in 1 .. Len(b) + Len(c) : (b \o c)[j] = IF j <= Len(b) THEN b[j] ELSE c[j - Len(b)]
      BY <2>3, <2>4, ConcatProperties, Zenon
    <3>2. Len(b) + Len(c) = k /\ Len(b) = k - 1
      BY <2>1, <2>3, <2>4
    <3>3. QED
      BY <3>1, <3>2
  <2> DEFINE u == b \o c
  <2>6. ASSUME NEW j \in 1 .. k
        PROVE  u[j] = a[j]
    <3>1. CASE j <= k - 1
      <4>1. j \in 1 .. k - 1 /\ u[j] = b[j]
        BY <2>1, <2>5, <2>6, <3>1
      <4>2. QED
        BY <2>2, <2>3, <2>6, <4>1
    <3>2. CASE j = k
      <4>1. ~(j <= k - 1) /\ j - (k - 1) = 1
        BY <3>2
      <4>2. u[j] = c[1]
        BY <2>5, <2>6, <4>1
      <4>3. QED
        BY <2>2, <2>4, <2>6, <3>2, <4>2
    <3>3. j <= k - 1 \/ j = k
      BY <2>1, <2>6
    <3>4. QED
      BY <3>1, <3>2, <3>3
  <2>7. a = b \o c
    <3>1. u \in Seq(F) /\ Len(u) = k
      BY <2>5
    <3> HIDE DEF u
    <3>2. a = u
      BY <2>2, <2>6, <3>1, SeqEqual
    <3>3. QED
      BY <3>2 DEF u
  <2>8. QED
    BY <2>7 DEF a, b, c
<1>4. QED
  BY <1>1, <1>2, <1>3

\* The files of an array are read.
LEMMA FilesLie ==
  ASSUME NEW mp, NEW p, NEW s, NEW files \in Seq(Attachment), FileArray(s, files),
         LiesAt(mp, p, s), NEW i, NEW o, NEW t
  PROVE  ReadFiles(mp, State(i, <<>>, o, t), mp_read_array_len(mp, p)) = State(i, files, p + Len(s), t)
<1>1. PICK es \in Seq(Seq(Byte)) :
        /\ s = mp_array(es) /\ Len(es) = Len(files) /\ Len(es) < 65536
        /\ \A j \in 1 .. Len(es) : NamedData(es[j], files[j])
  BY DEF FileArray
<1> DEFINE u == FlattenSeq(es)
           n == Len(es)
<1>2. PICK q \in Nat :
        /\ mp_read_array_len(mp, p) = [len |-> n, pos |-> q]
        /\ LiesAt(mp, q, u)
        /\ q + Len(u) = p + Len(s)
  BY <1>1, ArrayLies
<1>3. /\ n \in Nat /\ Len(u) = EndOf(es, n) /\ EndOf(es, 0) = 0
      /\ \A k \in 0 .. n : EndOf(es, k) \in Nat
      /\ \A k \in 1 .. n : EndOf(es, k) = EndOf(es, k - 1) + Len(es[k]) /\ Len(es[k]) \in Nat
  BY Layout
<1>4. \A k \in 1 .. n : LiesAt(mp, q + EndOf(es, k - 1), es[k])
  BY <1>2, LiesFlat
<1>5. /\ First(files, 0) = <<>> /\ First(files, n) = files
      /\ \A k \in 1 .. n : First(files, k) = First(files, k - 1) \o <<files[k]>>
  BY <1>1, FirstGrows
<1>6. \A k \in 1 .. n : files[k] = <<files[k][1], files[k][2]>> /\ IsUtf8(files[k][1])
  BY <1>1 DEF Attachment, TextData
<1> HIDE DEF n, u
<1> DEFINE E(k) == State(i, First(files, k), q + EndOf(es, k), t)
<1>7. ASSUME NEW k \in 1 .. n
      PROVE  ReadFile(mp, E(k - 1)) = E(k)
  <2> DEFINE at == q + EndOf(es, k - 1)
             f == First(files, k - 1)
             to == at + Len(es[k])
  <2>1. NamedData(es[k], files[k])
    BY <1>1 DEF n
  <2>2. /\ IsPair(mp, at)
        /\ ReadPair(mp, at, NoFileName) = [val |-> Some(<<files[k][1], files[k][2]>>), pos |-> to]
    <3> DEFINE v == es[k]  x == files[k]
    <3>1. LiesAt(mp, at, v) /\ NamedData(v, x) /\ IsUtf8(x[1])
      BY <1>4, <1>6, <2>1
    <3> HIDE DEF v, x, at
    <3>2. IsPair(mp, at) /\ ReadPair(mp, at, NoFileName) = [val |-> Some(<<x[1], x[2]>>), pos |-> at + Len(v)]
      BY <3>1, NamedDataLies
    <3>3. QED
      BY <3>2 DEF v, x
  <2>3. to = q + EndOf(es, k)
    <3>1. k - 1 \in 0 .. n /\ k \in 0 .. n
      BY <1>3
    <3>2. EndOf(es, k) = EndOf(es, k - 1) + Len(es[k]) /\ EndOf(es, k - 1) \in Nat /\ Len(es[k]) \in Nat
      BY <1>3, <3>1
    <3> DEFINE e1 == EndOf(es, k - 1)  e2 == EndOf(es, k)  l == Len(es[k])
    <3> HIDE DEF e1, e2, l
    <3>3. e2 = e1 + l /\ e1 \in Nat /\ l \in Nat
      BY <3>2 DEF e1, e2, l
    <3>4. (q + e1) + l = q + e2
      BY <1>2, <3>3
    <3>5. QED
      BY <3>4 DEF e1, e2, l
  <2>4. ReadPair(mp, at, NoFileName) = [val |-> Some(files[k]), pos |-> to]
    BY <1>6, <2>2
  <2> HIDE DEF at, f, to
  <2>5. State(i, f, at, t).pos = at
    <3>1. \A y, z : State(i, y, z, t).pos = z
      BY StateFacts
    <3>2. QED
      BY <3>1
  <2>6. ReadFile(mp, State(i, f, at, t)) = AddFile(State(i, f, at, t), [val |-> Some(files[k]), pos |-> to])
    BY <2>2, <2>4, <2>5 DEF ReadFile
  <2>7. AddFile(State(i, f, at, t), [val |-> Some(files[k]), pos |-> to]) = State(i, f \o <<files[k]>>, to, t)
    BY StateFile, SMTT(30)
  <2>8. First(files, k) = f \o <<files[k]>>
    BY <1>5 DEF f
  <2>9. QED
    BY <2>3, <2>6, <2>7, <2>8 DEF at, f
<1>8. E(0) = State(i, <<>>, q, t)
  <2>1. q + EndOf(es, 0) = q
    BY <1>2, <1>3
  <2>2. QED
    BY <1>5, <2>1
<1>9. E(n) = State(i, files, p + Len(s), t)
  <2>1. q + EndOf(es, n) = p + Len(s)
    BY <1>2, <1>3
  <2>2. QED
    BY <1>5, <2>1
<1> HIDE DEF E
<1> DEFINE x == [State(i, <<>>, o, t) EXCEPT !.pos = q]
           IsRead(f) == f = [k \in 0 .. n |-> IF k = 0 THEN x ELSE ReadFile(mp, f[k - 1])]
           after == CHOOSE f : IsRead(f)
           g == [k \in 0 .. n |-> E(k)]
<1>10. x = E(0)
  BY <1>8, StateMoved
<1>11. ReadFiles(mp, State(i, <<>>, o, t), [len |-> n, pos |-> q]) = after[n]
  BY DEF ReadFiles
<1> HIDE DEF x
<1>12. IsRead(g)
  <2>1. ASSUME NEW k \in 0 .. n
        PROVE  E(k) = IF k = 0 THEN x ELSE ReadFile(mp, g[k - 1])
    <3>1. CASE k = 0
      BY <1>10, <3>1
    <3>2. CASE k # 0
      <4>1. k \in 1 .. n /\ k - 1 \in 0 .. n
        BY <1>3, <3>2
      <4>2. QED
        BY <1>7, <3>2, <4>1
    <3>3. QED
      BY <3>1, <3>2
  <2>2. QED
    BY <2>1
<1>13. IsRead(after)
  <2> HIDE DEF g, IsRead
  <2>1. QED
    BY <1>12
<1> HIDE DEF after
<1> DEFINE T == {k \in 0 .. n : after[k] = E(k)}
<1>14. 0 \in T
  <2>1. 0 \in 0 .. n
    BY <1>3
  <2>2. QED
    BY <1>10, <1>13, <2>1
<1>15. ASSUME NEW k \in 0 + 1 .. n, k - 1 \in T
       PROVE  k \in T
  <2>1. k \in 1 .. n /\ k \in 0 .. n /\ k # 0
    BY <1>3
  <2>2. after[k] = ReadFile(mp, after[k - 1])
    BY <1>13, <2>1
  <2>3. QED
    BY <1>7, <1>15, <2>1, <2>2
<1> HIDE DEF T
<1>16. n \in T
  <2>1. \A k \in 0 .. n : k \in T
    BY <1>3, <1>14, <1>15, Induct
  <2>2. QED
    BY <1>3, <2>1
<1>17. QED
  BY <1>2, <1>9, <1>11, <1>16 DEF T

\* The reader of a field and the skip of a known value agree.
LEMMA SkipOver ==
  ASSUME NEW mp, NEW p, NEW s, NEW m \in Nat, NEW n \in Nat, n <= 16, Skips(s, m, n),
         LiesAt(mp, p, s)
  PROVE  mp_skip(mp, m, p) = p + Len(s)
<1>1. p \in Nat /\ mp \in Seq(Byte) /\ s \in Seq(Byte)
  BY DEF LiesAt
<1>2. PICK after : IsSkip(after, mp) /\ \A k, q : mp_skip(mp, k, q) = after[<<k, q, 0>>]
  BY <1>1, SkipRuns
<1> DEFINE q == p + Len(s)
<1>3. q \in Nat
  BY <1>1
<1>4. ASSUME NEW k \in Nat, k = 0
      PROVE  after[<<k + m, p, k>>] = after[<<k, q, k>>]
  <2>1. k + n <= MaxDepth
    BY <1>4 DEF MaxDepth
  <2>2. QED
    BY <1>1, <1>2, <2>1, SkipsAt
<1> HIDE DEF q
<1>5. after[<<m, p, 0>>] = after[<<0, q, 0>>]
  <2>1. 0 \in Nat /\ 0 + m = m
    OBVIOUS
  <2>2. after[<<0 + m, p, 0>>] = after[<<0, q, 0>>]
    BY <1>4, <2>1
  <2>3. QED
    BY <2>1, <2>2
<1>6. after[<<0, q, 0>>] = q
  <2>1. 0 \in Nat
    OBVIOUS
  <2>2. QED
    BY <1>2, <1>3, <2>1, SkipNone
<1>7. QED
  BY <1>2, <1>5, <1>6 DEF q

\* What can be said of the bytes of each
LEMMA FieldBytes ==
  ASSUME NEW f, NEW image, NEW files, Field(f, image, files)
  PROVE  /\ f \in Seq(Byte)
         /\ ImageField(f, image) => f[1] = \h06
         /\ FilesField(f, files) => f[1] = \h05
         /\ OtherField(f) => f[1] \notin {\h05, \h06}
<1>1. ASSUME ImageField(f, image)
      PROVE  f \in Seq(Byte) /\ f[1] = \h06
  <2>1. PICK v : NamedData(v, image[1]) /\ f = Marked(\h06, v)
    BY <1>1 DEF ImageField
  <2>2. v \in Seq(Byte) /\ \h06 \in Byte
    BY <2>1, NamedDataSkips DEF Byte
  <2>3. QED
    BY <2>1, <2>2, MarkedBytes
<1>2. ASSUME FilesField(f, files)
      PROVE  f \in Seq(Byte) /\ f[1] = \h05
  <2>1. PICK v : FileArray(v, files) /\ f = Marked(\h05, v)
    BY <1>2 DEF FilesField
  <2>2. v \in Seq(Byte) /\ \h05 \in Byte
    BY <2>1, FileArraySkips DEF Byte
  <2>3. QED
    BY <2>1, <2>2, MarkedBytes
<1>3. ASSUME OtherField(f)
      PROVE  f \in Seq(Byte) /\ f[1] \notin {\h05, \h06}
  <2>1. PICK key \in 0 .. \h7f, v \in Value : key \notin {\h05, \h06} /\ f = Marked(key, v)
    BY <1>3 DEF OtherField
  <2>2. v \in Seq(Byte) /\ key \in Byte
    <3>1. v \in Seq(Byte)
      BY <2>1 DEF Value
    <3>2. key \in Byte
      BY <2>1 DEF Byte
    <3>3. QED
      BY <3>1, <3>2
  <2>3. f \in Seq(Byte) /\ f[1] = key
    BY <2>1, <2>2, MarkedBytes
  <2>4. QED
    BY <2>1, <2>3
<1>4. QED
  BY <1>1, <1>2, <1>3 DEF Field

\* A number and a value are skipped.
LEMMA KeySkips ==
  ASSUME NEW key \in 0 .. \h7f, NEW v, NEW l \in Nat, Skips(v, 1, l)
  PROVE  Skips(Marked(key, v), 2, l)
<1> DEFINE k == <<key>>
<1>1. v \in Seq(Byte)
  BY DEF Skips
<1>2. NumericWidth(key) = 0
  BY DEF NumericWidth
<1>3. Scalar(k)
  <2>1. k \in Seq(Byte) /\ Len(k) = 1 /\ k[1] = key
    BY DEF Byte
  <2> HIDE DEF k
  <2>2. QED
    BY <1>2, <2>1 DEF Scalar
<1> HIDE DEF k
<1>4. Skips(k, 1, l)
  <2>1. Skips(k, 1, 0)
    BY <1>3, ScalarFlat, SkipsFlat
  <2>2. QED
    BY <2>1, SkipsMore
<1>5. Skips(k \o v, 1 + 1, l)
  BY <1>4, SkipsJoin
<1>6. QED
  BY <1>5 DEF k, Marked

\* Each field is skipped.
LEMMA FieldSkips ==
  ASSUME NEW f, NEW image, NEW files, Field(f, image, files), Len(files) <= 15
  PROVE  Skips(f, 2, 15)
<1>1. CASE ImageField(f, image)
  <2>1. PICK v : NamedData(v, image[1]) /\ f = Marked(\h06, v)
    BY <1>1 DEF ImageField
  <2>2. Skips(v, 1, 15)
    BY <2>1, NamedDataSkips, SkipsMore
  <2>3. QED
    BY <2>1, <2>2, KeySkips
<1>2. CASE FilesField(f, files)
  <2>1. PICK v : FileArray(v, files) /\ f = Marked(\h05, v)
    BY <1>2 DEF FilesField
  <2>2. Skips(v, 1, 15)
    BY <2>1, FileArraySkips, SkipsMore
  <2>3. QED
    BY <2>1, <2>2, KeySkips
<1>3. CASE OtherField(f)
  <2>1. PICK key \in 0 .. \h7f, v \in Value : key \notin {\h05, \h06} /\ f = Marked(key, v)
    BY <1>3 DEF OtherField
  <2>2. QED
    BY <2>1, ValueSkips, KeySkips
<1>4. QED
  BY <1>1, <1>2, <1>3 DEF Field

\* It is skipped.
LEMMA FieldMapSkips ==
  ASSUME NEW s, NEW image, NEW files, FieldMap(s, image, files)
  PROVE  s \in Seq(Byte) /\ (Len(files) <= 15 => Skips(s, 1, 16))
<1>1. PICK fs \in Seq(Seq(Byte)) :
        /\ Len(fs) <= 15 /\ s = Marked(\h80 + Len(fs), FlattenSeq(fs))
        /\ \A i \in 1 .. Len(fs) : Field(fs[i], image, files)
  BY DEF FieldMap
<1> DEFINE n == Len(fs)
           u == FlattenSeq(fs)
<1>2. n \in 0 .. 15
  <2>1. n \in Nat /\ n <= 15
    BY <1>1
  <2> HIDE DEF n
  <2>2. QED
    BY <2>1
<1>3. u \in Seq(Byte)
  BY Layout
<1>4. Len(files) <= 15 => Skips(u, 2 * n, 15)
  <2> SUFFICES ASSUME Len(files) <= 15 PROVE Skips(u, 2 * n, 15)
    OBVIOUS
  <2>1. \A i \in 1 .. Len(fs) : Skips(fs[i], 2, 15)
    BY <1>1, FieldSkips
  <2>2. QED
    BY <2>1, SkipsFlatten
<1> HIDE DEF n, u
<1>5. \h80 + n \in Byte
  BY <1>2 DEF Byte
<1>6. Marked(\h80 + n, u) \in Seq(Byte)
  BY <1>3, <1>5, MarkedBytes
<1>7. ASSUME Len(files) <= 15
      PROVE  Skips(Marked(\h80 + n, u), 1, 16)
  <2> DEFINE m == 2 * n
             b == \h80 + n
  <2>1. m \in Nat /\ m <= 30 /\ m = 2 * n /\ b = \h80 + n
    BY <1>2
  <2>2. Skips(u, m, 15)
    BY <1>4, <1>7
  <2>3. b \in Byte
    BY <1>5
  <2> HIDE DEF m, b
  <2>4. Skips(Marked(b, u), 1, 15 + 1)
    BY <1>2, <2>1, <2>2, <2>3, SkipsContainer
  <2>5. QED
    BY <2>4 DEF b
<1>8. QED
  BY <1>1, <1>6, <1>7 DEF n, u

\* The image and the files that the first k fields leave
ImageAfter(fs, k, image) ==
  IF \E j \in 1 .. k : ImageField(fs[j], image) THEN image ELSE None
FilesAfter(fs, k, files) ==
  IF \E j \in 1 .. k : FilesField(fs[j], files) THEN files ELSE <<>>

\* The reading of fields goes on.
Going(t) == t = FALSE

\* A field that is read, with what was read before it
LEMMA FieldLies ==
  ASSUME NEW mp, NEW p, NEW f, NEW image \in Images, NEW files \in Seq(Attachment),
         Field(f, image, files), LiesAt(mp, p, f), NEW i, NEW o,
         FilesField(f, files) => o = <<>>, NEW t, Going(t)
  PROVE  ReadField(mp, State(i, o, p, t)) =
           State(IF ImageField(f, image) THEN image ELSE i,
                 IF FilesField(f, files) THEN files ELSE o, p + Len(f), t)
<1> DEFINE r == State(i, o, p, t)
<1>1. /\ f \in Seq(Byte)
      /\ ImageField(f, image) => f[1] = \h06
      /\ FilesField(f, files) => f[1] = \h05
      /\ OtherField(f) => f[1] \notin {\h05, \h06}
  BY FieldBytes
<1>2. r.stop = t /\ r.pos = p
  BY StateFacts
<1>3. ASSUME NEW key \in 0 .. \h7f, NEW v \in Seq(Byte), f = Marked(key, v)
      PROVE  /\ p \in Nat /\ p < Len(mp) /\ mp[p + 1] = key /\ LiesAt(mp, p + 1, v)
             /\ p + 1 + Len(v) = p + Len(f) /\ f[1] = key
             /\ ReadField(mp, r) =
                  CASE key = \h06 /\ IsPair(mp, p + 1) -> SetImage(r, ReadPair(mp, p + 1, NoImageType))
                    [] key = \h05 -> ReadFiles(mp, r, mp_read_array_len(mp, p + 1))
                    [] OTHER -> [r EXCEPT !.pos = mp_skip(mp, 1, p + 1)]
  <2>1. key \in Byte
    BY <1>3 DEF Byte
  <2>2. p \in Nat /\ p < Len(mp) /\ mp[p + 1] = key /\ LiesAt(mp, p + 1, v) /\ mp \in Seq(Byte)
    BY <1>3, <2>1, LiesByte
  <2>3. Len(f) = 1 + Len(v) /\ Len(v) \in Nat /\ f[1] = key
    BY <1>3, <2>1, MarkedBytes
  <2>4. p + 1 + Len(v) = p + Len(f)
    BY <2>2, <2>3
  <2>5. ~(r.stop \/ r.pos >= Len(mp) \/ mp[r.pos + 1] >= \h80)
    <3>1. ~(p >= Len(mp)) /\ ~(key >= \h80) /\ ~t
      BY <1>3, <2>2 DEF Going
    <3>2. QED
      BY <1>2, <2>2, <3>1
  <2> HIDE DEF r
  <2>6. QED
    BY <1>2, <2>2, <2>3, <2>4, <2>5 DEF ReadField
<1>4. CASE ImageField(f, image)
  <2>1. PICK v : NamedData(v, image[1]) /\ f = Marked(\h06, v)
    BY <1>4 DEF ImageField
  <2>2. v \in Seq(Byte) /\ \h06 \in 0 .. \h7f
    BY <2>1, NamedDataSkips
  <2> DEFINE x == image[1]  q == p + Len(f)
  <2>3. image = Some(<<x[1], x[2]>>) /\ IsUtf8(x[1])
    <3>1. PICK y \in Attachment : image = Some(y)
      BY <1>4 DEF ImageField, Images, Option
    <3>2. x = y
      BY <3>1 DEF Some
    <3>3. y = <<y[1], y[2]>> /\ IsUtf8(y[1])
      BY DEF Attachment, TextData
    <3>4. QED
      BY <3>1, <3>2, <3>3
  <2>4. /\ ReadField(mp, r) =
             CASE \h06 = \h06 /\ IsPair(mp, p + 1) -> SetImage(r, ReadPair(mp, p + 1, NoImageType))
               [] \h06 = \h05 -> ReadFiles(mp, r, mp_read_array_len(mp, p + 1))
               [] OTHER -> [r EXCEPT !.pos = mp_skip(mp, 1, p + 1)]
        /\ LiesAt(mp, p + 1, v) /\ p + 1 + Len(v) = q
    BY <1>3, <2>1, <2>2
  <2>5. /\ IsPair(mp, p + 1)
        /\ ReadPair(mp, p + 1, NoImageType) = [val |-> Some(<<x[1], x[2]>>), pos |-> p + 1 + Len(v)]
    BY <2>1, <2>3, <2>4, NamedDataLies
  <2>6. ReadField(mp, r) = SetImage(r, ReadPair(mp, p + 1, NoImageType))
    <3> HIDE DEF r, q
    <3>1. QED
      BY <2>4, <2>5
  <2>7. ReadPair(mp, p + 1, NoImageType) = [val |-> Some(<<x[1], x[2]>>), pos |-> q]
    BY <2>4, <2>5
  <2> HIDE DEF x, q
  <2>8. SetImage(r, [val |-> Some(<<x[1], x[2]>>), pos |-> q]) = State(Some(<<x[1], x[2]>>), o, q, t)
    BY StateImage
  <2>9. ~FilesField(f, files)
    BY <1>1, <1>4
  <2>10. QED
    BY <1>4, <2>3, <2>6, <2>7, <2>8, <2>9 DEF q
<1>5. CASE FilesField(f, files)
  <2>1. PICK v : FileArray(v, files) /\ f = Marked(\h05, v)
    BY <1>5 DEF FilesField
  <2>2. v \in Seq(Byte) /\ \h05 \in 0 .. \h7f
    BY <2>1, FileArraySkips
  <2>3. /\ ReadField(mp, r) =
             CASE \h05 = \h06 /\ IsPair(mp, p + 1) -> SetImage(r, ReadPair(mp, p + 1, NoImageType))
               [] \h05 = \h05 -> ReadFiles(mp, r, mp_read_array_len(mp, p + 1))
               [] OTHER -> [r EXCEPT !.pos = mp_skip(mp, 1, p + 1)]
        /\ LiesAt(mp, p + 1, v) /\ p + 1 + Len(v) = p + Len(f)
    BY <1>3, <2>1, <2>2
  <2>4. ReadField(mp, r) = ReadFiles(mp, r, mp_read_array_len(mp, p + 1))
    <3> HIDE DEF r
    <3>1. QED
      BY <2>3
  <2>5. r = State(i, <<>>, p, t)
    BY <1>5
  <2>6. ReadFiles(mp, State(i, <<>>, p, t), mp_read_array_len(mp, p + 1))
          = State(i, files, p + 1 + Len(v), t)
    <3> DEFINE at == p + 1
    <3>1. LiesAt(mp, at, v)
      BY <2>3
    <3> HIDE DEF at
    <3>2. ReadFiles(mp, State(i, <<>>, p, t), mp_read_array_len(mp, at))
            = State(i, files, at + Len(v), t)
      BY <2>1, <3>1, FilesLie
    <3>3. QED
      BY <3>2 DEF at
  <2>7. ~ImageField(f, image)
    BY <1>1, <1>5
  <2> HIDE DEF r
  <2>8. QED
    BY <1>5, <2>3, <2>4, <2>5, <2>6, <2>7 DEF r
<1>6. CASE OtherField(f)
  <2>1. PICK key \in 0 .. \h7f, v \in Value : key \notin {\h05, \h06} /\ f = Marked(key, v)
    BY <1>6 DEF OtherField
  <2>2. v \in Seq(Byte)
    BY DEF Value
  <2>3. /\ ReadField(mp, r) =
             CASE key = \h06 /\ IsPair(mp, p + 1) -> SetImage(r, ReadPair(mp, p + 1, NoImageType))
               [] key = \h05 -> ReadFiles(mp, r, mp_read_array_len(mp, p + 1))
               [] OTHER -> [r EXCEPT !.pos = mp_skip(mp, 1, p + 1)]
        /\ LiesAt(mp, p + 1, v) /\ p + 1 + Len(v) = p + Len(f)
    BY <1>3, <2>1, <2>2
  <2>4. ReadField(mp, r) = [r EXCEPT !.pos = mp_skip(mp, 1, p + 1)]
    <3> HIDE DEF r
    <3>1. QED
      BY <2>1, <2>3
  <2>5. mp_skip(mp, 1, p + 1) = p + 1 + Len(v)
    <3>1. Skips(v, 1, 15)
      BY ValueSkips
    <3>2. QED
      BY <2>3, <3>1, SkipOver
  <2> DEFINE q == p + Len(f)
  <2>6. ReadField(mp, r) = [r EXCEPT !.pos = q]
    BY <2>3, <2>4, <2>5
  <2> HIDE DEF q
  <2>7. [r EXCEPT !.pos = q] = State(i, o, q, t)
    BY StateMoved
  <2>8. ~ImageField(f, image) /\ ~FilesField(f, files)
    BY <1>1, <1>6
  <2> HIDE DEF r
  <2>9. QED
    BY <2>6, <2>7, <2>8 DEF q, r
<1>7. QED
  BY <1>4, <1>5, <1>6 DEF Field

\* One more field
LEMMA AfterGrows ==
  ASSUME NEW fs, NEW image, NEW files, NEW k \in Nat \ {0}
  PROVE  /\ ImageAfter(fs, k, image) =
              IF ImageField(fs[k], image) THEN image ELSE ImageAfter(fs, k - 1, image)
         /\ FilesAfter(fs, k, files) =
              IF FilesField(fs[k], files) THEN files ELSE FilesAfter(fs, k - 1, files)
<1>1. \A j : j \in 1 .. k <=> j \in 1 .. k - 1 \/ j = k
  OBVIOUS
<1>2. (\E j \in 1 .. k : ImageField(fs[j], image))
        <=> ImageField(fs[k], image) \/ \E j \in 1 .. k - 1 : ImageField(fs[j], image)
  BY <1>1
<1>3. (\E j \in 1 .. k : FilesField(fs[j], files))
        <=> FilesField(fs[k], files) \/ \E j \in 1 .. k - 1 : FilesField(fs[j], files)
  BY <1>1
<1>4. QED
  BY <1>2, <1>3 DEF ImageAfter, FilesAfter

\* The image and the files of a map are read.
LEMMA FieldMapLies ==
  ASSUME NEW mp, NEW p, NEW s, NEW image \in Images, NEW files \in Seq(Attachment),
         FieldMap(s, image, files), LiesAt(mp, p, s)
  PROVE  /\ mp_read_lxmf_fields(mp, p).image = image
         /\ mp_read_lxmf_fields(mp, p).files = files
<1>1. PICK fs \in Seq(Seq(Byte)) :
        /\ Len(fs) <= 15 /\ s = Marked(\h80 + Len(fs), FlattenSeq(fs))
        /\ \A j \in 1 .. Len(fs) : Field(fs[j], image, files)
        /\ image # None => \E j \in 1 .. Len(fs) : ImageField(fs[j], image)
        /\ files # <<>> => \E j \in 1 .. Len(fs) : FilesField(fs[j], files)
        /\ \A i, j \in 1 .. Len(fs) :
             FilesField(fs[i], files) /\ FilesField(fs[j], files) => i = j
  BY DEF FieldMap
<1> DEFINE n == Len(fs)
           u == FlattenSeq(fs)
           q == p + 1
<1>2. u \in Seq(Byte) /\ n \in Nat /\ n <= 15
  BY <1>1, Layout
<1>3. /\ p \in Nat /\ p < Len(mp) /\ mp[p + 1] = \h80 + n /\ LiesAt(mp, q, u)
      /\ q \in Nat /\ \h80 + n \in \h80 .. \h8f /\ \h80 + n - \h80 = n
  <2> DEFINE b == \h80 + n
  <2>1. b \in Byte /\ s = Marked(b, u) /\ b \in \h80 .. \h8f /\ b - \h80 = n
    <3>1. s = Marked(b, u)
      BY <1>1
    <3> HIDE DEF n
    <3>2. b \in Byte /\ b \in \h80 .. \h8f /\ b - \h80 = n
      BY <1>2 DEF Byte
    <3>3. QED
      BY <3>1, <3>2
  <2> HIDE DEF u, b
  <2>2. p \in Nat /\ p < Len(mp) /\ mp[p + 1] = b /\ LiesAt(mp, p + 1, u)
    BY <1>2, <2>1, LiesByte
  <2>3. QED
    BY <2>1, <2>2 DEF b
<1>4. mp_read_lxmf_fields(mp, p) = ReadFields(mp, n, q)
  <2> DEFINE b == mp[p + 1]
  <2> HIDE DEF n, q
  <2>1. b \in \h80 .. \h8f /\ b - \h80 = n /\ b # \hde
    <3>1. b = \h80 + n /\ n \in Nat /\ n <= 15
      BY <1>2, <1>3 DEF n
    <3> HIDE DEF b
    <3>2. QED
      BY <3>1
  <2> HIDE DEF b
  <2>2. mp_read_lxmf_fields(mp, p) = ReadFields(mp, b - \h80, p + 1)
    BY <1>3, <2>1 DEF mp_read_lxmf_fields, b
  <2>3. QED
    BY <2>1, <2>2 DEF q
<1>5. /\ EndOf(fs, 0) = 0
      /\ \A k \in 0 .. n : EndOf(fs, k) \in Nat
      /\ \A k \in 1 .. n : EndOf(fs, k) = EndOf(fs, k - 1) + Len(fs[k]) /\ Len(fs[k]) \in Nat
  BY Layout
<1>6. \A k \in 1 .. n : LiesAt(mp, q + EndOf(fs, k - 1), fs[k])
  BY <1>3, LiesFlat
<1>7. /\ \A k \in 1 .. n : Field(fs[k], image, files)
      /\ \A i, j \in 1 .. n : FilesField(fs[i], files) /\ FilesField(fs[j], files) => i = j
  BY <1>1
<1>8. ImageAfter(fs, 0, image) = None /\ FilesAfter(fs, 0, files) = <<>>
  BY DEF ImageAfter, FilesAfter
<1>9. ImageAfter(fs, n, image) = image /\ FilesAfter(fs, n, files) = files
  BY <1>1 DEF ImageAfter, FilesAfter
<1> HIDE DEF n, u, q
<1> SUFFICES ASSUME NEW t, Going(t)
             PROVE  /\ ReadFields(mp, n, q).image = image
                    /\ ReadFields(mp, n, q).files = files
  BY <1>4 DEF Going
<1> DEFINE E(k) == State(ImageAfter(fs, k, image), FilesAfter(fs, k, files), q + EndOf(fs, k), t)
<1>10. ASSUME NEW k \in 1 .. n
       PROVE  ReadField(mp, E(k - 1)) = E(k)
  <2> DEFINE at == q + EndOf(fs, k - 1)
             i == ImageAfter(fs, k - 1, image)
             o == FilesAfter(fs, k - 1, files)
             f == fs[k]
             to == at + Len(f)
  <2>1. to = q + EndOf(fs, k)
    <3> DEFINE e1 == EndOf(fs, k - 1)  e2 == EndOf(fs, k)  l == Len(fs[k])
    <3>1. e1 \in Nat /\ l \in Nat /\ e2 = e1 + l
      <4>1. k - 1 \in 0 .. n
        BY <1>2, <1>10 DEF n
      <4>2. QED
        BY <1>5, <1>10, <4>1
    <3> HIDE DEF e1, e2, l
    <3>2. (q + e1) + l = q + e2
      BY <1>3, <3>1
    <3>3. QED
      BY <3>2 DEF e1, e2, l
  <2>2. Field(f, image, files) /\ LiesAt(mp, at, f)
    BY <1>6, <1>7, <1>10
  <2>3. FilesField(f, files) => o = <<>>
    <3>1. SUFFICES ASSUME FilesField(fs[k], files), NEW j \in 1 .. k - 1, FilesField(fs[j], files)
                   PROVE  FALSE
      BY DEF FilesAfter
    <3>2. j \in 1 .. n /\ j # k
      BY <1>2, <1>10, <3>1 DEF n
    <3>3. QED
      BY <1>7, <1>10, <3>1, <3>2
  <2>4. /\ ImageAfter(fs, k, image) = IF ImageField(f, image) THEN image ELSE i
        /\ FilesAfter(fs, k, files) = IF FilesField(f, files) THEN files ELSE o
    <3>1. k \in Nat \ {0}
      BY <1>2, <1>10 DEF n
    <3>2. QED
      BY <3>1, AfterGrows
  <2> HIDE DEF at, i, o, f
  <2>5. ReadField(mp, State(i, o, at, t)) =
          State(IF ImageField(f, image) THEN image ELSE i,
                IF FilesField(f, files) THEN files ELSE o, at + Len(f), t)
    BY <2>2, <2>3, FieldLies
  <2>6. QED
    BY <2>1, <2>4, <2>5 DEF at, i, o
<1> DEFINE x == [image |-> None, files |-> <<>>, pos |-> q, stop |-> FALSE]
           IsRead(g) == g = [k \in 0 .. n |-> IF k = 0 THEN x ELSE ReadField(mp, g[k - 1])]
           after == CHOOSE g : IsRead(g)
           run == [k \in 0 .. n |-> E(k)]
<1>11. x = E(0)
  <2>1. q + EndOf(fs, 0) = q
    BY <1>3, <1>5
  <2>2. x = State(None, <<>>, q, t)
    BY DEF State, Going
  <2> HIDE DEF x
  <2>3. QED
    BY <1>8, <2>1, <2>2
<1>12. ReadFields(mp, n, q) = after[n]
  BY DEF ReadFields
<1>13. E(n).image = image /\ E(n).files = files
  BY <1>9, StateFacts
<1> HIDE DEF E, x
<1>14. n \in Nat
  BY <1>2 DEF n
<1>15. IsRead(run)
  <2>1. ASSUME NEW k \in 0 .. n
        PROVE  E(k) = IF k = 0 THEN x ELSE ReadField(mp, run[k - 1])
    <3>1. CASE k = 0
      BY <1>11, <3>1
    <3>2. CASE k # 0
      <4>1. k \in 1 .. n /\ k - 1 \in 0 .. n
        BY <1>14, <3>2
      <4>2. QED
        BY <1>10, <3>2, <4>1
    <3>3. QED
      BY <3>1, <3>2
  <2>2. QED
    BY <2>1
<1>16. IsRead(after)
  <2> HIDE DEF run, IsRead
  <2>1. QED
    BY <1>15
<1> HIDE DEF after
<1> DEFINE T == {k \in 0 .. n : after[k] = E(k)}
<1>17. 0 \in T
  <2>1. 0 \in 0 .. n
    BY <1>14
  <2>2. QED
    BY <1>11, <1>16, <2>1
<1>18. ASSUME NEW k \in 0 + 1 .. n, k - 1 \in T
       PROVE  k \in T
  <2>1. k \in 1 .. n /\ k \in 0 .. n /\ k # 0
    BY <1>14
  <2>2. after[k] = ReadField(mp, after[k - 1])
    BY <1>16, <2>1
  <2>3. QED
    BY <1>10, <1>18, <2>1, <2>2
<1> HIDE DEF T
<1>19. n \in T
  <2>1. \A k \in 0 .. n : k \in T
    BY <1>14, <1>17, <1>18, Induct
  <2>2. QED
    BY <1>14, <2>1
<1>20. after[n] = E(n)
  BY <1>19 DEF T
<1>21. QED
  BY <1>12, <1>13, <1>20

\* The parts are bytes.
LEMMA PartsBytes ==
  ASSUME NEW ts, NEW title, NEW body, NEW fields, NEW c, Parts(ts, title, body, fields, c)
  PROVE  /\ ts \in Seq(Byte) /\ title \in Seq(Byte) /\ body \in Seq(Byte) /\ fields \in Seq(Byte)
         /\ Len(ts) \in Nat /\ Len(title) \in Nat /\ Len(body) \in Nat /\ Len(fields) \in Nat
         /\ Len(ts) >= 1 /\ Len(title) >= 1 /\ Len(body) >= 1 /\ Len(fields) >= 1
         /\ ts \o (title \o (body \o fields)) \in Seq(Byte)
         /\ Len(ts \o (title \o (body \o fields))) = Len(ts) + Len(title) + Len(body) + Len(fields)
<1>1. ts \in Seq(Byte) /\ Len(ts) = 1 + NumericWidth(ts[1])
  BY DEF Parts, Number, Scalar
<1>2. Len(ts) >= 1
  BY <1>1 DEF NumericWidth
<1>3. title \in Seq(Byte) /\ Len(title) >= 1 /\ body \in Seq(Byte) /\ Len(body) >= 1
  BY TextFlat DEF Parts, Flat
<1>4. fields \in Seq(Byte)
  BY FieldMapSkips DEF Parts
<1>5. Len(fields) >= 1
  <2>1. PICK fs \in Seq(Seq(Byte)) :
          Len(fs) <= 15 /\ fields = Marked(\h80 + Len(fs), FlattenSeq(fs))
    BY DEF Parts, FieldMap
  <2> DEFINE b == \h80 + Len(fs)  u == FlattenSeq(fs)
  <2>2. u \in Seq(Byte)
    BY Layout
  <2>3. b \in Byte
    <3> DEFINE n == Len(fs)
    <3>1. n \in Nat /\ n <= 15
      BY <2>1
    <3> HIDE DEF n
    <3>2. \h80 + n \in Byte
      BY <3>1 DEF Byte
    <3>3. QED
      BY <3>2 DEF n
  <2>4. fields = Marked(b, u)
    BY <2>1
  <2> HIDE DEF b, u
  <2>5. Len(fields) = 1 + Len(u) /\ Len(u) \in Nat
    BY <2>2, <2>3, <2>4, MarkedBytes
  <2>6. QED
    BY <2>5
<1>6. Len(ts) \in Nat /\ Len(title) \in Nat /\ Len(body) \in Nat /\ Len(fields) \in Nat
  BY <1>1, <1>3, <1>4
<1>7. body \o fields \in Seq(Byte) /\ Len(body \o fields) = Len(body) + Len(fields)
  BY <1>3, <1>4
<1> DEFINE v == body \o fields
<1>8. v \in Seq(Byte) /\ Len(v) = Len(body) + Len(fields)
  BY <1>7
<1> HIDE DEF v
<1>9. title \o v \in Seq(Byte) /\ Len(title \o v) = Len(title) + Len(v)
  BY <1>3, <1>8
<1> DEFINE w == title \o v
<1>10. w \in Seq(Byte) /\ Len(w) = Len(title) + Len(v)
  BY <1>9
<1> HIDE DEF w
<1>11. ts \o w \in Seq(Byte) /\ Len(ts \o w) = Len(ts) + Len(w)
  BY <1>1, <1>10
<1>12. Len(ts \o w) = Len(ts) + Len(title) + Len(body) + Len(fields)
  BY <1>6, <1>8, <1>10, <1>11
<1>13. QED
  BY <1>1, <1>2, <1>3, <1>4, <1>5, <1>6, <1>11, <1>12 DEF w, v

\* The parts lie one behind the other.
LEMMA PartsLie ==
  ASSUME NEW ts, NEW title, NEW body, NEW fields, NEW c, Parts(ts, title, body, fields, c),
         NEW mp, NEW p, LiesAt(mp, p, ts \o (title \o (body \o fields)))
  PROVE  /\ LiesAt(mp, p, ts) /\ LiesAt(mp, p + Len(ts), title)
         /\ LiesAt(mp, p + Len(ts) + Len(title), body)
         /\ LiesAt(mp, p + Len(ts) + Len(title) + Len(body), fields)
<1>1. /\ ts \in Seq(Byte) /\ title \in Seq(Byte) /\ body \in Seq(Byte) /\ fields \in Seq(Byte)
      /\ body \o fields \in Seq(Byte) /\ title \o (body \o fields) \in Seq(Byte)
  <2>1. ts \in Seq(Byte) /\ title \in Seq(Byte) /\ body \in Seq(Byte) /\ fields \in Seq(Byte)
    BY PartsBytes
  <2>2. body \o fields \in Seq(Byte)
    BY <2>1
  <2> DEFINE v == body \o fields
  <2> HIDE DEF v
  <2>3. title \o v \in Seq(Byte)
    BY <2>1, <2>2 DEF v
  <2>4. QED
    BY <2>1, <2>2, <2>3 DEF v
<1> DEFINE v == body \o fields
           w == title \o v
           q == p + Len(ts)
           r == q + Len(title)
<1>2. LiesAt(mp, p, ts) /\ LiesAt(mp, q, w)
  BY <1>1, LiesParts
<1> HIDE DEF q
<1>3. LiesAt(mp, q, title) /\ LiesAt(mp, r, v)
  BY <1>1, <1>2, LiesParts
<1> HIDE DEF r
<1>4. LiesAt(mp, r, body) /\ LiesAt(mp, r + Len(body), fields)
  BY <1>1, <1>3, LiesParts
<1>5. QED
  BY <1>2, <1>3, <1>4 DEF q, r

\* Bytes lie at their own beginning.
LEMMA LiesSelf ==
  ASSUME NEW s \in Seq(Byte)
  PROVE  LiesAt(s, 0, s)
BY DEF LiesAt

\* The header of a payload, and its elements
LEMMA PayloadLies ==
  ASSUME NEW mp, NEW e \in Seq(Byte), Payload(mp, e)
  PROVE  /\ mp \in Seq(Byte) /\ LiesAt(mp, 1, e)
         /\ \E n \in 4 .. 15 : mp_array_header(mp) = Some(<<n, 1>>)
<1>1. PICK n \in 4 .. 15, rest \in Seq(Byte) : mp = Marked(\h90 + n, e \o rest)
  BY DEF Payload
<1> DEFINE b == \h90 + n
           s == e \o rest
<1>2. b \in Byte /\ b \in \h90 .. \h9f /\ b - \h90 = n /\ s \in Seq(Byte)
  BY <1>1 DEF Byte
<1> HIDE DEF b, s
<1>3. mp = Marked(b, s)
  BY <1>1 DEF b, s
<1>4. mp \in Seq(Byte) /\ Len(mp) = 1 + Len(s) /\ Len(s) \in Nat /\ mp[1] = b
  BY <1>2, <1>3, MarkedBytes
<1>5. LiesAt(mp, 1, s)
  <2> DEFINE z == 0
  <2>1. LiesAt(mp, z, Marked(b, s)) /\ z + 1 = 1
    BY <1>3, <1>4, LiesSelf
  <2> HIDE DEF z
  <2>2. LiesAt(mp, z + 1, s)
    BY <1>2, <2>1, LiesByte
  <2>3. QED
    BY <2>1, <2>2
<1>6. LiesAt(mp, 1, e)
  BY <1>1, <1>5, LiesParts DEF s
<1>7. mp_array_header(mp) = Some(<<n, 1>>)
  <2>1. mp # <<>> /\ mp[1] \in \h90 .. \h9f /\ mp[1] - \h90 = n /\ mp[1] # \hdc /\ mp[1] # \hdd
    BY <1>2, <1>4
  <2>2. QED
    BY <2>1 DEF mp_array_header
<1>8. QED
  BY <1>1, <1>4, <1>6, <1>7

\* A number is read.
LEMMA NumberLies ==
  ASSUME NEW mp, NEW p, NEW v, Number(v), LiesAt(mp, p, v)
  PROVE  /\ p < Len(mp) /\ mp_is_numeric_marker(mp[p + 1])
         /\ mp_read_numeric_f64(mp, p) = Some([val |-> v, pos |-> p + Len(v)])
<1>1. v \in Seq(Byte) /\ Len(v) = 1 + NumericWidth(v[1]) /\ mp_is_numeric_marker(v[1])
  BY DEF Number, Scalar
<1>2. NumericWidth(v[1]) \in Nat
  BY DEF NumericWidth
<1>3. /\ p \in Nat /\ Len(mp) \in Nat /\ p + Len(v) <= Len(mp)
      /\ \A j \in 1 .. Len(v) : mp[p + j] = v[j]
  BY DEF LiesAt
<1>4. mp[p + 1] = v[1]
  <2>1. 1 \in 1 .. Len(v)
    BY <1>1, <1>2
  <2>2. QED
    BY <1>3, <2>1
<1> DEFINE w == NumericWidth(v[1])
<1>5. p < Len(mp) /\ p + 1 + w <= Len(mp) /\ 1 + w = Len(v)
  BY <1>1, <1>2, <1>3
<1>6. Bytes(mp, p, Len(v)) = v
  BY LiesBytes
<1>7. NumericWidth(mp[p + 1]) = w
  BY <1>4
<1> HIDE DEF w
<1>8. mp_read_numeric_f64(mp, p) = Some([val |-> Bytes(mp, p, 1 + w), pos |-> p + (1 + w)])
  BY <1>1, <1>4, <1>5, <1>7 DEF mp_read_numeric_f64
<1>9. QED
  BY <1>1, <1>4, <1>5, <1>6, <1>8

\* The content of a payload is read.
LEMMA PayloadDecodes ==
  ASSUME NEW mp, NEW e, NEW c \in MessageContent, Elements(e, c), Payload(mp, e)
  PROVE  decode_lxmf_payload(mp) = Some(c) /\ looks_like_lxmf_payload(mp)
<1>1. PICK ts, title, body, fields :
        Parts(ts, title, body, fields, c) /\ e = ts \o (title \o (body \o fields))
  BY DEF Elements
<1>2. e \in Seq(Byte)
  BY <1>1, PartsBytes
<1>3. PICK n \in 4 .. 15 : mp_array_header(mp) = Some(<<n, 1>>)
  BY <1>2, PayloadLies
<1>4. LiesAt(mp, 1, e) /\ mp \in Seq(Byte)
  BY <1>2, PayloadLies
<1> DEFINE p == 1 + Len(ts)
           q == p + Len(title)
           r == q + Len(body)
<1>5. LiesAt(mp, 1, ts) /\ LiesAt(mp, p, title) /\ LiesAt(mp, q, body) /\ LiesAt(mp, r, fields)
  BY <1>1, <1>4, PartsLie
<1>6. Number(ts) /\ Text(title, c.title) /\ Text(body, c.body) /\ FieldMap(fields, c.image, c.files)
  BY <1>1 DEF Parts
<1>7. mp_array_header(mp) # None /\ mp_array_header(mp)[1][1] = n /\ mp_array_header(mp)[1][2] = 1
  BY <1>3 DEF None, Some
<1>8. n >= 4
  BY <1>3
<1>9. /\ 1 < Len(mp) /\ mp_is_numeric_marker(mp[1 + 1])
      /\ mp_read_numeric_f64(mp, 1) = Some([val |-> ts, pos |-> p])
  BY <1>5, <1>6, NumberLies
<1>10. looks_like_lxmf_payload(mp)
  BY <1>7, <1>8, <1>9 DEF looks_like_lxmf_payload
<1> HIDE DEF p
<1>11. mp_read_bytes(mp, p) = [val |-> Some(c.title), pos |-> q]
  BY <1>5, <1>6, TextLies
<1> HIDE DEF q
<1>12. mp_read_bytes(mp, q) = [val |-> Some(c.body), pos |-> r]
  BY <1>5, <1>6, TextLies
<1> HIDE DEF r
<1>13. mp_read_lxmf_fields(mp, r).image = c.image /\ mp_read_lxmf_fields(mp, r).files = c.files
  <2> DEFINE i == c.image  fl == c.files
  <2>1. i \in Images /\ fl \in Seq(Attachment)
    BY DEF MessageContent
  <2>2. FieldMap(fields, i, fl)
    BY <1>6
  <2> HIDE DEF i, fl
  <2>3. mp_read_lxmf_fields(mp, r).image = i /\ mp_read_lxmf_fields(mp, r).files = fl
    BY <1>5, <2>1, <2>2, FieldMapLies
  <2>4. QED
    BY <2>3 DEF i, fl
<1>14. decode_lxmf_payload(mp) = DecodeFrom(mp, mp_read_numeric_f64(mp, 1))
  BY <1>7, <1>8 DEF decode_lxmf_payload
<1> DEFINE x == [val |-> ts, pos |-> p]
<1>15. decode_lxmf_payload(mp) = DecodeTitle(mp, mp_read_bytes(mp, p))
  <2>1. Some(x) # None /\ Some(x)[1] = x /\ x.pos = p
    BY DEF Some, None
  <2>2. mp_read_numeric_f64(mp, 1) = Some(x)
    BY <1>9
  <2> HIDE DEF x
  <2>3. QED
    BY <1>14, <2>1, <2>2 DEF DecodeFrom
<1> DEFINE tt == mp_read_bytes(mp, p)
           bb == mp_read_bytes(mp, q)
           ff == mp_read_lxmf_fields(mp, r)
<1>16. tt.pos = q /\ tt.val = Some(c.title) /\ bb.pos = r /\ bb.val = Some(c.body)
  BY <1>11, <1>12
<1>17. decode_lxmf_payload(mp) = DecodeBody(mp, tt, bb)
  BY <1>15, <1>16 DEF DecodeTitle
<1>18. decode_lxmf_payload(mp) = Decoded(tt, bb, ff)
  BY <1>16, <1>17 DEF DecodeBody
<1>19. ff.image = c.image /\ ff.files = c.files
  BY <1>13
<1> HIDE DEF tt, bb, ff
<1>20. OrEmpty(tt.val) = c.title /\ OrEmpty(bb.val) = c.body
  BY <1>16 DEF OrEmpty, Some, None
<1>21. decode_lxmf_payload(mp)
         = Some([title |-> c.title, body |-> c.body, image |-> c.image, files |-> c.files])
  BY <1>18, <1>19, <1>20 DEF Decoded
<1>22. c = [title |-> c.title, body |-> c.body, image |-> c.image, files |-> c.files]
  BY DEF MessageContent
<1>23. QED
  BY <1>10, <1>21, <1>22

\* The signed region of a payload with up to 15 files is found.
LEMMA PayloadIsSigned ==
  ASSUME NEW mp, NEW e, NEW c \in MessageContent, Elements(e, c), Payload(mp, e), Len(c.files) <= 15
  PROVE  lxmf_signed_payload(mp) = Some(Marked(\h94, e))
<1>1. PICK ts, title, body, fields :
        Parts(ts, title, body, fields, c) /\ e = ts \o (title \o (body \o fields))
  BY DEF Elements
<1>2. /\ ts \in Seq(Byte) /\ title \in Seq(Byte) /\ body \in Seq(Byte) /\ fields \in Seq(Byte)
      /\ Len(ts) \in Nat /\ Len(title) \in Nat /\ Len(body) \in Nat /\ Len(fields) \in Nat
      /\ Len(ts) >= 1 /\ Len(title) >= 1 /\ Len(body) >= 1 /\ Len(fields) >= 1
      /\ e \in Seq(Byte)
      /\ Len(e) = Len(ts) + Len(title) + Len(body) + Len(fields)
  BY <1>1, PartsBytes
<1>3. PICK n \in 4 .. 15 : mp_array_header(mp) = Some(<<n, 1>>)
  BY <1>2, PayloadLies
<1>4. LiesAt(mp, 1, e) /\ mp \in Seq(Byte)
  BY <1>2, PayloadLies
<1>5. Number(ts) /\ Text(title, c.title) /\ Text(body, c.body) /\ FieldMap(fields, c.image, c.files)
  BY <1>1 DEF Parts
<1>6. Skips(ts, 1, 16) /\ Skips(title, 1, 16) /\ Skips(body, 1, 16) /\ Skips(fields, 1, 16)
  <2>1. Skips(ts, 1, 0)
    BY <1>5, ScalarFlat, SkipsFlat DEF Number
  <2>2. Skips(title, 1, 0) /\ Skips(body, 1, 0)
    BY <1>5, TextFlat, SkipsFlat
  <2>3. Skips(fields, 1, 16)
    BY <1>5, FieldMapSkips
  <2>4. QED
    BY <2>1, <2>2, <2>3, SkipsMore
<1>7. PICK after : IsSkip(after, mp) /\ \A k, q : mp_skip(mp, k, q) = after[<<k, q, 0>>]
  BY <1>4, SkipRuns
<1>8. ASSUME NEW k \in Nat, NEW p \in Nat, NEW s, Skips(s, 1, 16), LiesAt(mp, p, s), Len(s) \in Nat
      PROVE  mp_skip(mp, k + 1, p) = mp_skip(mp, k, p + Len(s))
  <2> DEFINE q == p + Len(s)
  <2>1. after[<<k + 1, p, 0>>] = after[<<k, q, 0>>]
    <3>1. SUFFICES ASSUME NEW d \in Nat, d = 0
                   PROVE  after[<<k + 1, p, d>>] = after[<<k, q, d>>]
      OBVIOUS
    <3>2. d + 16 <= MaxDepth
      BY <3>1 DEF MaxDepth
    <3> HIDE DEF q
    <3>3. after[<<k + 1, p, d>>] = after[<<k, p + Len(s), d>>]
      BY <1>4, <1>7, <1>8, <3>1, <3>2, SkipsAt
    <3>4. QED
      BY <3>3 DEF q
  <2> HIDE DEF q
  <2>2. mp_skip(mp, k + 1, p) = mp_skip(mp, k, q)
    BY <1>7, <2>1
  <2>3. QED
    BY <2>2 DEF q
<1> DEFINE p == 1 + Len(ts)
           q == p + Len(title)
           r == q + Len(body)
           z == r + Len(fields)
<1>9. LiesAt(mp, 1, ts) /\ LiesAt(mp, p, title) /\ LiesAt(mp, q, body) /\ LiesAt(mp, r, fields)
  BY <1>1, <1>4, PartsLie
<1>10. p \in Nat /\ q \in Nat /\ r \in Nat /\ z \in Nat /\ 1 < p /\ p < q /\ q < r /\ r < z
       /\ z - 1 = Len(e)
  BY <1>2
<1>11. /\ \A k \in Nat : mp_skip(mp, k + 1, 1) = mp_skip(mp, k, p)
       /\ \A k \in Nat : mp_skip(mp, k + 1, p) = mp_skip(mp, k, q)
       /\ \A k \in Nat : mp_skip(mp, k + 1, q) = mp_skip(mp, k, r)
       /\ \A k \in Nat : mp_skip(mp, k + 1, r) = mp_skip(mp, k, z)
  <2>1. \A k \in Nat : mp_skip(mp, k + 1, 1) = mp_skip(mp, k, p)
    BY <1>2, <1>6, <1>8, <1>9
  <2>2. \A k \in Nat : mp_skip(mp, k + 1, p) = mp_skip(mp, k, q)
    <3> HIDE DEF p
    <3>1. QED
      BY <1>2, <1>6, <1>8, <1>9, <1>10
  <2>3. \A k \in Nat : mp_skip(mp, k + 1, q) = mp_skip(mp, k, r)
    <3> HIDE DEF q
    <3>1. QED
      BY <1>2, <1>6, <1>8, <1>9, <1>10
  <2>4. \A k \in Nat : mp_skip(mp, k + 1, r) = mp_skip(mp, k, z)
    <3> HIDE DEF r
    <3>1. QED
      BY <1>2, <1>6, <1>8, <1>9, <1>10
  <2>5. QED
    BY <2>1, <2>2, <2>3, <2>4
<1>12. \A x \in Nat : mp_skip(mp, 0, x) = x
  <2> SUFFICES ASSUME NEW x \in Nat PROVE mp_skip(mp, 0, x) = x
    OBVIOUS
  <2>1. 0 \in Nat
    OBVIOUS
  <2>2. after[<<0, x, 0>>] = x
    BY <1>7, <2>1, SkipNone
  <2>3. QED
    BY <1>7, <2>2
<1> HIDE DEF p, q, r, z
<1>13. /\ mp_skip(mp, 0, 1) = 1 /\ mp_skip(mp, 1, 1) = p /\ mp_skip(mp, 2, 1) = q
       /\ mp_skip(mp, 3, 1) = r /\ mp_skip(mp, 4, 1) = z
  <2>1. /\ 0 \in Nat /\ 1 \in Nat /\ 2 \in Nat /\ 3 \in Nat
        /\ 0 + 1 = 1 /\ 1 + 1 = 2 /\ 2 + 1 = 3 /\ 3 + 1 = 4
    OBVIOUS
  <2>2. mp_skip(mp, 1, 1) = mp_skip(mp, 0, p) /\ mp_skip(mp, 2, 1) = mp_skip(mp, 1, p)
        /\ mp_skip(mp, 3, 1) = mp_skip(mp, 2, p) /\ mp_skip(mp, 4, 1) = mp_skip(mp, 3, p)
    BY <1>11, <2>1
  <2>3. mp_skip(mp, 1, p) = mp_skip(mp, 0, q) /\ mp_skip(mp, 2, p) = mp_skip(mp, 1, q)
        /\ mp_skip(mp, 3, p) = mp_skip(mp, 2, q)
    BY <1>11, <2>1
  <2>4. mp_skip(mp, 1, q) = mp_skip(mp, 0, r) /\ mp_skip(mp, 2, q) = mp_skip(mp, 1, r)
    BY <1>11, <2>1
  <2>5. mp_skip(mp, 1, r) = mp_skip(mp, 0, z)
    BY <1>11, <2>1
  <2>6. QED
    BY <1>10, <1>12, <2>1, <2>2, <2>3, <2>4, <2>5
<1>14. mp_array_header(mp) # None /\ mp_array_header(mp)[1][1] = n /\ mp_array_header(mp)[1][2] = 1
  BY <1>3 DEF None, Some
<1> DEFINE pos == [k \in 0 .. 4 |-> mp_skip(mp, k, mp_array_header(mp)[1][2])]
<1>15. pos[0] = 1 /\ pos[1] = p /\ pos[2] = q /\ pos[3] = r /\ pos[4] = z
  BY <1>13, <1>14
<1> HIDE DEF pos
<1>16. ~\E k \in 1 .. 4 : pos[k] <= pos[k - 1]
  <2>1. \A k \in 1 .. 4 : k = 1 \/ k = 2 \/ k = 3 \/ k = 4
    OBVIOUS
  <2>2. /\ ~(pos[1] <= pos[1 - 1]) /\ ~(pos[2] <= pos[2 - 1])
        /\ ~(pos[3] <= pos[3 - 1]) /\ ~(pos[4] <= pos[4 - 1])
    BY <1>10, <1>15
  <2>3. QED
    BY <2>1, <2>2
<1>17. lxmf_signed_payload(mp) = Some(<<\h94>> \o Bytes(mp, 1, pos[4] - 1))
  <2>1. ~(n < 4)
    BY <1>3
  <2>2. QED
    BY <1>14, <1>16, <2>1 DEF lxmf_signed_payload, pos
<1>18. Bytes(mp, 1, pos[4] - 1) = e
  BY <1>4, <1>10, <1>15, LiesBytes
<1>19. QED
  BY <1>17, <1>18 DEF Marked

-----------------------------------------------------------------------------
(* What the receivers show                                                 *)

\* A verdict is about a message, and so is its event.
LEMMA VerdictFacts ==
  ASSUME NEW v \in Verdicts
  PROVE  /\ v.msg \in Msg /\ v.known \in BOOLEAN
         /\ v.event # None => v.event[1].msg = v.msg
         /\ Packet[v.msg].channel = "data" => v.event = DataEvent(v.msg, v.known)
<1>1. PICK m \in Msg, known \in BOOLEAN :
        v = [msg |-> m, known |-> known, event |-> EventOf(m, known)]
  BY DEF Verdicts
<1>2. v.msg = m /\ v.known = known /\ v.event = EventOf(m, known)
  BY <1>1
<1>3. Packet[m].channel \in {"data", "resource", "group"}
  BY SentAssumption DEF Packet, Channel
<1>4. ASSUME NEW w, NEW check, lxmf_event_from_bytes(m, w, check) # None
      PROVE  lxmf_event_from_bytes(m, w, check)[1].msg = m
  BY <1>4 DEF lxmf_event_from_bytes, Some, None
<1>5. DataEvent(m, known) # None => DataEvent(m, known)[1].msg = m
  BY <1>4 DEF DataEvent
<1>6. ResourceEvent(m) # None => ResourceEvent(m)[1].msg = m
  BY <1>4 DEF ResourceEvent
<1>7. GroupEvent(m) # None => GroupEvent(m)[1].msg = m
  BY <1>4 DEF GroupEvent
<1>8. \/ Packet[m].channel = "data" /\ EventOf(m, known) = DataEvent(m, known)
      \/ Packet[m].channel # "data" /\ EventOf(m, known) = ResourceEvent(m)
      \/ Packet[m].channel # "data" /\ EventOf(m, known) = GroupEvent(m)
  BY <1>3 DEF EventOf
<1>9. QED
  BY <1>2, <1>5, <1>6, <1>7, <1>8

\* A message that is read is shown with the event of its verdict, or dropped.
LEMMA Reading ==
  ASSUME NEW m \in Msg, Read(m)
  PROVE  \E v \in Verdicts :
           /\ v.msg = m
           /\ v.known = (\E s \in peerIdentities : <<m, s>> \in SourcesRead)
           /\ Emit(m, v.event, "refused")
BY DEF Read

\* A receiver emits nothing, or the event of a verdict on the message it read.
LEMMA Emitting ==
  ASSUME [Next]_vars, NEW e \in events' \ events
  PROVE  \E v \in Verdicts :
           /\ v.event # None /\ e = v.event[1]
           /\ v.known = (\E s \in peerIdentities : <<v.msg, s>> \in SourcesRead)
<1>1. ASSUME NEW m, Read(m)
      PROVE  \E v \in Verdicts :
               /\ v.event # None /\ e = v.event[1]
               /\ v.known = (\E s \in peerIdentities : <<v.msg, s>> \in SourcesRead)
  <2>1. PICK v \in Verdicts :
          /\ v.msg = m
          /\ v.known = (\E s \in peerIdentities : <<m, s>> \in SourcesRead)
          /\ Emit(m, v.event, "refused")
    BY <1>1 DEF Read
  <2>2. v.event # None /\ e = v.event[1]
    BY <2>1 DEF Emit
  <2>3. QED
    BY <2>1, <2>2
<1>2. CASE ReceiveData
  BY <1>1, <1>2 DEF ReceiveData
<1>3. CASE ReceiveResource
  BY <1>1, <1>3 DEF ReceiveResource
<1>4. CASE ReceiveGroup
  <2>1. ~Emit(Head(rx.group), None, "no key")
    BY DEF Emit
  <2>2. QED
    BY <1>1, <1>4, <2>1 DEF ReceiveGroup
<1>5. CASE UNCHANGED vars
  BY <1>5 DEF vars, inboundVars
<1>6. CASE CoSignStep \/ ReceiveRequest
  BY <1>6 DEF CoSignStep, ReceiveRequest, inboundVars
<1>7. CASE Stop \/ (\E n \in Mode : Start(n)) \/ (\E s \in Sources : Announce(s))
             \/ (\E k \in GroupKey : JoinGroup(k)) \/ LeaveGroup
  BY <1>7 DEF Stop, Start, Announce, JoinGroup, LeaveGroup
<1>8. CASE (\E m \in Msg : Arrive(m)) \/ (\E r \in sent : ArriveRequest(r))
  BY <1>8 DEF Arrive, ArriveRequest
<1>9. QED
  BY <1>2, <1>3, <1>4, <1>5, <1>6, <1>7, <1>8 DEF Next

\* The signature of a forged message is invalid for a known source.
LEMMA ForgedIsRefused ==
  ASSUME NEW m \in Msg, Packet[m].channel = "data", ~Packet[m].genuine
  PROVE  SourceRead(m) = Packet[m].source /\ DataEvent(m, TRUE) = None
<1> DEFINE w == Packet[m].wire
           data == normalize_lxmf_wire(w, MyAddr)
<1>1. /\ w = Wire(w.dest, w.src, w.sig, w.mp)
      /\ w.src = Packet[m].source /\ ~Misread(w)
      /\ \/ w.sig = NoSig
         \/ w.sig.by # w.src
         \/ w.sig.payload \notin {w.mp} \cup ToSet(lxmf_signed_payload(w.mp))
  BY SentAssumption, ForgedAssumption DEF Packet
<1> HIDE DEF w
<1>2. /\ w = [dest |-> w.dest, src |-> w.src, sig |-> w.sig, mp |-> w.mp]
      /\ [w EXCEPT !.dest = MyAddr]
           = [dest |-> MyAddr, src |-> w.src, sig |-> w.sig, mp |-> w.mp]
  BY <1>1 DEF Wire
<1>3. data = None \/ data = Some(w) \/ data = Some([w EXCEPT !.dest = MyAddr])
  BY <1>1 DEF normalize_lxmf_wire
<1>4. Some(w)[1] = w /\ Some([w EXCEPT !.dest = MyAddr])[1] = [w EXCEPT !.dest = MyAddr]
  BY DEF Some
<1>5. data # None => data[1].src = w.src /\ data[1].sig = w.sig /\ data[1].mp = w.mp
  BY <1>2, <1>3, <1>4
<1>6. SourceRead(m) = IF data = None THEN w.src ELSE data[1].src
  BY DEF SourceRead, w
<1>7. ASSUME data # None
      PROVE  verify_lxmf_signature(data[1], {data[1].src}) = "invalid"
  <2> DEFINE x == data[1]
             signed == lxmf_signed_payload(x.mp)
  <2>1. x.src = w.src /\ x.sig = w.sig /\ x.mp = w.mp
    BY <1>5, <1>7
  <2> HIDE DEF x
  <2>2. \/ x.sig = NoSig
        \/ x.sig.by # x.src
        \/ x.sig.payload \notin {x.mp} \cup ToSet(signed)
    BY <1>1, <2>1
  <2>3. ASSUME NEW dest, NEW payload, NEW hashed,
               x.sig = Signature(x.src, dest, x.src, payload, hashed)
        PROVE  x.sig.by = x.src /\ x.sig.payload = payload
    BY <2>3 DEF Signature
  <2>4. signed # None => signed[1] \in ToSet(signed)
    <3>1. signed = None \/ \E y : signed = <<y>>
      BY DEF lxmf_signed_payload, Some
    <3> HIDE DEF signed
    <3>2. \A y : y \in ToSet(<<y>>) /\ <<y>>[1] = y
      BY DEF ToSet
    <3>3. QED
      BY <3>1, <3>2
  <2> HIDE DEF signed
  <2>5. x.sig # NoSig =>
          /\ ~(signed # None /\ x.sig = Signature(x.src, x.dest, x.src, signed[1], TRUE))
          /\ x.sig # Signature(x.src, x.dest, x.src, x.mp, FALSE)
    BY <2>2, <2>3, <2>4
  <2>6. verify_lxmf_signature(x, {x.src}) = "invalid"
    BY <2>5 DEF verify_lxmf_signature, signed
  <2>7. QED
    BY <2>6 DEF x
<1>8. DataEvent(m, TRUE) = None
  BY <1>7 DEF DataEvent, w
<1>9. QED
  BY <1>1, <1>5, <1>6, <1>8
\* A message the source it names never signed is shown as data only while that
\* source is unknown: once its announce was seen, the check of the signature
\* refuses it (node.rs, the data receiver).
THEOREM ForgedIsNotShown == Spec => ForgedNeedsUnknownSource
<1>1. ASSUME [Next]_vars, NEW e \in events' \ events,
             Packet[e.msg].channel = "data", ~Packet[e.msg].genuine
      PROVE  Packet[e.msg].source \notin peerIdentities
  <2>1. PICK v \in Verdicts :
          /\ v.event # None /\ e = v.event[1]
          /\ v.known = (\E s \in peerIdentities : <<v.msg, s>> \in SourcesRead)
    BY <1>1, Emitting
  <2>2. v.msg \in Msg /\ v.known \in BOOLEAN /\ e.msg = v.msg
        /\ v.event = DataEvent(v.msg, v.known)
    BY <1>1, <2>1, VerdictFacts
  <2>3. SourceRead(v.msg) = Packet[v.msg].source /\ DataEvent(v.msg, TRUE) = None
    BY <1>1, <2>2, ForgedIsRefused
  <2>4. v.known # TRUE
    BY <2>1, <2>2, <2>3
  <2>5. <<v.msg, Packet[v.msg].source>> \in SourcesRead
    BY <2>2, <2>3 DEF SourcesRead
  <2>6. QED
    BY <2>1, <2>2, <2>4, <2>5
<1>2. [Next]_vars =>
        [\A e \in events' \ events :
           Packet[e.msg].channel = "data" /\ ~Packet[e.msg].genuine
             => Packet[e.msg].source \notin peerIdentities]_vars
  BY <1>1
<1>3. QED
  BY <1>2, PTL DEF Spec, ForgedNeedsUnknownSource

-----------------------------------------------------------------------------
(* The types                                                               *)

\* The part of TypeOK that is about neither CoSign nor the channels.
Rest ==
  /\ mode \in Mode \cup {"stopped"}
  /\ stops \in 0 .. MaxStops
  /\ todo \subseteq Msg
  /\ peerIdentities \subseteq Sources
  /\ groupKey \in Option(GroupKey)
  /\ ShownMsgs \subseteq Msg
  /\ \A d \in dropped : d[1] \in Msg

\* Rest holds at the start.
LEMMA InitRest == Init => Rest
<1> SUFFICES ASSUME Init PROVE Rest
  OBVIOUS
<1>1. todo \subseteq Msg
  BY LoadsAssumption DEF Init
<1>2. ShownMsgs = {} /\ groupKey \in Option(GroupKey)
  BY DEF Init, ShownMsgs, Option
<1>3. QED
  BY <1>1, <1>2, InboundBoundsAssumption DEF Init, Rest

\* What a step shows is about messages.
LEMMA ShownStays ==
  ASSUME [Next]_vars, ShownMsgs \subseteq Msg
  PROVE  ShownMsgs' \subseteq Msg
<1> SUFFICES ASSUME NEW e \in events' PROVE e.msg \in Msg
  BY DEF ShownMsgs
<1>1. CASE e \in events
  BY <1>1 DEF ShownMsgs
<1>2. CASE e \notin events
  <2>1. PICK v \in Verdicts : v.event # None /\ e = v.event[1]
    BY <1>2, Emitting
  <2>2. QED
    BY <2>1, VerdictFacts
<1>3. QED
  BY <1>1, <1>2

\* Rest is kept by the receivers.
LEMMA EmitRest ==
  ASSUME Rest, [Next]_vars, NEW m \in Msg, NEW event, NEW reason, Emit(m, event, reason)
  PROVE  Rest'
<1>1. /\ dropped' = dropped \/ dropped' = dropped \cup {<<m, reason>>}
      /\ UNCHANGED <<mode, stops, todo, peerIdentities, groupKey>>
  BY DEF Emit
<1>2. ShownMsgs' \subseteq Msg
  BY ShownStays DEF Rest
<1>3. \A d \in dropped' : d[1] \in Msg
  BY <1>1 DEF Rest
<1>4. QED
  BY <1>1, <1>2, <1>3 DEF Rest

\* Rest is kept by every step.
LEMMA NextRest ==
  ASSUME RxShape, Rest, [Next]_vars
  PROVE  Rest'
<1>1. ShownMsgs' \subseteq Msg
  BY ShownStays DEF Rest
<1>2. ASSUME NEW m \in Msg, Read(m)
      PROVE  Rest'
  BY <1>2, EmitRest DEF Read
<1>3. ASSUME NEW c \in Channel \ {"data"}, rx[c] # <<>>
      PROVE  Head(rx[c]) \in Msg
  BY <1>3 DEF RxShape
<1>4. CASE ReceiveData
  BY <1>2, <1>4 DEF ReceiveData
<1>5. CASE ReceiveResource
  BY <1>2, <1>3, <1>5 DEF ReceiveResource, Channel
<1>6. CASE ReceiveGroup
  <2>1. Head(rx.group) \in Msg
    BY <1>3, <1>6 DEF ReceiveGroup, Channel
  <2>2. QED
    BY <1>2, <1>6, <2>1, EmitRest DEF ReceiveGroup
<1>7. CASE UNCHANGED vars
  BY <1>1, <1>7 DEF vars, inboundVars, Rest
<1>8. CASE CoSignStep \/ ReceiveRequest
  BY <1>1, <1>8 DEF CoSignStep, ReceiveRequest, inboundVars, Rest
<1>9. ASSUME NEW n \in Mode, Start(n)
      PROVE  Rest'
  BY <1>1, <1>9 DEF Start, Rest
<1>10. CASE Stop
  <2>1. mode' = "stopped" /\ stops' \in 0 .. MaxStops
    BY <1>10, InboundBoundsAssumption DEF Stop, Rest
  <2>2. \A d \in dropped' : d[1] \in Msg
    BY <1>10 DEF Stop, Rest
  <2>3. UNCHANGED <<todo, peerIdentities, groupKey>>
    BY <1>10 DEF Stop
  <2>4. QED
    BY <1>1, <2>1, <2>2, <2>3 DEF Rest
<1>11. ASSUME NEW m \in Msg, Arrive(m)
       PROVE  Rest'
  <2>1. /\ todo' \subseteq todo
        /\ dropped' = dropped \cup {<<x, "lagged">> : x \in Overwritten(Packet[m].channel) \cap Msg}
        /\ UNCHANGED <<mode, stops, peerIdentities, groupKey>>
    BY <1>11 DEF Arrive
  <2>2. \A d \in dropped' : d[1] \in Msg
    BY <2>1 DEF Rest
  <2>3. QED
    BY <1>1, <2>1, <2>2 DEF Rest
<1>12. ASSUME NEW r \in sent, ArriveRequest(r)
       PROVE  Rest'
  <2>1. /\ dropped' = dropped \cup {<<x, "lagged">> : x \in Overwritten("data") \cap Msg}
        /\ UNCHANGED <<mode, stops, todo, peerIdentities, groupKey>>
    BY <1>12 DEF ArriveRequest
  <2>2. \A d \in dropped' : d[1] \in Msg
    BY <2>1 DEF Rest
  <2>3. QED
    BY <1>1, <2>1, <2>2 DEF Rest
<1>13. ASSUME NEW s \in Sources, Announce(s)
       PROVE  Rest'
  BY <1>1, <1>13 DEF Announce, Rest
<1>14. ASSUME NEW k \in GroupKey, JoinGroup(k)
       PROVE  Rest'
  BY <1>1, <1>14 DEF JoinGroup, Rest, Option
<1>15. CASE LeaveGroup
  BY <1>1, <1>15 DEF LeaveGroup, Rest, Option
<1>16. QED
  BY <1>4, <1>5, <1>6, <1>7, <1>8, <1>9, <1>10, <1>11, <1>12, <1>13, <1>14, <1>15 DEF Next

\* The types of CoSign follow from its invariant.
LEMMA CoSignTypes == CInv => CoSignTypeOK
<1> SUFFICES ASSUME CInv PROVE CoSignTypeOK
  OBVIOUS
<1>1. \A p \in Payment : stage[p].at \in At /\ stage[p].id \in 0 .. asks
  BY DEF CInv, StageOK
<1>2. serving # None => keypair # None \/ serving[1].req.method = "getBalance"
  BY DEF CInv, ServingOK, OnlyKey
<1>3. QED
  BY <1>1, <1>2 DEF CInv, ConfigOK, StageOK, RequestsOK, AnswersOK, CoSignTypeOK

\* Every variable of the node has its type.
THEOREM TypeCorrect == Spec => []TypeOK
<1>1. RxShape /\ RxOK /\ Rest /\ CInv => TypeOK
  <2> SUFFICES ASSUME RxShape, RxOK, Rest, CInv PROVE TypeOK
    OBVIOUS
  <2>1. \A i \in DOMAIN rx.data : rx.data[i] \in Msg \cup sent
    BY DEF RxOK
  <2>2. \A c \in Channel : Len(rx[c]) <= RxCap
    BY DEF RxShape
  <2>3. \A c \in Channel \ {"data"} : rx[c] \in Seq(Msg)
    BY DEF RxShape
  <2>4. QED
    BY <2>1, <2>2, <2>3, CoSignTypes DEF Rest, TypeOK
<1>2. RxShape /\ Rest /\ [Next]_vars => Rest'
  BY NextRest
<1>3. QED
  BY <1>1, <1>2, RxHolds, PaymentsHold, InitRest, PTL DEF Spec

-----------------------------------------------------------------------------
(* Packed messages                                                         *)

\* The address a wire is for; a client strips it where it is that of the receiver.
Recipient(w) == IF w.dest = NoAddr THEN MyAddr ELSE w.dest

\* s is a message as LXMF clients pack it.
WellSent(s) ==
  /\ s.wire.src = s.source
  /\ s.channel = "group" => s.wire.dest # NoAddr
  /\ s.content \in MessageContent
  /\ \E e :
       /\ Elements(e, s.content) /\ Payload(s.wire.mp, e)
       /\ s.channel = "data" /\ s.genuine => SignedFor(s.wire, e, Recipient(s.wire))

\* So is every message, or it is no payload at all.
MessagesArePacked ==
  \A m \in Msg :
    \/ WellSent(Packet[m])
    \/ /\ ~Packet[m].genuine
       /\ Packet[m].wire.mp \in Seq(Byte) /\ ~looks_like_lxmf_payload(Packet[m].wire.mp)

\* What is decoded looks like a payload.
LEMMA DecodedLooks ==
  ASSUME NEW mp \in Seq(Byte), decode_lxmf_payload(mp) # None
  PROVE  looks_like_lxmf_payload(mp)
<1> DEFINE h == mp_array_header(mp)
           ts == mp_read_numeric_f64(mp, h[1][2])
<1>1. h # None /\ ~(h[1][1] < 4) /\ decode_lxmf_payload(mp) = DecodeFrom(mp, ts)
  BY DEF decode_lxmf_payload
<1>2. ts # None
  BY <1>1 DEF DecodeFrom
<1>3. h[1][2] < Len(mp) /\ mp_is_numeric_marker(mp[h[1][2] + 1])
  BY <1>2 DEF mp_read_numeric_f64
<1>4. h[1][1] \in Int
  <2>1. CASE mp # <<>> /\ mp[1] \in \h90 .. \h9f
    <3>1. h = Some(<<mp[1] - \h90, 1>>)
      <4>1. mp[1] # \hdc /\ mp[1] # \hdd
        BY <2>1
      <4>2. QED
        BY <2>1, <4>1 DEF mp_array_header
    <3>2. QED
      BY <2>1, <3>1 DEF Some
  <2>2. CASE Len(mp) >= 3 /\ mp[1] = \hdc
    <3>1. h = Some(<<Num(mp, 1, 2), 3>>)
      BY <2>2 DEF mp_array_header
    <3>2. Num(mp, 1, 2) \in Nat
      BY <2>2, NumNat
    <3>3. QED
      BY <3>1, <3>2 DEF Some
  <2>3. CASE Len(mp) >= 5 /\ mp[1] = \hdd
    <3>1. h = Some(<<Num(mp, 1, 4), 5>>)
      BY <2>3 DEF mp_array_header
    <3>2. Num(mp, 1, 4) \in Nat
      BY <2>3, NumNat
    <3>3. QED
      BY <3>1, <3>2 DEF Some
  <2>4. QED
    BY <1>1, <2>1, <2>2, <2>3 DEF mp_array_header
<1>5. QED
  BY <1>1, <1>3, <1>4 DEF looks_like_lxmf_payload

\* A packed message looks like a payload, and has at least five bytes.
LEMMA PackedLooks ==
  ASSUME NEW s, WellSent(s)
  PROVE  /\ looks_like_lxmf_payload(s.wire.mp) /\ decode_lxmf_payload(s.wire.mp) = Some(s.content)
         /\ s.wire.mp \in Seq(Byte) /\ Len(s.wire.mp) >= 1
<1>1. PICK e : Elements(e, s.content) /\ Payload(s.wire.mp, e)
  BY DEF WellSent
<1>2. s.content \in MessageContent
  BY DEF WellSent
<1>3. e \in Seq(Byte)
  BY <1>1, PartsBytes DEF Elements
<1>4. s.wire.mp \in Seq(Byte) /\ LiesAt(s.wire.mp, 1, e)
  BY <1>1, <1>3, PayloadLies
<1>5. Len(s.wire.mp) >= 1
  BY <1>3, <1>4 DEF LiesAt
<1>6. QED
  BY <1>1, <1>2, <1>4, <1>5, PayloadDecodes

\* What a receiver makes of a wire
LEMMA Normalised ==
  ASSUME NEW m \in Msg, ~Misread(Packet[m].wire)
  PROVE  LET w == Packet[m].wire
             data == normalize_lxmf_wire(w, MyAddr)
         IN /\ data # None <=> looks_like_lxmf_payload(w.mp)
            /\ data # None => /\ data[1].src = w.src /\ data[1].sig = w.sig /\ data[1].mp = w.mp
                              /\ data[1].dest = Recipient(w)
            /\ SourceRead(m) = w.src
<1> DEFINE w == Packet[m].wire
           data == normalize_lxmf_wire(w, MyAddr)
<1>1. w = Wire(w.dest, w.src, w.sig, w.mp)
  BY SentAssumption DEF Packet
<1>2. ~Misread(w)
  OBVIOUS
<1>3. SourceRead(m) = IF data = None THEN w.src ELSE data[1].src
  BY DEF SourceRead
<1> SUFFICES /\ data # None <=> looks_like_lxmf_payload(w.mp)
             /\ data # None => /\ data[1].src = w.src /\ data[1].sig = w.sig /\ data[1].mp = w.mp
                               /\ data[1].dest = Recipient(w)
  BY <1>3
<1> HIDE DEF w
<1>4. /\ [w EXCEPT !.dest = MyAddr].dest = MyAddr /\ [w EXCEPT !.dest = MyAddr].src = w.src
      /\ [w EXCEPT !.dest = MyAddr].sig = w.sig /\ [w EXCEPT !.dest = MyAddr].mp = w.mp
  BY <1>1 DEF Wire
<1>5. \A x : Some(x) # None /\ Some(x)[1] = x
  BY DEF Some, None
<1>6. CASE ~looks_like_lxmf_payload(w.mp)
  <2>1. data = None
    BY <1>2, <1>6 DEF normalize_lxmf_wire
  <2>2. QED
    BY <1>6, <2>1
<1>7. CASE looks_like_lxmf_payload(w.mp) /\ w.dest # NoAddr
  <2>1. data = Some(w)
    BY <1>2, <1>7 DEF normalize_lxmf_wire
  <2>2. data # None /\ data[1] = w
    BY <1>5, <2>1
  <2>3. QED
    BY <1>7, <2>2 DEF Recipient
<1>8. CASE looks_like_lxmf_payload(w.mp) /\ w.dest = NoAddr
  <2>1. data = Some([w EXCEPT !.dest = MyAddr])
    BY <1>2, <1>8 DEF normalize_lxmf_wire
  <2>2. data # None /\ data[1] = [w EXCEPT !.dest = MyAddr]
    BY <1>5, <2>1
  <2> HIDE DEF data
  <2>3. QED
    BY <1>4, <1>8, <2>2 DEF Recipient
<1>9. QED
  BY <1>6, <1>7, <1>8

\* An event that says of message m what its sender gave it
Faithful(m, event) ==
  event.source = Packet[m].source /\ event.content = Packet[m].content

\* What is decoded from the payload of a message is what its sender gave it, and a
\* packed message is decoded.
LEMMA DecodedIsFaithful ==
  ASSUME MessagesArePacked, NEW m \in Msg, NEW w, NEW check,
         w.src = Packet[m].wire.src, w.mp = Packet[m].wire.mp
  PROVE  /\ lxmf_event_from_bytes(m, w, check) # None
              => Faithful(m, lxmf_event_from_bytes(m, w, check)[1])
         /\ WellSent(Packet[m]) => lxmf_event_from_bytes(m, w, check) # None
<1> DEFINE s == Packet[m]
           dec == decode_lxmf_payload(w.mp)
           event == [msg |-> m, source |-> w.src, content |-> dec[1], check |-> check]
<1>1. /\ dec = None => lxmf_event_from_bytes(m, w, check) = None
      /\ dec # None => lxmf_event_from_bytes(m, w, check) = Some(event)
  BY DEF lxmf_event_from_bytes
<1>2. CASE WellSent(s)
  <2>1. dec = Some(s.content) /\ w.src = s.source
    BY <1>2, PackedLooks DEF WellSent
  <2>2. dec # None /\ dec[1] = s.content
    BY <2>1 DEF Some, None
  <2>3. event.source = s.source /\ event.content = s.content
    BY <2>1, <2>2
  <2> HIDE DEF event, dec, s
  <2>4. Some(event) # None /\ Some(event)[1] = event
    BY DEF Some, None
  <2>5. QED
    BY <1>1, <2>2, <2>3, <2>4 DEF Faithful, s
<1>3. CASE ~WellSent(s)
  <2>1. w.mp \in Seq(Byte) /\ ~looks_like_lxmf_payload(w.mp)
    BY <1>3 DEF MessagesArePacked
  <2>2. dec = None
    BY <2>1, DecodedLooks
  <2>3. QED
    BY <1>1, <1>3, <2>2
<1>4. QED
  BY <1>2, <1>3

\* The event of a message is faithful, unless the message is misread.
LEMMA EventIsFaithful ==
  ASSUME MessagesArePacked, NEW m \in Msg, NEW known, EventOf(m, known) # None
  PROVE  Misread(Packet[m].wire) \/ Faithful(m, EventOf(m, known)[1])
<1> DEFINE w == Packet[m].wire
           data == normalize_lxmf_wire(w, MyAddr)
           check == verify_lxmf_signature(data[1], IF known THEN {data[1].src} ELSE {})
<1> SUFFICES ASSUME ~Misread(w) PROVE Faithful(m, EventOf(m, known)[1])
  OBVIOUS
<1>1. data # None => data[1].src = w.src /\ data[1].mp = w.mp
  BY Normalised
<1>2. Packet[m].channel \in {"data", "resource", "group"}
  BY SentAssumption DEF Packet, Channel
<1>3. CASE Packet[m].channel = "data"
  <2>1. EventOf(m, known) = DataEvent(m, known)
    BY <1>3 DEF EventOf
  <2>2. data # None /\ DataEvent(m, known) = lxmf_event_from_bytes(m, data[1], check)
    BY <2>1 DEF DataEvent
  <2> HIDE DEF data, check, w
  <2>3. QED
    BY <1>1, <2>1, <2>2, DecodedIsFaithful DEF w
<1>4. CASE Packet[m].channel = "resource"
  <2>1. EventOf(m, known) = ResourceEvent(m)
    BY <1>4 DEF EventOf
  <2>2. data # None /\ ResourceEvent(m) = lxmf_event_from_bytes(m, data[1], "none")
    BY <2>1 DEF ResourceEvent
  <2> HIDE DEF data, check, w
  <2>3. QED
    BY <1>1, <2>1, <2>2, DecodedIsFaithful DEF w
<1>5. CASE Packet[m].channel = "group"
  <2>1. EventOf(m, known) = GroupEvent(m)
    BY <1>5 DEF EventOf
  <2>2. GroupEvent(m) = lxmf_event_from_bytes(m, w, "none")
    BY <2>1 DEF GroupEvent
  <2>3. QED
    BY <2>1, <2>2, DecodedIsFaithful
<1>6. QED
  BY <1>2, <1>3, <1>4, <1>5

\* The check of a packed message with up to 15 files says that it is valid, once its
\* source is known.
LEMMA PackedIsValid ==
  ASSUME NEW s, WellSent(s), s.channel = "data", s.genuine,
         NEW w, w.src = s.wire.src, w.sig = s.wire.sig, w.mp = s.wire.mp, w.dest = Recipient(s.wire),
         NEW identities, Len(s.content.files) <= 15 \/ w.src \notin identities
  PROVE  verify_lxmf_signature(w, identities) = IF w.src \in identities THEN "valid" ELSE "unknown"
<1>1. CASE w.src \notin identities
  BY <1>1 DEF verify_lxmf_signature
<1>2. CASE w.src \in identities
  <2>1. PICK e :
          /\ Elements(e, s.content) /\ Payload(s.wire.mp, e)
          /\ SignedFor(s.wire, e, Recipient(s.wire))
    BY DEF WellSent
  <2> DEFINE signed == lxmf_signed_payload(w.mp)
  <2>2. signed = Some(Marked(\h94, e))
    BY <1>2, <2>1, PayloadIsSigned DEF WellSent
  <2>3. signed # None /\ signed[1] = Marked(\h94, e)
    BY <2>2 DEF Some, None
  <2>4. /\ w.sig # NoSig
        /\ \/ w.sig = Signature(w.src, w.dest, w.src, Marked(\h94, e), TRUE)
           \/ w.sig = Signature(w.src, w.dest, w.src, w.mp, FALSE)
    BY <2>1 DEF SignedFor, lxmf_sign
  <2> HIDE DEF signed
  <2>5. verify_lxmf_signature(w, identities) = "valid"
    BY <1>2, <2>3, <2>4 DEF verify_lxmf_signature, signed
  <2>6. QED
    BY <1>2, <2>5
<1>3. QED
  BY <1>1, <1>2

\* Why the data receiver may refuse message s, whose source is known or not
Excused(s, known) ==
  \/ Misread(s.wire)
  \/ /\ s.channel = "data"
     /\ \/ FirstAddress(s.wire) \in Brace
        \/ s.wire.dest = NoAddr /\ Len(s.wire.mp) <= AddrLen
        \/ Len(s.content.files) > 15 /\ known

\* A genuine message has an event, unless it is excused.
LEMMA GenuineHasEvent ==
  ASSUME MessagesArePacked, NEW m \in Msg, Packet[m].genuine, NEW known \in BOOLEAN,
         EventOf(m, known) = None
  PROVE  Excused(Packet[m], known)
<1> DEFINE s == Packet[m]
           w == s.wire
           data == normalize_lxmf_wire(w, MyAddr)
           identities == IF known THEN {data[1].src} ELSE {}
           check == verify_lxmf_signature(data[1], identities)
<1> SUFFICES ASSUME ~Excused(s, known) PROVE FALSE
  OBVIOUS
<1>1. WellSent(s)
  BY DEF MessagesArePacked
<1>2. looks_like_lxmf_payload(w.mp) /\ w.mp \in Seq(Byte) /\ Len(w.mp) >= 1
  BY <1>1, PackedLooks
<1>3. ~Misread(w)
  BY DEF Excused
<1>4. /\ data # None
      /\ data[1].src = w.src /\ data[1].sig = w.sig /\ data[1].mp = w.mp
      /\ data[1].dest = Recipient(w)
  BY <1>2, <1>3, Normalised
<1>5. \A x, y : x.src = w.src /\ x.mp = w.mp => lxmf_event_from_bytes(m, x, y) # None
  BY <1>1, DecodedIsFaithful
<1>6. s.channel \in {"data", "resource", "group"}
  BY SentAssumption DEF Packet, Channel
<1>7. ~(WireLen(w) < HeaderLen + 1) \/ (w.dest = NoAddr /\ s.channel = "resource")
       \/ (w.dest = NoAddr /\ s.channel = "data" /\ Len(w.mp) <= AddrLen)
  <2> DEFINE n == Len(w.mp)
  <2>1. n \in Nat /\ n >= 1
    BY <1>2
  <2>2. w.dest = NoAddr => s.channel # "group"
    BY <1>1 DEF WellSent
  <2>3. WireLen(w) = 96 + n - (IF w.dest = NoAddr THEN 16 ELSE 0)
    BY DEF WireLen, HeaderLen, AddrLen
  <2>4. CASE w.dest = NoAddr
    <3>1. WireLen(w) = 80 + n
      <4> HIDE DEF n
      <4>1. QED
        BY <2>1, <2>3, <2>4
    <3> HIDE DEF n
    <3>2. n <= 16 \/ ~(80 + n < 96 + 1)
      BY <2>1
    <3>3. QED
      BY <1>6, <2>2, <2>4, <3>1, <3>2 DEF n, HeaderLen, AddrLen
  <2>5. CASE w.dest # NoAddr
    <3> HIDE DEF n
    <3>1. WireLen(w) = 96 + n
      BY <2>1, <2>3, <2>5
    <3>2. QED
      BY <2>1, <3>1 DEF HeaderLen
  <2>6. QED
    BY <2>4, <2>5
<1>8. CASE s.channel = "data"
  <2>1. EventOf(m, known) = DataEvent(m, known)
    BY <1>8 DEF EventOf
  <2>2. ~looks_like_rpc_response(w)
    BY <1>7, <1>8 DEF looks_like_rpc_response, Excused
  <2>3. Len(s.content.files) <= 15 \/ ~known
    <3> DEFINE f == s.content.files
    <3>1. Len(f) \in Nat
      BY <1>1 DEF WellSent, MessageContent
    <3>2. ~(Len(f) > 15) \/ ~known
      BY <1>8 DEF Excused
    <3>3. QED
      BY <3>1, <3>2
  <2>4. Len(s.content.files) <= 15 \/ data[1].src \notin identities
    BY <2>3
  <2>5. check # "invalid"
    <3> HIDE DEF s, data, identities
    <3>1. QED
      BY <1>1, <1>4, <1>8, <2>4, PackedIsValid DEF s
  <2>6. DataEvent(m, known) = lxmf_event_from_bytes(m, data[1], check)
    BY <1>4, <2>2, <2>5 DEF DataEvent
  <2>7. QED
    BY <1>4, <1>5, <2>1, <2>6
<1>9. CASE s.channel = "resource"
  <2>1. EventOf(m, known) = ResourceEvent(m)
    BY <1>9 DEF EventOf
  <2>2. ResourceEvent(m) = lxmf_event_from_bytes(m, data[1], "none")
    BY <1>4 DEF ResourceEvent
  <2>3. QED
    BY <1>4, <1>5, <2>1, <2>2
<1>10. CASE s.channel = "group"
  <2>1. EventOf(m, known) = GroupEvent(m)
    BY <1>10 DEF EventOf
  <2>2. ~(WireLen(w) < HeaderLen + 1)
    BY <1>7, <1>10
  <2>3. GroupEvent(m) = lxmf_event_from_bytes(m, w, "none")
    BY <2>2 DEF GroupEvent
  <2>4. QED
    BY <1>5, <2>1, <2>3
<1>11. QED
  BY <1>6, <1>8, <1>9, <1>10

\* A verdict has the event of its message.
LEMMA VerdictEvent ==
  ASSUME NEW v \in Verdicts
  PROVE  v.event = EventOf(v.msg, v.known)
BY DEF Verdicts

\* What the receivers show has the source, title, body, image and files its sender
\* gave it, for messages of every client: with blobs of up to 16 MiB, any number of
\* files, further fields and stamps, as LxmfMessages says; the exception is a stripped message whose
\* payload looks like one 16 bytes later (node.rs, decode_lxmf_payload).
THEOREM MessagesAreFaithful ==
  ASSUME MessagesArePacked
  PROVE  Spec => []EventsAreFaithful
<1>1. Init => EventsAreFaithful
  BY DEF Init, EventsAreFaithful
<1>2. EventsAreFaithful /\ [Next]_vars => EventsAreFaithful'
  <2> SUFFICES ASSUME EventsAreFaithful, [Next]_vars, NEW e \in events'
               PROVE  \/ e.source = Packet[e.msg].source /\ e.content = Packet[e.msg].content
                      \/ Misread(Packet[e.msg].wire)
    BY DEF EventsAreFaithful
  <2>1. CASE e \in events
    BY <2>1 DEF EventsAreFaithful
  <2>2. CASE e \notin events
    <3>1. PICK v \in Verdicts : v.event # None /\ e = v.event[1]
      BY <2>2, Emitting
    <3>2. v.msg \in Msg /\ e.msg = v.msg
      BY <3>1, VerdictFacts
    <3>3. v.event = EventOf(v.msg, v.known)
      BY VerdictEvent
    <3>4. Misread(Packet[v.msg].wire) \/ Faithful(v.msg, v.event[1])
      BY <3>1, <3>2, <3>3, EventIsFaithful
    <3>5. QED
      BY <3>1, <3>2, <3>4 DEF Faithful
  <2>3. QED
    BY <2>1, <2>2
<1>3. QED
  BY <1>1, <1>2, PTL DEF Spec

\* What a receiver refuses, it read, and its verdict was that there is no event.
LEMMA Refusing ==
  ASSUME [Next]_vars, NEW d \in dropped' \ dropped, d[2] = "refused"
  PROVE  \E v \in Verdicts :
           /\ v.event = None /\ d[1] = v.msg
           /\ v.known = (\E s \in peerIdentities : <<v.msg, s>> \in SourcesRead)
<1>1. ASSUME NEW m, Read(m)
      PROVE  \E v \in Verdicts :
               /\ v.event = None /\ d[1] = v.msg
               /\ v.known = (\E s \in peerIdentities : <<v.msg, s>> \in SourcesRead)
  <2>1. PICK v \in Verdicts :
          /\ v.msg = m
          /\ v.known = (\E s \in peerIdentities : <<m, s>> \in SourcesRead)
          /\ Emit(m, v.event, "refused")
    BY <1>1 DEF Read
  <2>2. v.event = None
    BY <2>1 DEF Emit
  <2>3. dropped' = dropped \cup {<<m, "refused">>}
    BY <2>1, <2>2 DEF Emit
  <2>4. d = <<m, "refused">>
    BY <2>3
  <2>5. d[1] = v.msg
    BY <2>1, <2>4
  <2>6. QED
    BY <2>1, <2>2, <2>5
<1>2. CASE ReceiveData
  BY <1>1, <1>2 DEF ReceiveData
<1>3. CASE ReceiveResource
  BY <1>1, <1>3 DEF ReceiveResource
<1>4. CASE ReceiveGroup
  <2>1. ~Emit(Head(rx.group), None, "no key")
    <3>1. SUFFICES ASSUME Emit(Head(rx.group), None, "no key") PROVE FALSE
      OBVIOUS
    <3>2. dropped' = dropped \cup {<<Head(rx.group), "no key">>}
      BY <3>1 DEF Emit
    <3> DEFINE x == Head(rx.group)
    <3> HIDE DEF x
    <3>3. d = <<x, "no key">>
      BY <3>2 DEF x
    <3>4. QED
      BY <3>3
  <2>2. QED
    BY <1>1, <1>4, <2>1 DEF ReceiveGroup
<1>5. CASE UNCHANGED vars
  BY <1>5 DEF vars, inboundVars
<1>6. CASE CoSignStep \/ ReceiveRequest
  BY <1>6 DEF CoSignStep, ReceiveRequest, inboundVars
<1>7. CASE (\E n \in Mode : Start(n)) \/ (\E s \in Sources : Announce(s))
             \/ (\E k \in GroupKey : JoinGroup(k)) \/ LeaveGroup
  BY <1>7 DEF Start, Announce, JoinGroup, LeaveGroup
<1>8. CASE Stop
  <2>1. d \in {<<m, "stopped">> : m \in InChannels \cap Msg}
    BY <1>8 DEF Stop
  <2>2. QED
    BY <2>1
<1>9. CASE (\E m \in Msg : Arrive(m)) \/ (\E r \in sent : ArriveRequest(r))
  <2>1. \E c : d \in {<<x, "lagged">> : x \in Overwritten(c) \cap Msg}
    BY <1>9 DEF Arrive, ArriveRequest
  <2>2. QED
    BY <2>1
<1>10. QED
  BY <1>2, <1>3, <1>4, <1>5, <1>6, <1>7, <1>8, <1>9 DEF Next

\* A source that is known stays known.
LEMMA KnownStays ==
  ASSUME [Next]_vars
  PROVE  peerIdentities \subseteq peerIdentities'
<1>1. \A m, event, reason : Emit(m, event, reason) => peerIdentities' = peerIdentities
  BY DEF Emit
<1>2. \A m : Read(m) => peerIdentities' = peerIdentities
  BY <1>1 DEF Read
<1>3. CASE ReceiveData \/ ReceiveResource \/ ReceiveGroup
  BY <1>1, <1>2, <1>3 DEF ReceiveData, ReceiveResource, ReceiveGroup
<1>4. CASE CoSignStep \/ ReceiveRequest \/ UNCHANGED vars
  BY <1>4 DEF CoSignStep, ReceiveRequest, vars, inboundVars
<1>5. CASE Stop \/ (\E n \in Mode : Start(n)) \/ (\E s \in Sources : Announce(s))
             \/ (\E k \in GroupKey : JoinGroup(k)) \/ LeaveGroup
  BY <1>5 DEF Stop, Start, Announce, JoinGroup, LeaveGroup
<1>6. CASE (\E m \in Msg : Arrive(m)) \/ (\E r \in sent : ArriveRequest(r))
  BY <1>6 DEF Arrive, ArriveRequest
<1>7. QED
  BY <1>3, <1>4, <1>5, <1>6 DEF Next

\* A genuine message of any client that a receiver took is shown, with the
\* exceptions GenuineIsShown names: the readers find every part of it, and the
\* check of the signature finds the region its sender signed, whatever fields and
\* stamps it has (node.rs, normalize_lxmf_wire, lxmf_signed_payload).
THEOREM GenuineMessagesAreShown ==
  ASSUME MessagesArePacked
  PROVE  Spec => []GenuineIsShown
<1> DEFINE Allowed(d, known) == d[2] = "refused" /\ Packet[d[1]].genuine => Excused(Packet[d[1]], known)
           Inv == \A d \in dropped :
                    d[1] \in Msg /\ Allowed(d, Packet[d[1]].source \in peerIdentities)
<1>1. Init => Inv
  BY DEF Init
<1>2. Rest /\ Rest' /\ Inv /\ [Next]_vars => Inv'
  <2> SUFFICES ASSUME Rest, Rest', Inv, [Next]_vars, NEW d \in dropped'
               PROVE  d[1] \in Msg /\ Allowed(d, Packet[d[1]].source \in peerIdentities')
    OBVIOUS
  <2>1. d[1] \in Msg
    BY DEF Rest
  <2>2. CASE d \in dropped
    <3>1. Allowed(d, Packet[d[1]].source \in peerIdentities)
      BY <2>2
    <3>2. Packet[d[1]].source \in peerIdentities => Packet[d[1]].source \in peerIdentities'
      BY KnownStays
    <3>3. QED
      BY <2>1, <3>1, <3>2 DEF Excused
  <2>3. CASE d \notin dropped
    <3> DEFINE s == Packet[d[1]]
    <3> SUFFICES ASSUME d[2] = "refused", s.genuine
                 PROVE  Excused(s, s.source \in peerIdentities')
      BY <2>1
    <3>1. PICK v \in Verdicts :
            /\ v.event = None /\ d[1] = v.msg
            /\ v.known = (\E x \in peerIdentities : <<v.msg, x>> \in SourcesRead)
      BY <2>3, Refusing
    <3>2. v.known \in BOOLEAN /\ v.event = EventOf(v.msg, v.known)
      BY VerdictFacts, VerdictEvent
    <3>3. Excused(s, v.known)
      BY <2>1, <3>1, <3>2, GenuineHasEvent
    <3>4. ASSUME ~Misread(s.wire), v.known
          PROVE  s.source \in peerIdentities'
      <4>1. PICK x \in peerIdentities : <<d[1], x>> \in SourcesRead
        BY <3>1, <3>4
      <4>2. x = SourceRead(d[1])
        BY <4>1 DEF SourcesRead
      <4>3. SourceRead(d[1]) = s.wire.src
        BY <2>1, <3>4, Normalised
      <4>4. s.wire.src = s.source
        BY <2>1 DEF MessagesArePacked, WellSent
      <4>5. QED
        BY <4>1, <4>2, <4>3, <4>4, KnownStays
    <3> HIDE DEF s
    <3>5. QED
      BY <3>3, <3>4 DEF Excused
  <2>4. QED
    BY <2>1, <2>2, <2>3
<1>3. Inv => GenuineIsShown
  BY DEF Excused, GenuineIsShown
<1> HIDE DEF Inv
<1>4. RxShape /\ Rest /\ [Next]_vars => Rest'
  BY NextRest
<1>5. QED
  BY <1>1, <1>2, <1>3, <1>4, InitRest, RxHolds, PTL DEF Spec

-----------------------------------------------------------------------------
(* What this client writes                                                 *)

\* A name with data is written as it is read.
LEMMA OwnPairs ==
  ASSUME NEW x \in Name \X BlobData
  PROVE  NamedData(Pair(x), x) /\ Pair(x) \in Seq(Byte)
<1> DEFINE h == <<\h92>>
           a == mp_str(x[1])
           b == mp_bin(x[2])
<1>1. Text(a, x[1]) /\ Text(b, x[2])
  BY OwnTexts
<1>2. a \in Seq(Byte) /\ b \in Seq(Byte)
  BY <1>1, TextFlat DEF Flat
<1>3. h \in Seq(Byte)
  BY DEF Byte
<1>4. Pair(x) = (h \o a) \o b
  BY DEF Pair
<1>5. Marked(\h92, a \o b) = h \o (a \o b)
  BY DEF Marked
<1> HIDE DEF h, a, b
<1>6. (h \o a) \o b = h \o (a \o b)
  BY <1>2, <1>3, ConcatAssociative
<1>7. NamedData(Pair(x), x)
  BY <1>1, <1>4, <1>5, <1>6 DEF NamedData
<1>8. QED
  BY <1>7, NamedDataSkips

\* So are the files.
LEMMA OwnFiles ==
  ASSUME NEW files \in Seq(Name \X BlobData), Len(files) < 65536
  PROVE  FileArray(mp_array([i \in DOMAIN files |-> Pair(files[i])]), files)
<1> DEFINE es == [i \in DOMAIN files |-> Pair(files[i])]
<1>1. \A i \in 1 .. Len(files) : NamedData(Pair(files[i]), files[i]) /\ Pair(files[i]) \in Seq(Byte)
  BY OwnPairs
<1>2. es \in Seq(Seq(Byte)) /\ Len(es) = Len(files)
  BY <1>1
<1>3. \A i \in 1 .. Len(es) : NamedData(es[i], files[i])
  BY <1>1, <1>2
<1> HIDE DEF es
<1>4. FileArray(mp_array(es), files)
  BY <1>2, <1>3 DEF FileArray
<1>5. QED
  BY <1>4 DEF es

\* What a user can send is content that can be read back.
LEMMA OwnContentIsContent == OwnContent \subseteq MessageContent
<1>1. Name \subseteq TextData
  <2>1. \A d \in Seq(Byte) : Len(d) < 65536 => Len(d) <= Mib16
    BY MibNat
  <2>2. QED
    BY <2>1 DEF Name, TextData, BlobData
<1>2. Name \X BlobData \subseteq Attachment
  BY <1>1 DEF Attachment
<1>3. <<>> \in BlobData
  BY MibNat DEF BlobData
<1>4. Option(Name \X BlobData) \subseteq Images
  BY <1>2 DEF Images, Option
<1>5. Seq(Name \X BlobData) \subseteq Seq(Attachment)
  BY <1>2
<1>6. ASSUME NEW c \in OwnContent
      PROVE  c \in MessageContent
  <2>1. /\ c = [title |-> c.title, body |-> c.body, image |-> c.image, files |-> c.files]
        /\ c.title = <<>> /\ c.body \in BlobData /\ c.image \in Option(Name \X BlobData)
        /\ c.files \in Seq(Name \X BlobData)
    BY DEF OwnContent, OwnImages, OwnFileLists
  <2>2. c.image \in Images /\ c.files \in Seq(Attachment) /\ c.title \in BlobData
    BY <1>3, <1>4, <1>5, <2>1
  <2>3. QED
    BY <2>1, <2>2 DEF MessageContent
<1>7. QED
  BY <1>6

\* Two lists of fields behind each other
LEMMA ListsJoin ==
  ASSUME NEW a \in Seq(Seq(Byte)), NEW b \in Seq(Seq(Byte))
  PROVE  /\ a \o b \in Seq(Seq(Byte)) /\ Len(a \o b) = Len(a) + Len(b)
         /\ \A i \in 1 .. Len(a) + Len(b) : (a \o b)[i] = IF i <= Len(a) THEN a[i] ELSE b[i - Len(a)]
BY ConcatProperties

\* A list of fields that holds the image and the files is their map.
LEMMA FieldsAreMap ==
  ASSUME NEW fs \in Seq(Seq(Byte)), NEW image, NEW files, Len(fs) <= 15,
         \A i \in 1 .. Len(fs) : Field(fs[i], image, files),
         image # None => \E i \in 1 .. Len(fs) : ImageField(fs[i], image),
         files # <<>> => \E i \in 1 .. Len(fs) : FilesField(fs[i], files),
         \A i, j \in 1 .. Len(fs) :
           FilesField(fs[i], files) /\ FilesField(fs[j], files) => i = j
  PROVE  FieldMap(Marked(\h80 + Len(fs), FlattenSeq(fs)), image, files)
BY DEF FieldMap

\* The fields are written as they are read.
LEMMA OwnFields ==
  ASSUME NEW image \in OwnImages, NEW files \in OwnFileLists
  PROVE  FieldMap(build_fields_msgpack(image, files), image, files)
<1> DEFINE f6 == <<\h06>> \o Pair(image[1])
           f5 == <<\h05>> \o mp_array([i \in DOMAIN files |-> Pair(files[i])])
           a == IF image = None THEN <<>> ELSE <<f6>>
           b == IF files = <<>> THEN <<>> ELSE <<f5>>
           fs == a \o b
<1>0. image \in Option(Name \X BlobData) /\ files \in Seq(Name \X BlobData) /\ Len(files) < 65536
  BY DEF OwnImages, OwnFileLists
<1>1. image # None => ImageField(f6, image)
  <2> SUFFICES ASSUME image # None PROVE ImageField(f6, image)
    OBVIOUS
  <2>1. PICK x \in Name \X BlobData : image = Some(x)
    BY <1>0 DEF Option
  <2>2. image[1] \in Name \X BlobData
    BY <2>1 DEF Some
  <2>3. NamedData(Pair(image[1]), image[1])
    BY <2>2, OwnPairs
  <2>4. QED
    BY <2>3 DEF ImageField, Marked
<1>2. FilesField(f5, files)
  <2> DEFINE v == mp_array([i \in DOMAIN files |-> Pair(files[i])])
  <2>1. FileArray(v, files)
    BY <1>0, OwnFiles
  <2> HIDE DEF v
  <2>2. FilesField(<<\h05>> \o v, files)
    BY <2>1 DEF FilesField, Marked
  <2>3. QED
    BY <2>2 DEF v
<1>3. (image # None => f6 \in Seq(Byte) /\ f6[1] = \h06) /\ f5 \in Seq(Byte) /\ f5[1] = \h05
  <2> HIDE DEF f5, f6
  <2>1. Field(f5, image, files)
    BY <1>2 DEF Field
  <2>2. f5 \in Seq(Byte) /\ f5[1] = \h05
    BY <1>2, <2>1, FieldBytes
  <2>3. ASSUME image # None
        PROVE  f6 \in Seq(Byte) /\ f6[1] = \h06
    <3>1. Field(f6, image, files)
      BY <1>1, <2>3 DEF Field
    <3>2. QED
      BY <1>1, <2>3, <3>1, FieldBytes
  <2>4. QED
    BY <2>2, <2>3
<1> HIDE DEF f5, f6
<1>4. /\ a \in Seq(Seq(Byte)) /\ b \in Seq(Seq(Byte))
      /\ image = None => Len(a) = 0
      /\ image # None => Len(a) = 1 /\ a[1] = f6
      /\ files = <<>> => Len(b) = 0
      /\ files # <<>> => Len(b) = 1 /\ b[1] = f5
  BY <1>3
<1>5. build_fields_msgpack(image, files) = Marked(\h80 + Len(fs), FlattenSeq(fs))
  BY DEF build_fields_msgpack, Marked, f5, f6
<1> HIDE DEF a, b
<1>6. /\ fs \in Seq(Seq(Byte)) /\ Len(fs) = Len(a) + Len(b)
      /\ \A i \in 1 .. Len(a) + Len(b) : fs[i] = IF i <= Len(a) THEN a[i] ELSE b[i - Len(a)]
  BY <1>4, ListsJoin
<1> HIDE DEF fs
<1> DEFINE n == Len(a)
           m == Len(b)
<1>7. /\ n \in {0, 1} /\ m \in {0, 1} /\ Len(fs) <= 15 /\ Len(fs) = n + m
      /\ image # None => n = 1 /\ a[1] = f6
      /\ files # <<>> => m = 1 /\ b[1] = f5
      /\ n = 1 => image # None
      /\ m = 1 => files # <<>>
  <2>1. Len(fs) = n + m
    BY <1>6
  <2>2. /\ image = None => n = 0
        /\ image # None => n = 1 /\ a[1] = f6
        /\ files = <<>> => m = 0
        /\ files # <<>> => m = 1 /\ b[1] = f5
    BY <1>4
  <2> HIDE DEF n, m
  <2>3. n \in {0, 1} /\ m \in {0, 1}
    BY <2>2
  <2>4. n + m <= 15
    BY <2>3
  <2>5. QED
    BY <2>1, <2>2, <2>3, <2>4
<1>8. image # None => 1 \in 1 .. Len(fs) /\ fs[1] = f6
  <2>1. ASSUME n = 1
        PROVE  1 \in 1 .. n + m /\ 1 <= n
    <3> HIDE DEF n, m
    <3>1. QED
      BY <1>7, <2>1
  <2>2. QED
    BY <1>6, <1>7, <2>1
<1>9. files # <<>> => n + 1 \in 1 .. Len(fs) /\ fs[n + 1] = f5
  <2> SUFFICES ASSUME files # <<>> PROVE n + 1 \in 1 .. Len(fs) /\ fs[n + 1] = f5
    OBVIOUS
  <2>1. m = 1 /\ b[1] = f5 /\ n + 1 \in 1 .. n + m /\ ~(n + 1 <= n) /\ n + 1 - n = 1
    <3> HIDE DEF n, m
    <3>1. m = 1 /\ b[1] = f5 /\ n \in {0, 1}
      BY <1>7
    <3>2. QED
      BY <3>1
  <2>2. fs[n + 1] = b[1]
    BY <1>6, <2>1
  <2>3. QED
    BY <1>7, <2>1, <2>2
<1>10. ASSUME NEW i \in 1 .. Len(fs)
       PROVE  \/ image # None /\ i = 1 /\ i <= n /\ fs[i] = f6
              \/ files # <<>> /\ i = n + 1 /\ fs[i] = f5
  <2>1. i \in Nat /\ 1 <= i /\ i <= n + m
    <3>1. Len(fs) = n + m /\ Len(fs) \in Nat
      BY <1>6, <1>7
    <3>2. QED
      BY <1>10, <3>1
  <2>2. CASE i <= n
    <3>1. i = 1 /\ n = 1
      <4> HIDE DEF n, m
      <4>1. QED
        BY <1>7, <2>1, <2>2
    <3>2. QED
      BY <1>7, <1>8, <2>2, <3>1
  <2>3. CASE ~(i <= n)
    <3>1. i = n + 1 /\ m = 1
      <4> HIDE DEF n, m
      <4>1. QED
        BY <1>7, <2>1, <2>3
    <3>2. QED
      BY <1>7, <1>9, <3>1
  <2>4. QED
    BY <2>2, <2>3
<1> HIDE DEF n, m
<1>11. \A i \in 1 .. Len(fs) : Field(fs[i], image, files)
  BY <1>1, <1>2, <1>10 DEF Field
<1>12. image # None => \E i \in 1 .. Len(fs) : ImageField(fs[i], image)
  BY <1>1, <1>8
<1>13. files # <<>> => \E i \in 1 .. Len(fs) : FilesField(fs[i], files)
  BY <1>2, <1>9
<1>14. ASSUME NEW i \in 1 .. Len(fs), NEW j \in 1 .. Len(fs),
              FilesField(fs[i], files), FilesField(fs[j], files)
       PROVE  i = j
  <2>1. ASSUME NEW k \in 1 .. Len(fs), FilesField(fs[k], files)
        PROVE  k = n + 1
    <3> DEFINE f == fs[k]
    <3>1. Field(f, image, files) /\ FilesField(f, files)
      BY <2>1 DEF Field
    <3> HIDE DEF f
    <3>2. f[1] = \h05
      BY <3>1, FieldBytes
    <3>3. image # None /\ f = f6 => f[1] = \h06
      BY <1>3
    <3>4. \/ image # None /\ f = f6
          \/ k = n + 1
      BY <1>10, <2>1 DEF f
    <3>5. QED
      BY <3>2, <3>3, <3>4
  <2>2. QED
    BY <1>14, <2>1
<1>15. FieldMap(Marked(\h80 + Len(fs), FlattenSeq(fs)), image, files)
  <2>1. fs \in Seq(Seq(Byte)) /\ Len(fs) <= 15
    BY <1>6, <1>7
  <2>2. \A i, j \in 1 .. Len(fs) :
          FilesField(fs[i], files) /\ FilesField(fs[j], files) => i = j
    BY <1>14
  <2>3. QED
    BY <1>11, <1>12, <1>13, <2>1, <2>2, FieldsAreMap
<1>16. QED
  BY <1>5, <1>15 DEF fs

\* a, b and c behind each other, in either grouping
Grouped(a, b, c) == (a \o b) \o c = a \o (b \o c) /\ a \o b \in Seq(Byte)

\* For bytes both are the same.
LEMMA Regrouped ==
  ASSUME NEW a \in Seq(Byte), NEW b \in Seq(Byte), NEW c \in Seq(Byte)
  PROVE  Grouped(a, b, c)
BY ConcatAssociative, ConcatProperties DEF Grouped

\* The parts of a payload, one behind the other
PartsJoin(h, time, title, body, fields) ==
  (((h \o time) \o title) \o body) \o fields = h \o (time \o (title \o (body \o fields)))

\* The parts are grouped from the left when written and from the right when read.
LEMMA PartsInOrder ==
  ASSUME NEW h \in Seq(Byte), NEW time \in Seq(Byte), NEW title \in Seq(Byte),
         NEW body \in Seq(Byte), NEW fields \in Seq(Byte)
  PROVE  PartsJoin(h, time, title, body, fields)
<1> DEFINE a == h \o time
           b == a \o title
           y == body \o fields
           z == title \o y
<1>1. Grouped(h, time, title) /\ Grouped(body, fields, title)
  BY Regrouped
<1>2. a \in Seq(Byte) /\ y \in Seq(Byte)
  BY <1>1 DEF Grouped
<1>3. Grouped(a, title, y) /\ Grouped(title, y, title)
  <2> HIDE DEF a, y
  <2>1. QED
    BY <1>2, Regrouped
<1>4. b \in Seq(Byte) /\ z \in Seq(Byte) /\ b \o y = a \o z
  BY <1>3 DEF Grouped
<1>5. Grouped(b, body, fields) /\ Grouped(h, time, z)
  <2> HIDE DEF b, z
  <2>1. QED
    BY <1>4, Regrouped
<1>6. (b \o body) \o fields = b \o y /\ a \o z = h \o (time \o z)
  BY <1>5 DEF Grouped
<1>7. QED
  BY <1>4, <1>6 DEF PartsJoin

\* A timestamp is written as a number.
LEMMA TimeIsNumber ==
  ASSUME NEW ts \in Timestamp
  PROVE  Number(Marked(\hcb, ts)) /\ Marked(\hcb, ts) \in Seq(Byte) /\ ts \in Seq(Byte)
<1> DEFINE time == Marked(\hcb, ts)
<1>1. ts \in Seq(Byte) /\ Len(ts) = 8 /\ \hcb \in Byte
  BY DEF Timestamp, Byte
<1>2. time \in Seq(Byte) /\ Len(time) = 1 + Len(ts) /\ time[1] = \hcb
  <2>1. ts \in Seq(Byte) /\ \hcb \in Byte
    BY <1>1
  <2>2. QED
    BY <2>1, MarkedBytes
<1>3. Len(time) = 1 + 8
  BY <1>1, <1>2
<1> HIDE DEF time
<1>4. NumericWidth(time[1]) = 8 /\ mp_is_numeric_marker(time[1])
  BY <1>2 DEF NumericWidth, mp_is_numeric_marker
<1>5. time[1] \in 0 .. \h7f \cup \he0 .. \hff \cup {\hc0, \hc2, \hc3} \cup \hca .. \hd3
  BY <1>2
<1>6. Number(time)
  BY <1>2, <1>3, <1>4, <1>5 DEF Number, Scalar
<1>7. QED
  BY <1>1, <1>2, <1>6 DEF time

\* What this client writes is a payload of four parts.
LEMMA OwnPayload ==
  ASSUME NEW ts \in Timestamp, NEW c \in OwnContent
  PROVE  LET mp == encode_lxmf_msgpack(ts, <<>>, c.body, build_fields_msgpack(c.image, c.files))
         IN \E e : Elements(e, c) /\ mp = Marked(\h94, e) /\ Payload(mp, e)
<1> DEFINE time == Marked(\hcb, ts)
           title == mp_bin(<<>>)
           body == mp_bin(c.body)
           fields == build_fields_msgpack(c.image, c.files)
           e == time \o (title \o (body \o fields))
           mp == encode_lxmf_msgpack(ts, <<>>, c.body, fields)
<1>1. /\ c.title = <<>> /\ <<>> \in BlobData /\ c.body \in BlobData
      /\ c.image \in OwnImages /\ c.files \in OwnFileLists
  BY MibNat DEF OwnContent, BlobData
<1>2. Number(time) /\ time \in Seq(Byte)
  BY TimeIsNumber
<1>3. Text(title, c.title) /\ Text(body, c.body)
  BY <1>1, OwnTexts
<1>4. FieldMap(fields, c.image, c.files)
  BY <1>1, OwnFields
<1>5. Parts(time, title, body, fields, c)
  <2> HIDE DEF time, title, body, fields
  <2>1. QED
    BY <1>2, <1>3, <1>4 DEF Parts
<1>6. Elements(e, c)
  <2> HIDE DEF time, title, body, fields
  <2>1. QED
    BY <1>5 DEF Elements
<1>7. /\ title \in Seq(Byte) /\ body \in Seq(Byte) /\ fields \in Seq(Byte) /\ e \in Seq(Byte)
  <2> HIDE DEF time, title, body, fields
  <2>1. QED
    BY <1>5, PartsBytes
<1>8. mp = Marked(\h94, e)
  <2>1. mp = (((<<\h94, \hcb>> \o ts) \o title) \o body) \o fields
    BY DEF encode_lxmf_msgpack
  <2>2. <<\h94, \hcb>> \o ts = Marked(\h94, time)
    BY DEF Marked
  <2>3. Marked(\h94, time) = <<\h94>> \o time /\ Marked(\h94, e) = <<\h94>> \o e /\ <<\h94>> \in Seq(Byte)
    BY DEF Marked, Byte
  <2> HIDE DEF time, title, body, fields, mp
  <2> DEFINE h == <<\h94>>
  <2>4. h \in Seq(Byte) /\ Marked(\h94, time) = h \o time /\ Marked(\h94, e) = h \o e
    BY <2>3
  <2> HIDE DEF h
  <2>5. PartsJoin(h, time, title, body, fields)
    BY <1>2, <1>7, <2>4, PartsInOrder
  <2>6. (((h \o time) \o title) \o body) \o fields = h \o e
    BY <2>5 DEF PartsJoin
  <2> HIDE DEF e
  <2>7. QED
    BY <2>1, <2>2, <2>4, <2>6
<1>9. Payload(mp, e)
  <2>1. e \o <<>> = e /\ <<>> \in Seq(Byte) /\ 4 \in 4 .. 15 /\ \h94 = \h90 + 4
    <3> HIDE DEF e
    <3>1. QED
      BY <1>7, ConcatEmptySeq
  <2> HIDE DEF e, mp
  <2>2. mp = Marked(\h90 + 4, e \o <<>>)
    BY <1>8, <2>1
  <2>3. QED
    BY <2>1, <2>2 DEF Payload
<1>10. QED
  <2> HIDE DEF e
  <2>1. QED
    BY <1>6, <1>8, <1>9

\* What this client sends, with an image, files and a text of any length up to 16 MiB, is
\* a packed message: it is decoded to the content it was made of, and up to 15 files
\* its signature is found valid (lxmf_payload and decode_lxmf_payload agree).
THEOREM OwnMessagesArePacked ==
  ASSUME NEW channel, NEW dest, dest # NoAddr, NEW src,
         NEW ts \in Timestamp, NEW c \in OwnContent,
         NEW s, s = SentTo(channel, dest, src, ts, c), s.wire.sig # NoSig
  PROVE  /\ WellSent(s)
         /\ decode_lxmf_payload(s.wire.mp) = Some(c)
         /\ channel = "data" /\ Len(c.files) <= 15 =>
              verify_lxmf_signature(s.wire, {src}) = "valid"
<1> DEFINE mp == encode_lxmf_msgpack(ts, <<>>, c.body, build_fields_msgpack(c.image, c.files))
<1>1. PICK e : Elements(e, c) /\ mp = Marked(\h94, e) /\ Payload(mp, e)
  BY OwnPayload
<1>2. /\ s.channel = channel /\ s.source = src /\ s.content = c /\ s.genuine
      /\ s.wire.dest = dest /\ s.wire.src = src /\ s.wire.mp = mp
      /\ s.wire.sig = lxmf_sign(dest, src, mp)
  <2> HIDE DEF mp
  <2>1. s.wire = Wire(dest, src, lxmf_sign(dest, src, mp), mp)
    BY DEF SentTo, lxmf_payload, mp
  <2>2. s.channel = channel /\ s.source = src /\ s.content = c /\ s.genuine
    BY DEF SentTo
  <2>3. QED
    BY <2>1, <2>2 DEF Wire
<1> HIDE DEF mp
<1>3. Recipient(s.wire) = dest
  BY <1>2 DEF Recipient
<1>4. SignedFor(s.wire, e, Recipient(s.wire))
  BY <1>1, <1>2, <1>3 DEF SignedFor
<1>5. WellSent(s)
  BY <1>1, <1>2, <1>4, OwnContentIsContent DEF WellSent
<1>6. decode_lxmf_payload(s.wire.mp) = Some(c)
  BY <1>2, <1>5, PackedLooks
<1>7. ASSUME channel = "data", Len(c.files) <= 15
      PROVE  verify_lxmf_signature(s.wire, {src}) = "valid"
  <2>1. src \in {src}
    OBVIOUS
  <2>2. s.wire.dest = Recipient(s.wire)
    BY <1>2, <1>3
  <2>3. verify_lxmf_signature(s.wire, {src}) = IF s.wire.src \in {src} THEN "valid" ELSE "unknown"
    BY <1>2, <1>5, <1>7, <2>2, PackedIsValid
  <2>4. QED
    BY <1>2, <2>1, <2>3
<1>8. QED
  BY <1>5, <1>6, <1>7
=============================================================================
