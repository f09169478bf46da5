------------------------------ MODULE SolanaTx ------------------------------
(***************************************************************************)
(* Solana transactions as solana_tx.rs builds, signs and verifies them.    *)
(*                                                                         *)
(* A key stands for a keypair and for its public half; a signature says who*)
(* signed which message, and an empty slot holds none.  Transactions are   *)
(* kept decoded; indices into the table of keys start at 0 as on the wire. *)
(***************************************************************************)
EXTENDS Integers, Sequences, SequencesExt, Options

SYSTEM_PROGRAM == "SYSTEM_PROGRAM"
SYSVAR_RECENT_BLOCKHASHES == "SYSVAR_RECENT_BLOCKHASHES"
ProgramsAndRent ==
  <<"TOKEN_PROGRAM", SYSTEM_PROGRAM, "ASSOCIATED_TOKEN_PROGRAM", "SYSVAR_RENT">>

\* What an instruction does: its discriminator and parameters.
build_execute_payment_ix_data(params) == [method |-> "execute_payment", params |-> params]
AdvanceNonce == [method |-> "AdvanceNonceAccount"]

\* Offset of the first occurrence of a key in the table.
Idx(account_keys, key) == SelectInSeq(account_keys, LAMBDA k : k = key) - 1

CompiledInstruction(account_keys, program, accounts, data) ==
  [program_id_index |-> Idx(account_keys, program),
   account_indices |-> [i \in DOMAIN accounts |-> Idx(account_keys, accounts[i])],
   data |-> data]

\* Payer and broadcaster sign; the last accounts of the table are readonly.
SolanaMessage(account_keys, readonly, recent_blockhash, instructions) ==
  [num_required_signatures |-> 2, num_readonly_unsigned_accounts |-> readonly,
   account_keys |-> account_keys, recent_blockhash |-> recent_blockhash,
   instructions |-> instructions]

new_unsigned(message) ==
  [signatures |-> [i \in 1 .. message.num_required_signatures |-> None],
   message |-> message]

SignatureBy(key, message) == Some([by |-> key, over |-> message])

\* Every caller checked that the slot exists, or made it.
sign_tx_at_slot(tx, key, slot) ==
  IF slot < Len(tx.signatures)
    THEN [tx EXCEPT !.signatures[slot + 1] = SignatureBy(key, tx.message)]
    ELSE tx

verify_slot_signature(tx, pubkey, slot) ==
  /\ slot < Len(tx.signatures)
  /\ tx.signatures[slot + 1] = SignatureBy(pubkey, tx.message)

\* Mutant of PaymentAccounts: the two accounts of tokens change places.
PaymentAccountsSwapped(a, broadcaster) ==
  <<a.payer, broadcaster, a.payer_ata, a.recipient, a.broadcaster_ata,
    a.recipient_ata, a.mint>> \o ProgramsAndRent

\* The accounts execute_payment is called with, in the order of the IDL.
PaymentAccounts(a, broadcaster) ==
  <<a.payer, broadcaster, a.payer_ata, a.recipient, a.recipient_ata,
    a.broadcaster_ata, a.mint>> \o ProgramsAndRent

build_unsigned_execute_payment(broadcaster, recent_blockhash, a, params, program) ==
  LET accounts == PaymentAccounts(a, broadcaster)
      account_keys == Append(accounts, program)
      ep_ix == CompiledInstruction(account_keys, program, accounts,
                                   build_execute_payment_ix_data(params))
  IN new_unsigned(SolanaMessage(account_keys, 6, recent_blockhash, <<ep_ix>>))

\* The same behind an advance of the nonce, signed by the payer.
partial_sign_execute_payment(broadcaster, nonce_blockhash, a, params, program) ==
  LET accounts == PaymentAccounts(a, broadcaster)
      account_keys == SubSeq(accounts, 1, 2) \o <<a.nonce_account>>
                      \o SubSeq(accounts, 3, Len(accounts))
                      \o <<SYSVAR_RECENT_BLOCKHASHES, program>>
      advance_ix == CompiledInstruction(account_keys, SYSTEM_PROGRAM,
                      <<a.nonce_account, SYSVAR_RECENT_BLOCKHASHES, a.payer>>, AdvanceNonce)
      ep_ix == CompiledInstruction(account_keys, program, accounts,
                                   build_execute_payment_ix_data(params))
      message == SolanaMessage(account_keys, 7, nonce_blockhash, <<advance_ix, ep_ix>>)
  IN sign_tx_at_slot(new_unsigned(message), a.payer, 0)

-----------------------------------------------------------------------------
(* What the runtime of Solana makes of a message                           *)

KeysAt(message, indices) == [i \in DOMAIN indices |-> message.account_keys[indices[i] + 1]]

\* Keys that the header lets an instruction write.
Writable(message) ==
  {message.account_keys[i] :
     i \in 1 .. Len(message.account_keys) - message.num_readonly_unsigned_accounts}
=============================================================================
