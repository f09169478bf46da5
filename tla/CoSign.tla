------------------------------- MODULE CoSign -------------------------------
(***************************************************************************)
(* The co-signing of payments.  A client asks a beacon for a transaction or*)
(* builds one, signs the first slot and sends it back (useLxmf.ts, ffi.rs);*)
(* the beacon checks it, signs the second slot and submits it to Solana    *)
(* (beacon_server.rs).                                                     *)
(*                                                                         *)
(* Solana and the links are external: a call over HTTP may fail before or  *)
(* after it had its effect, a link may be gone when the answer is ready,   *)
(* and a client that does not use the hook may ask for anything.  One      *)
(* beacon stands for the one that answers a broadcast first.               *)
(***************************************************************************)
EXTENDS SolanaTx, FiniteSets

CONSTANTS
  Payment,       \* payments under way
  Client,        \* who makes each: "hook", "app", "nonce" or "other"
  Asked,         \* the accounts each payment names
  Key,           \* keys a beacon is given
  Program,       \* programs a beacon is given
  ClientProgram, \* program_id of the device of the nonce clients
  Blockhash,     \* recent blockhashes, and values of nonce accounts
  BadHex,        \* a string that hex32 refuses
  MaxConfigs,    \* bound of the model: calls that configure the beacon
  MaxAsks        \* bound of the model: requests, over all payments

AccountName == {"payer", "payer_ata", "recipient", "recipient_ata",
                "broadcaster_ata", "mint", "nonce_account"}

ASSUME ClientAssumption == Client \in [Payment -> {"hook", "app", "nonce", "other"}]
ASSUME AskedAssumption == \A p \in Payment : DOMAIN Asked[p] = AccountName
ASSUME CoSignBoundsAssumption == MaxConfigs \in Nat /\ MaxAsks \in Nat

VARIABLES
  keypair,         \* beacon_config.keypair
  solana_rpc_url,  \* beacon_config.solana_rpc_url is set
  program_id,      \* beacon_config.program_id
  configs,         \* calls that configured the beacon so far
  sent,            \* requests on their way to the beacon
  asks,            \* requests so far, the last id
  stage,           \* how far each client is, and the id it waits for
  serving,         \* the request the data receiver waits for Solana with
  panicked,        \* the data receiver ended with a panic
  answers,         \* answers of the beacon
  submitted,       \* transactions handed to Solana, with the program in use
  refused,         \* history: transactions refused, with the program in use
  rekeyed          \* history: the beacon was given another key

configVars == <<keypair, solana_rpc_url, program_id, configs, rekeyed>>
clientVars == <<asks, stage>>
serverVars == <<serving, panicked, answers, submitted, refused>>
cosignVars == <<configVars, sent, clientVars, serverVars>>

At == {"idle", "new", "preparing", "cosigning", "threw", "failed", "returned", "empty"}
Method == {"prepareTransaction", "cosignTransaction", "getBalance", "malformed"}

CoSignTypeOK ==
  /\ keypair \in Option(Key)
  /\ solana_rpc_url \in BOOLEAN
  /\ program_id \in Option(Program)
  /\ configs \in 0 .. MaxConfigs
  /\ asks \in 0 .. MaxAsks
  /\ \A r \in sent : r.id \in 1 .. asks /\ r.method \in Method /\ r.pay \in Option(Payment)
  /\ \A p \in Payment : stage[p].at \in At /\ stage[p].id \in 0 .. asks
  /\ serving # None => keypair # None \/ serving[1].req.method = "getBalance"
  /\ panicked \in BOOLEAN
  /\ \A a \in answers : a.id \in 0 .. asks /\ a.ok \in BOOLEAN /\ a.delivered \in BOOLEAN

CoSignInit ==
  /\ keypair = None
  /\ solana_rpc_url = FALSE
  /\ program_id = None
  /\ configs \in 0 .. MaxConfigs
  /\ sent = {}
  /\ asks = 0
  /\ stage \in [Payment -> {[at |-> at, id |-> 0] : at \in {"idle", "new"}}]
  /\ serving = None
  /\ panicked = FALSE
  /\ answers = {}
  /\ submitted = {}
  /\ refused = {}
  /\ rekeyed = FALSE

-----------------------------------------------------------------------------
(* Configuration of the beacon                                             *)

Configure ==
  /\ configs < MaxConfigs
  /\ configs' = configs + 1
  /\ UNCHANGED <<sent, clientVars, serverVars>>

SetKeypair(k) ==
  /\ keypair' = Some(k)
  /\ rekeyed' = (rekeyed \/ keypair \notin {None, Some(k)})
  /\ Configure /\ UNCHANGED <<solana_rpc_url, program_id>>

SetSolanaRpcUrl ==
  /\ solana_rpc_url' = TRUE
  /\ Configure /\ UNCHANGED <<keypair, program_id, rekeyed>>

SetProgramId(id) ==
  /\ program_id' = Some(id)
  /\ Configure /\ UNCHANGED <<keypair, solana_rpc_url, rekeyed>>

-----------------------------------------------------------------------------
(* The clients                                                             *)

Request(p, at, method, pay, tx) ==
  /\ asks < MaxAsks
  /\ asks' = asks + 1
  /\ sent' = sent \cup {[id |-> asks + 1, method |-> method, pay |-> pay, tx |-> tx]}
  /\ stage' = [stage EXCEPT ![p] = [at |-> at, id |-> asks + 1]]
  /\ UNCHANGED <<configVars, serverVars>>

Settle(p, at) ==
  /\ stage' = [stage EXCEPT ![p].at = at]
  /\ UNCHANGED <<configVars, sent, asks, serverVars>>

\* The answers p waits for, as the node reports them: resultJson is the JSON of
\* the field result, and "fields" the names in it if it is an object.
Answered(p, at) ==
  {a \in answers : stage[p].at = at /\ a.id = stage[p].id /\ a.delivered}

RequestUnsignedTx(p) ==
  /\ Client[p] \in {"hook", "app"}
  /\ stage[p].at = "new"
  /\ \E pay \in IF Client[p] = "hook" THEN {Some(p)} ELSE Option({p}) :
       Request(p, "preparing", "prepareTransaction", pay, None)

\* The hook looks for the transaction in a field result of resultJson.
CosignAndSubmit(p, a) ==
  /\ Client[p] = "hook"
  /\ a \in Answered(p, "preparing")
  /\ a.ok
  /\ IF "result" \in a.fields
       THEN Request(p, "cosigning", "cosignTransaction", None,
                    Some(sign_tx_at_slot(a.tx[1], Asked[p].payer, 0)))
       ELSE Settle(p, "threw")

\* What another client may make of the transaction it got: sign it, forget to,
\* sign it with the key of somebody else, change it afterwards, cut it off.
Signings(p, tx) ==
  LET signed == sign_tx_at_slot(tx, Asked[p].payer, 0) IN
  {signed, tx, sign_tx_at_slot(tx, Asked[p].recipient, 0),
   [signed EXCEPT !.message.recent_blockhash = 0],
   [signed EXCEPT !.signatures = SubSeq(@, 1, 1)]}

AppCosign(p, a) ==
  /\ Client[p] = "app"
  /\ a \in Answered(p, "preparing")
  /\ a.ok
  /\ \E tx \in Option(Signings(p, a.tx[1])) :
       Request(p, "cosigning", "cosignTransaction", None, tx)

HasBadHex(p, names) == \E n \in names : Asked[p][n] = BadHex

\* The nonce was fetched with an earlier call; the broadcaster is a key of the
\* beacon.
PartialSign(p, k, nonce_blockhash) ==
  /\ Client[p] = "nonce"
  /\ stage[p].at = "new"
  /\ IF HasBadHex(p, AccountName)
       THEN Settle(p, "threw")
       ELSE Request(p, "cosigning", "cosignTransaction", None,
              Some(partial_sign_execute_payment(k, nonce_blockhash, Asked[p], p, ClientProgram)))

\* Any other method, and a request that does not parse.
OtherRequest(p) ==
  /\ Client[p] = "other"
  /\ stage[p].at = "new"
  /\ \E m \in {"getBalance", "malformed"} : Request(p, "cosigning", m, None, None)

\* submitSignedTx; an error rejects the promise, in either round.
SubmitSignedTx(p, a) ==
  \/ a \in Answered(p, "preparing") /\ ~a.ok /\ Settle(p, "failed")
  \/ a \in Answered(p, "cosigning")
       /\ Settle(p, CASE ~a.ok -> "failed"
                      [] a.ok /\ "result" \in a.fields -> "returned"
                      [] OTHER -> "empty")

TimeOut(p) == stage[p].at \in {"preparing", "cosigning"} /\ Settle(p, "failed")

LoseRequest(r) ==
  /\ r \in sent
  /\ sent' = sent \ {r}
  /\ UNCHANGED <<configVars, clientVars, serverVars>>

ClientNext ==
  \E p \in Payment :
    \/ RequestUnsignedTx(p)
    \/ \E a \in answers : CosignAndSubmit(p, a) \/ AppCosign(p, a) \/ SubmitSignedTx(p, a)
    \/ \E k \in Key, b \in Blockhash : PartialSign(p, k, b)
    \/ OtherRequest(p)
    \/ TimeOut(p)

-----------------------------------------------------------------------------
(* The beacon                                                              *)

\* Mutant of verify_execute_payment_instruction: the last key is out of bounds.
verify_execute_payment_instructionBound(message, program) ==
  /\ message.instructions # <<>>
  /\ LET ix == message.instructions[1] IN
       /\ ix.program_id_index \in 0 .. Len(message.account_keys) - 2
       /\ message.account_keys[ix.program_id_index + 1] = program

verify_execute_payment_instruction(message, program) ==
  /\ message.instructions # <<>>
  /\ LET ix == message.instructions[1] IN
       /\ ix.program_id_index \in 0 .. Len(message.account_keys) - 1
       /\ message.account_keys[ix.program_id_index + 1] = program
       /\ ix.data.method = "execute_payment"

\* Mutant of CosignError: the signature of the payer is not checked.
CosignErrorUnchecked(arg, program) ==
  CASE arg = None -> -32602
    [] arg # None /\ (Len(arg[1].signatures) < 2 \/ arg[1].message.account_keys = <<>>) -> -32602
    [] OTHER ->
         IF verify_execute_payment_instruction(arg[1].message, program) THEN 0 ELSE -32602

\* The code of the error a transaction is refused with, or 0.
CosignError(arg, program) ==
  LET tx == arg[1] IN
  CASE arg = None -> -32602
    [] arg # None /\ (Len(tx.signatures) < 2 \/ tx.message.account_keys = <<>>) -> -32602
    [] OTHER ->
         CASE ~verify_slot_signature(tx, tx.message.account_keys[1], 0) -> -32600
           [] verify_slot_signature(tx, tx.message.account_keys[1], 0)
                /\ ~verify_execute_payment_instruction(tx.message, program) -> -32602
           [] OTHER -> 0

\* The code of the error a request gets before any call over HTTP, or 0.
RequestError(r) ==
  CASE r.method = "malformed" -> -32700
    [] r.method \in {"prepareTransaction", "cosignTransaction"}
         /\ (keypair = None \/ program_id = None) -> -32002
    [] r.method = "prepareTransaction" /\ keypair # None /\ program_id # None ->
         IF r.pay = None THEN -32602 ELSE 0
    [] r.method = "cosignTransaction" /\ keypair # None /\ program_id # None ->
         CosignError(r.tx, program_id[1])
    [] OTHER -> 0

\* The answer goes out unless the link it came by is gone.
Reply(id, ok, code, fields, tx) ==
  \E up \in BOOLEAN :
    answers' = answers \cup {[id |-> id, ok |-> ok, code |-> code, fields |-> fields,
                              tx |-> tx, delivered |-> up]}

error_response(id, code) == Reply(id, FALSE, code, {}, None)

\* A request that does not parse is answered under id 0.
TakeRequest(r) ==
  /\ serving = None /\ ~panicked
  /\ IF ~solana_rpc_url THEN UNCHANGED <<answers, serving, refused>>
     ELSE IF RequestError(r) # 0
       THEN /\ error_response(IF r.method = "malformed" THEN 0 ELSE r.id, RequestError(r))
            /\ refused' = refused \cup
                 (IF r.tx # None /\ program_id # None
                    THEN {[tx |-> r.tx[1], program |-> program_id[1]]} ELSE {})
            /\ UNCHANGED serving
       ELSE /\ serving' = Some([req |-> r, keypair |-> keypair, program_id |-> program_id,
                                tx |-> IF r.tx = None THEN None
                                       ELSE Some(sign_tx_at_slot(r.tx[1], keypair[1], 1)),
                                reached |-> FALSE])
            /\ UNCHANGED <<answers, refused>>
  /\ sent' = sent \ {r}
  /\ UNCHANGED <<configVars, clientVars, panicked, submitted>>

Finish == serving' = None /\ UNCHANGED <<configVars, sent, clientVars, submitted, refused>>

\* The call over HTTP reaches Solana.
PostJson ==
  /\ serving # None /\ ~serving[1].reached
  /\ serving' = Some([serving[1] EXCEPT !.reached = TRUE])
  /\ submitted' = submitted \cup
       (IF serving[1].tx = None THEN {}
        ELSE {[tx |-> serving[1].tx[1], program |-> serving[1].program_id[1]]})
  /\ UNCHANGED <<configVars, sent, clientVars, panicked, answers, refused>>

\* Mutants of HttpFails: a call that reached Solana has no timeout; a failure is
\* only logged.
HttpFailsNoTimeout ==
  /\ serving # None /\ ~serving[1].reached
  /\ error_response(serving[1].req.id, -32603)
  /\ Finish /\ UNCHANGED panicked
HttpFailsUnanswered == serving # None /\ Finish /\ UNCHANGED <<panicked, answers>>

\* It fails or takes 30 s, whether or not it reached Solana.
HttpFails ==
  /\ serving # None
  /\ error_response(serving[1].req.id,
                    IF serving[1].req.method = "prepareTransaction" THEN -32603 ELSE -32000)
  /\ Finish /\ UNCHANGED panicked

\* The blockhash is there.
PrepareTransaction(recent_blockhash) ==
  /\ serving # None /\ serving[1].reached
  /\ LET s == serving[1]
         p == s.req.pay[1] IN
       /\ s.req.method = "prepareTransaction"
       /\ IF HasBadHex(p, AccountName \ {"nonce_account"})
            THEN error_response(s.req.id, -32602)
            ELSE Reply(s.req.id, TRUE, 0, {"unsignedTxB64"},
                   Some(build_unsigned_execute_payment(s.keypair[1], recent_blockhash,
                                                       Asked[p], p, s.program_id[1])))
  /\ Finish /\ UNCHANGED panicked

\* Solana answers with a result, which is no object, or with an error.
RewrapResponse ==
  /\ serving # None /\ serving[1].reached
  /\ serving[1].req.method # "prepareTransaction"
  /\ \E ok \in BOOLEAN : Reply(serving[1].req.id, ok, IF ok THEN 0 ELSE -32003, {}, None)
  /\ Finish /\ UNCHANGED panicked

\* Writing the id into a response that is no object panics.
RewrapPanics ==
  /\ serving # None /\ serving[1].reached
  /\ serving[1].req.method # "prepareTransaction"
  /\ panicked' = TRUE
  /\ Finish /\ UNCHANGED answers

\* stop aborts the data receiver, with the requests it has and the one it
\* serves; the next start spawns another.
StopServing(lost) ==
  /\ serving' = None
  /\ panicked' = FALSE
  /\ sent' = sent \ lost
  /\ UNCHANGED <<configVars, clientVars, answers, submitted, refused>>

HttpNext ==
  \/ PostJson
  \/ HttpFails
  \/ \E b \in Blockhash : PrepareTransaction(b)
  \/ RewrapResponse
  \/ RewrapPanics

-----------------------------------------------------------------------------

CoSignNext ==
  \/ \E k \in Key : SetKeypair(k)
  \/ SetSolanaRpcUrl
  \/ \E id \in Program : SetProgramId(id)
  \/ ClientNext
  \/ \E r \in sent : LoseRequest(r)
  \/ \E r \in sent : TakeRequest(r)
  \/ HttpNext
  \/ \E lost \in SUBSET sent : StopServing(lost)

CoSignSpec == CoSignInit /\ [][CoSignNext]_cosignVars

-----------------------------------------------------------------------------
(* Properties                                                              *)

\* A transaction whose message the beacon built itself.
Prepared(tx) == \E a \in answers : a.tx # None /\ a.tx[1].message = tx.message

\* Whatever the beacon hands to Solana was signed by its payer as it is, and by
\* the beacon over the same bytes; where the beacon built it, and was not given
\* another key in between, its signature stands in the slot of that key.
SubmittedIsSigned ==
  \A s \in submitted :
    LET keys == s.tx.message.account_keys IN
    /\ verify_slot_signature(s.tx, keys[1], 0)
    /\ \E k \in Key : verify_slot_signature(s.tx, k, 1)
    /\ Prepared(s.tx) /\ ~rekeyed => verify_slot_signature(s.tx, keys[2], 1)

\* A payment the beacon built and submitted calls the configured program with
\* the accounts the client named, in the order of the IDL, also when one key
\* plays two roles, and lets it write the accounts of tokens and no other.
SubmittedPaysAsAsked ==
  \A s \in submitted : Prepared(s.tx) =>
    LET m == s.tx.message
        ix == m.instructions[1]
        a == Asked[ix.data.params] IN
    /\ m.account_keys[ix.program_id_index + 1] = s.program
    /\ KeysAt(m, ix.account_indices) =
         <<a.payer, m.account_keys[2], a.payer_ata, a.recipient, a.recipient_ata,
           a.broadcaster_ata, a.mint, "TOKEN_PROGRAM", "SYSTEM_PROGRAM",
           "ASSOCIATED_TOKEN_PROGRAM", "SYSVAR_RENT">>
    /\ Writable(m) = {a.payer, m.account_keys[2], a.payer_ata, a.recipient,
                      a.recipient_ata, a.broadcaster_ata}

\* A transaction the beacon built and its payer signed is refused only when the
\* program was changed in between.
PreparedIsAccepted ==
  \A f \in refused :
    /\ Prepared(f.tx) /\ Len(f.tx.signatures) = 2
    /\ verify_slot_signature(f.tx, f.tx.message.account_keys[1], 0)
    => f.program # Last(f.tx.message.account_keys)
=============================================================================
