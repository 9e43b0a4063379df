---------------------------- MODULE TxExecution ----------------------------
(***************************************************************************)
(* The execution of the contract calls of a subnet block: process_-        *)
(* transaction (db/transactions.rs), the Clarity VM's stack of contexts    *)
(* (vm/contexts.rs) over the RollbackWrapper, the STX functions of         *)
(* functions/assets.rs, and the withdrawals that the receipts of the block *)
(* give rise to (clarity_vm/withdrawal.rs).                                *)
(***************************************************************************)
EXTENDS Integers, FiniteSets, RollbackWrapper, MerkleTree

CONSTANTS
    Users,          \* principals that sign transactions
    Contracts,      \* principals of contracts, which spend under as-contract
    None,
    InitBalance,    \* balances at the start of the block
    MaxU128,
    Fee,
    Transactions,   \* transactions there may be: [origin, payer, mode,
                    \* conditions], with conditions [who, code, amount]
    MaxTxs,         \* bound: transactions of the block
    MaxOps,         \* bound: calls and asset operations of the block
    MaxDepth        \* bound: contexts of the VM

VARIABLES
    contexts,       \* GlobalContext: asset map, events and read-only flag of
                    \* each context; kind says which code will pop it
    pc,             \* how far process_transaction has got
    tx,             \* the transaction
    failing,        \* the error that unwinds the VM, or None
    outcome,        \* of the VM: what the receipt will say
    receipts,       \* of the block
    ops             \* calls and operations so far

execVars == <<contexts, pc, tx, failing, outcome, receipts, ops>>
vars == <<wrapperVars, execVars>>

Accounts == Users \cup Contracts
BalanceKey(a) == <<"balance", a>>
NonceKey(a) == <<"nonce", a>>
SupplyKey == <<"supply", None>>     \* ustx_liquid_supply
AllKeys == {BalanceKey(a) : a \in Accounts} \cup {NonceKey(a) : a \in Users}
             \cup {SupplyKey}

SumOver(f) == MapThenSumSet(LAMBDA a : f[a], DOMAIN f)

InitSupply == SumOver(InitBalance)
InitData ==
    [k \in AllKeys |-> CASE k[1] = "balance" -> InitBalance[k[2]]
                         [] k[1] = "nonce" -> 0
                         [] k[1] = "supply" -> InitSupply]

NoMoves == [a \in Accounts |-> 0]
NewContext(kind, readOnly) ==
    [kind |-> kind, readOnly |-> readOnly,
     sent |-> NoMoves, burned |-> NoMoves, events |-> <<>>]

NoOutcome == [status |-> "none", events |-> <<>>]

Init ==
    /\ store = InitData /\ WrapperInit
    /\ contexts = <<>> /\ pc = "idle" /\ tx = None /\ failing = None
    /\ outcome = NoOutcome /\ receipts = <<>> /\ ops = 0

-----------------------------------------------------------------------------
(* process_transaction                                                     *)

\* start_transaction_processing, the nonces, and the nested contexts of
\* with_abort_callback, execute_in_env and the function that is called.  A
\* transaction with another nonce is refused without a trace.
StartTx ==
    /\ pc = "idle" /\ Len(receipts) < MaxTxs
    /\ \E t \in Transactions :
          tx' = [origin |-> t.origin, nonce |-> Get(NonceKey(t.origin)),
                 payer |-> t.payer, payerNonce |-> Get(NonceKey(t.payer)),
                 mode |-> t.mode, conditions |-> t.conditions]
    /\ Nest(4)
    /\ contexts' = <<NewContext("env", FALSE), NewContext("public", FALSE)>>
    /\ pc' = "vm"
    /\ UNCHANGED <<pending, failing, outcome, receipts, ops>>

Running == pc = "vm" /\ failing = None /\ Len(contexts) > 1

Count == ops < MaxOps /\ ops' = ops + 1

-----------------------------------------------------------------------------
(* GlobalContext                                                           *)

IsReadOnly == Last(contexts).readOnly

\* begin and begin_read_only, for execute_function_as_transaction.  The analysis
\* keeps public functions out of read-only contexts.
Call(kind) ==
    /\ Running /\ Count /\ Len(contexts) < MaxDepth
    /\ kind = "public" => ~IsReadOnly
    /\ contexts' = Append(contexts,
          NewContext(kind, kind = "readonly" \/ IsReadOnly))
    /\ Nest(1)
    /\ UNCHANGED <<pending, pc, tx, failing, outcome, receipts>>

\* evaluate_at_block, up to the closure.
EnterAtBlock ==
    /\ Running /\ Count /\ Len(contexts) < MaxDepth
    /\ contexts' = Append(contexts, NewContext("at-block", TRUE))
    /\ Nest(1)
    /\ pending' = FALSE
    /\ UNCHANGED <<pc, tx, failing, outcome, receipts>>

\* Mutant: the block is set back without query_pending_data.
RestoreNothing(context) == UNCHANGED pending

\* evaluate_at_block, after the closure: set_block_hash(prior_bhh, true).
Restore(context) ==
    pending' = (pending \/ context.kind = "at-block")

Overflows(map, other) == \E a \in Accounts : map[a] + other[a] > MaxU128
Added(map, other) == [a \in Accounts |-> map[a] + other[a]]

\* commit_other, and the events of commit.
Merged(below, top) ==
    [below EXCEPT !.sent = Added(@, top.sent),
                  !.burned = Added(@, top.burned),
                  !.events = @ \o top.events]

CommitContext ==
    LET n == Len(contexts)
        top == contexts[n]
        below == contexts[n - 1]
        overflow == \/ Overflows(below.sent, top.sent)
                    \/ Overflows(below.burned, top.burned)
    IN  \/ /\ ~overflow
           /\ contexts' = [Front(contexts) EXCEPT ![n - 1] = Merged(below, top)]
           /\ Commit
           /\ UNCHANGED failing
        \/ /\ overflow
           /\ contexts' = Front(contexts)
           /\ Rollback
           /\ failing' = "runtime"

\* Mutant: the events of a context outlive it.
RollBackKeepingEvents ==
    LET n == Len(contexts)
    IN  /\ contexts' = [Front(contexts) EXCEPT
              ![n - 1].events = @ \o contexts[n].events]
        /\ Rollback
        /\ UNCHANGED failing

\* roll_back.
RollBackContext ==
    /\ contexts' = Front(contexts)
    /\ Rollback
    /\ UNCHANGED failing

\* execute_function_as_transaction and evaluate_at_block, at their end: only a
\* public function that returns ok keeps its changes.
Return ==
    /\ Running
    /\ \/ Last(contexts).kind = "public" /\ CommitContext
       \/ RollBackContext
    /\ Restore(Last(contexts))
    /\ UNCHANGED <<pc, tx, outcome, receipts, ops>>

\* The same, for an error.
Unwind ==
    /\ pc = "vm" /\ failing # None /\ Len(contexts) > 1
    /\ RollBackContext
    /\ Restore(Last(contexts))
    /\ UNCHANGED <<pc, tx, outcome, receipts, ops>>

\* An error of the contract (a runtime error, a short return), or one that makes
\* the transaction unfit for any block (a cost overflow, a check error).
Fail ==
    /\ Running /\ Count
    /\ failing' \in {"runtime", "rejectable"}
    /\ UNCHANGED <<wrapperVars, contexts, pc, tx, outcome, receipts>>

-----------------------------------------------------------------------------
(* The STX functions.  What they refuse with an error code changes nothing. *)

CanSpend(from, amount) ==
    /\ Running /\ ~IsReadOnly /\ Count
    /\ from \in {tx.origin} \cup Contracts
    /\ amount \in 1..Get(BalanceKey(from))

\* add_stx_transfer and add_stx_burn: an overflow is a runtime error, and the
\* data is already changed.
Log(map, from, amount, events) ==
    LET next == Last(contexts)[map][from] + amount
    IN  \/ /\ next <= MaxU128
           /\ contexts' = [contexts EXCEPT
                 ![Len(contexts)] = [@ EXCEPT ![map][from] = next,
                                              !.events = @ \o events]]
           /\ UNCHANGED failing
        \/ /\ next > MaxU128
           /\ failing' = "runtime"
           /\ UNCHANGED contexts

\* stx_transfer_consolidated.
Transfer ==
    /\ \E from, to \in Accounts, amount \in 1..InitSupply :
          /\ CanSpend(from, amount) /\ from # to
          /\ PutAll((BalanceKey(from) :> Get(BalanceKey(from)) - amount)
                    @@ (BalanceKey(to) :> Get(BalanceKey(to)) + amount))
          /\ Log("sent", from, amount, <<>>)
    /\ UNCHANGED <<pending, pc, tx, outcome, receipts>>

\* special_stx_burn and special_stx_withdraw: they differ in their event.
Destroy(kind) ==
    /\ \E from \in Accounts, amount \in 1..InitSupply :
          /\ CanSpend(from, amount)
          /\ PutAll((BalanceKey(from) :> Get(BalanceKey(from)) - amount)
                    @@ (SupplyKey :> Get(SupplyKey) - amount))
          /\ Log("burned", from, amount,
                 <<[type |-> kind, who |-> from, amount |-> amount]>>)
    /\ UNCHANGED <<pending, pc, tx, outcome, receipts>>

-----------------------------------------------------------------------------
(* The rest of process_transaction                                         *)

\* execute_in_env, at its end.  The asset map and the events are those of the
\* context it opened.
LeaveEnv ==
    /\ pc = "vm" /\ Len(contexts) = 1
    /\ \/ failing = None /\ Commit
       \/ failing # None /\ Rollback
    /\ pc' = "check"
    /\ UNCHANGED <<pending, contexts, tx, failing, outcome, receipts, ops>>

ConditionHolds(code, sent, amount) ==
    CASE code = "eq" -> sent = amount
      [] code = "gt" -> sent > amount
      [] code = "ge" -> sent >= amount
      [] code = "lt" -> sent < amount
      [] code = "le" -> sent <= amount

\* Mutant: only transfers need a condition.
CoveredSentOnly(named, map) ==
    \A a \in Accounts : map.sent[a] > 0 => a \in named

\* Every account that sent or burned STX is named by a condition.
Covered(named, map) ==
    \A a \in Accounts : map.sent[a] > 0 \/ map.burned[a] > 0 => a \in named

\* check_transaction_postconditions, for STX.
PostConditionsHold(t, map) ==
    /\ \A i \in DOMAIN t.conditions :
          LET c == t.conditions[i]
          IN  ConditionHolds(c.code, map.sent[c.who] + map.burned[c.who],
                             c.amount)
    /\ \/ t.mode = "allow"
       \/ Covered({t.conditions[i].who : i \in DOMAIN t.conditions}, map)

\* with_abort_callback, at its end, and the receipt that
\* process_transaction_payload makes of the result.
CheckPostConditions ==
    /\ pc = "check" /\ failing # "rejectable"
    /\ LET map == Last(contexts)
       IN  \/ /\ failing = None /\ PostConditionsHold(tx, map)
              /\ Commit
              /\ outcome' = [status |-> "ok", events |-> map.events]
           \/ /\ failing = None /\ ~PostConditionsHold(tx, map)
              /\ Rollback
              /\ outcome' = [status |-> "aborted", events |-> map.events]
           \/ /\ failing = "runtime"
              /\ Rollback
              /\ outcome' = [status |-> "failed", events |-> <<>>]
    /\ contexts' = <<>> /\ failing' = None /\ pc' = "fee"
    /\ UNCHANGED <<pending, tx, receipts, ops>>

\* Mutant: only the origin's nonce moves.
NewNoncesOriginOnly == NonceKey(tx.origin) :> tx.nonce + 1

\* update_account_nonce of the origin and of a payer who is someone else.
NewNonces == (NonceKey(tx.origin) :> tx.nonce + 1)
             @@ (NonceKey(tx.payer) :> tx.payerNonce + 1)

\* Mutant: the origin pays, sponsored or not.
PayFeeByOrigin ==
    /\ pc = "fee" /\ Get(BalanceKey(tx.origin)) >= Fee
    /\ PutAll((BalanceKey(tx.origin) :> Get(BalanceKey(tx.origin)) - Fee)
              @@ NewNonces)
    /\ pc' = "commit"
    /\ UNCHANGED <<pending, contexts, tx, failing, outcome, receipts, ops>>

\* get_payer_account, pay_transaction_fee and the nonces.
PayFee ==
    /\ pc = "fee" /\ Get(BalanceKey(tx.payer)) >= Fee
    /\ PutAll((BalanceKey(tx.payer) :> Get(BalanceKey(tx.payer)) - Fee)
              @@ NewNonces)
    /\ pc' = "commit"
    /\ UNCHANGED <<pending, contexts, tx, failing, outcome, receipts, ops>>

\* Every error of process_transaction drops the transaction's log.
DropTx ==
    /\ \/ pc = "check" /\ failing = "rejectable"
       \/ pc = "fee" /\ Get(BalanceKey(tx.payer)) < Fee
    /\ lookup' = NoHistory /\ edits' = <<>>
    /\ contexts' = <<>> /\ pc' = "idle" /\ tx' = None /\ failing' = None
    /\ outcome' = NoOutcome
    /\ UNCHANGED <<store, pending, receipts, ops>>

\* ClarityTransactionConnection::commit.
CommitTx ==
    /\ pc = "commit"
    /\ Commit
    /\ receipts' = Append(receipts,
          [origin |-> tx.origin, nonce |-> tx.nonce, payer |-> tx.payer,
           payerNonce |-> tx.payerNonce, status |-> outcome.status,
           events |-> outcome.events])
    /\ pc' = "idle" /\ tx' = None /\ outcome' = NoOutcome
    /\ UNCHANGED <<pending, contexts, failing, ops>>

CallPublic == Call("public")
CallReadOnly == Call("readonly")
Burn == Destroy("burn")
Withdraw == Destroy("withdraw")

Next ==
    \/ StartTx \/ CallPublic \/ CallReadOnly \/ EnterAtBlock \/ Return
    \/ Unwind \/ Fail \/ Transfer \/ Burn \/ Withdraw \/ LeaveEnv
    \/ CheckPostConditions \/ PayFee \/ DropTx \/ CommitTx

Spec == Init /\ [][Next]_vars

-----------------------------------------------------------------------------
(* The withdrawals of the block                                            *)

\* Mutant: the id counts receipts, not withdrawals.
WithdrawalKeysById(rs) ==
    FlattenSeq([i \in DOMAIN rs |->
        LET ws == SelectSeq(rs[i].events, LAMBDA e : e.type = "withdraw")
        IN  [j \in DOMAIN ws |->
                [id |-> i, who |-> ws[j].who, amount |-> ws[j].amount]]])

\* generate_withdrawal_keys.
WithdrawalKeys(rs) ==
    LET events == FlattenSeq([i \in DOMAIN rs |-> rs[i].events])
        ws == SelectSeq(events, LAMBDA e : e.type = "withdraw")
    IN  [i \in DOMAIN ws |->
            [id |-> i - 1, who |-> ws[i].who, amount |-> ws[i].amount]]

WithdrawnBy(rs) ==
    LET keys == WithdrawalKeys(rs)
    IN  SumOver([i \in DOMAIN keys |-> keys[i].amount])

BurnedBy(rs) ==
    LET bs == SelectSeq(FlattenSeq([i \in DOMAIN rs |-> rs[i].events]),
                        LAMBDA e : e.type = "burn")
    IN  SumOver([i \in DOMAIN bs |-> bs[i].amount])

Kept(rs) == SelectSeq(rs, LAMBDA r : r.status # "aborted")

-----------------------------------------------------------------------------
(* Properties                                                              *)

Store == INSTANCE NestedStore WITH
    base <- store, layers <- [i \in DOMAIN edits |-> ViewAt(i)], MaxBegin <- 4

\* The write buffer is a store with nested transactions: a nested call that fails,
\* however deep and whatever its own nested calls committed, leaves the data as it
\* was at its start, and one that succeeds leaves what it saw itself.
ImplementsNestedStore == Store!Spec

\* In a block, the STX of all accounts and the fees taken make up the liquid
\* supply, in the committed data and in what every context of the VM sees: no
\* mix of nested calls, historic reads, errors and aborts creates or loses STX.
SupplyConserved ==
    pc # "commit" =>
        \A data \in {store} \cup {ViewAt(i) : i \in DOMAIN edits} :
            SumOver([a \in Accounts |-> data[BalanceKey(a)]])
              + Fee * Len(receipts) = data[SupplyKey]

\* "If the contract being called has a runtime error, then the transaction is
\* still valid, but no changes will materialize besides debiting the tx fee"
\* (and the nonces); the same of a transaction that its post-conditions abort.
OnlyFeeOnFailure ==
    [][CommitTx /\ outcome.status # "ok" =>
          \A k \in AllKeys :
              \/ k \in {NonceKey(tx.origin), NonceKey(tx.payer)}
              \/ store'[k] = store[k] - (IF k = BalanceKey(tx.payer) THEN Fee
                                                                    ELSE 0)
      ]_vars

\* In deny mode an account that no post-condition names never ends a transaction
\* with less than it had, whatever the call did in nested contexts, except for
\* the fee.
DenyModeProtects ==
    [][CommitTx /\ tx.mode = "deny" =>
          \A a \in Accounts :
              \/ store'[BalanceKey(a)] >= store[BalanceKey(a)]
                                          - (IF a = tx.payer THEN Fee ELSE 0)
              \/ \E i \in DOMAIN tx.conditions : tx.conditions[i].who = a
      ]_vars

\* A pair of account and nonce is good for one transaction, as origin or as payer.
NoncesUsedOnce ==
    \A i, j \in DOMAIN receipts :
        LET uses(r) == {<<r.origin, r.nonce>>, <<r.payer, r.payerNonce>>}
        IN  i # j => uses(receipts[i]) \cap uses(receipts[j]) = {}

\* What the receipts of transactions that were not aborted say was withdrawn or
\* burned has left the liquid supply, and nothing else has.
ReceiptsMatchSupply ==
    pc = "idle" => WithdrawnBy(Kept(receipts)) + BurnedBy(Kept(receipts))
                     = InitSupply - store[SupplyKey]

\* A withdrawal "destroys those assets on the subnet, and adds that particular
\* withdrawal to a withdrawal data structure for that block" (NFT_USE_CASE.md):
\* the leaves of the withdrawal tree are worth no more than what was destroyed.
WithdrawalsDestroyAssets ==
    pc = "idle" => WithdrawnBy(receipts) <= InitSupply - store[SupplyKey]

\* Each withdrawal of the block has a leaf of its own, the proof handed out for it
\* leads to the root that the block commits to, and that proof fits no withdrawal
\* that the block does not have; also in a block that starts with n other
\* withdrawals, so that rows of every parity occur.
WithdrawalsProvable ==
    pc = "idle" /\ receipts # <<>> =>
        \A n \in 0..4 :
            LET earlier == [i \in 1..n |->
                               [id |-> 0 - i, who |-> None, amount |-> 1]]
                keys == earlier \o WithdrawalKeys(receipts)
                others == {[k EXCEPT !.amount = @ + 1] : k \in Range(keys)}
            IN  /\ IsInjective(keys)
                /\ \A k \in Range(keys) :
                      /\ CalculatedRoot(k, Path(keys, k)) = Root(keys)
                      /\ \A o \in others \ Range(keys) :
                            CalculatedRoot(o, Path(keys, k)) # Root(keys)

=============================================================================
