-------------------------- MODULE BeaconStateProofs --------------------------
(***************************************************************************)
(* The chain of states.  The payloads that the chain builds on carry every *)
(* numbered withdrawal once, in order, and what was decided on a validator *)
(* stands, for every preset, every checkpoint state and every choice of    *)
(* offers, operations and votes.                                           *)
(*                                                                         *)
(* Only process_withdrawals numbers withdrawals, and only a payload that   *)
(* is built on delivers them.  The argument has three parts: every other   *)
(* handler leaves the numbering alone, and what was decided on a validator *)
(* (Safe), process_withdrawals numbers one after the other (Numbered), and *)
(* the phases of a block put the two together (Progress).  The folds over  *)
(* lists are inductions of FoldFacts.                                      *)
(***************************************************************************)
EXTENDS BeaconState, FiniteSetTheorems, Induction, TLAPS

-----------------------------------------------------------------------------
(***************************************************************************)
(* States that keep the withdrawals and the validators.                    *)
(***************************************************************************)
\* A list of any values.
IsSeq(q) == \E S : q \in Seq(S)

\* The fields that the handlers below read, or must leave alone.
Fields ==
  {"slot", "latest_block_header", "latest_block_hash", "latest_execution_payload_bid",
   "payload_expected_withdrawals", "next_withdrawal_index", "delivered", "validators", "builders",
   "pending_deposits", "pending_partial_withdrawals", "pending_consolidations",
   "builder_pending_withdrawals", "error"}

\* The fields of a validator that its life is made of.
Life == {"pubkey", "slashed", "activation_epoch", "exit_epoch", "withdrawable_epoch"}

\* Validators are numbered from 0 on.
Registry(v) ==
  /\ \E n \in Nat : DOMAIN v = 0 .. (n - 1)
  /\ \A i \in DOMAIN v : Life \subseteq DOMAIN v[i]

\* The registry w has every validator of v, with what was decided on it.
Kept(v, w) == Registry(w) /\ \A i \in DOMAIN v : i \in DOMAIN w /\ Stands(v[i], w[i])

\* The registries are finite and the queues are lists.
WellFormed(s) ==
  /\ Fields \subseteq DOMAIN s
  /\ Registry(s.validators) /\ IsFiniteSet(DOMAIN s.builders)
  /\ IsSeq(s.pending_deposits) /\ IsSeq(s.pending_partial_withdrawals)
  /\ IsSeq(s.pending_consolidations) /\ IsSeq(s.builder_pending_withdrawals)

\* The state t is well formed, has the withdrawals, and what decides on them, of s, and
\* keeps its validators.
Safe(s, t) ==
  /\ WellFormed(t)
  /\ Kept(s.validators, t.validators)
  /\ t.slot = s.slot
  /\ t.latest_block_header = s.latest_block_header
  /\ t.latest_block_hash = s.latest_block_hash
  /\ t.latest_execution_payload_bid = s.latest_execution_payload_bid
  /\ t.payload_expected_withdrawals = s.payload_expected_withdrawals
  /\ t.next_withdrawal_index = s.next_withdrawal_index
  /\ t.delivered = s.delivered

\* What stands after two changes.
LEMMA StandsTrans ==
  ASSUME NEW u, NEW v, NEW w, Stands(u, v), Stands(v, w) PROVE Stands(u, w)
BY Zenon DEF Stands

\* A registry keeps itself.
LEMMA KeptSame == ASSUME NEW v, Registry(v) PROVE Kept(v, v)
BY Zenon DEF Kept, Stands

\* What is kept by two changes.
LEMMA KeptTrans == ASSUME NEW u, NEW v, NEW w, Kept(u, v), Kept(v, w) PROVE Kept(u, w)
BY StandsTrans, Zenon DEF Kept

\* A state that nothing happened to.
LEMMA Unchanged == ASSUME NEW s, WellFormed(s) PROVE Safe(s, s)
BY KeptSame, Zenon DEF Safe, WellFormed

\* A change of the registry alone.
LEMMA RegistryChanged ==
  ASSUME NEW s, NEW t, Safe(s, t), NEW u, DOMAIN u = DOMAIN t,
         \A f \in Fields \ {"validators"} : u[f] = t[f],
         Kept(t.validators, u.validators)
  PROVE  Safe(s, u)
<1> Kept(s.validators, u.validators) /\ Registry(u.validators)
  BY KeptTrans, Zenon DEF Safe, Kept
<1> QED BY DEF Safe, WellFormed, Fields

\* A change of the validators, one by one.
LEMMA ValidatorsChanged ==
  ASSUME NEW s, NEW t, Safe(s, t), NEW u, DOMAIN u = DOMAIN t,
         \A f \in Fields \ {"validators"} : u[f] = t[f],
         DOMAIN u.validators = DOMAIN t.validators,
         \A j \in DOMAIN t.validators : Life \subseteq DOMAIN t.validators[j] =>
           /\ Life \subseteq DOMAIN u.validators[j]
           /\ Stands(t.validators[j], u.validators[j])
  PROVE  Safe(s, u)
<1> Kept(t.validators, u.validators)
  BY Zenon DEF Safe, WellFormed, Kept, Registry
<1> QED BY RegistryChanged, Zenon

-----------------------------------------------------------------------------
(***************************************************************************)
(* Lists and registries.                                                   *)
(***************************************************************************)
\* The positions of a list.
LEMMA SeqShape == ASSUME NEW q, IsSeq(q) PROVE Len(q) \in Nat /\ DOMAIN q = 1 .. Len(q)
BY DEF IsSeq

\* The literal lists, and the lists of the constants.
LEMMA SomeLists ==
  /\ IsSeq(<< >>) /\ Len(<< >>) = 0
  /\ \A x : IsSeq(<<x>>)
  /\ \A q : List(q) => IsSeq(q)
<1>1. << >> \in Seq({}) /\ Len(<< >>) = 0
  OBVIOUS
<1>2. \A x : <<x>> \in Seq({x})
  OBVIOUS
<1> QED BY Zenon, <1>1, <1>2 DEF IsSeq, List

\* A list that grows at its end.
LEMMA AppendSeq == ASSUME NEW q, NEW x, IsSeq(q) PROVE IsSeq(Append(q, x))
<1>1. PICK S : q \in Seq(S)
  BY DEF IsSeq
<1>2. q \in Seq(S \cup {x})
  BY <1>1
<1>3. Append(q, x) \in Seq(S \cup {x})
  BY <1>2
<1> QED BY <1>3 DEF IsSeq

\* What is left of a list whose front was taken, and what was postponed after it.
LEMMA DropSeq ==
  ASSUME NEW q, NEW n \in Nat, IsSeq(q)
  PROVE  IsSeq(Drop(q, n)) /\ \A r : IsSeq(r) => IsSeq(Drop(q, n) \o r)
<1>1. PICK S : q \in Seq(S)
  BY DEF IsSeq
<1>2. Drop(q, n) \in Seq(S)
  <2>1. \A i \in (n + 1) .. Len(q) : q[i] \in S
    BY <1>1
  <2> QED BY <1>1, <2>1 DEF Drop
<1> DEFINE d == Drop(q, n)
<1> HIDE DEF d
<1>3. ASSUME NEW r, IsSeq(r) PROVE IsSeq(d \o r)
  <2>1. PICK T : r \in Seq(T)
    BY <1>3 DEF IsSeq
  <2>2. d \in Seq(S \cup T) /\ r \in Seq(S \cup T)
    BY <1>2, <2>1 DEF d
  <2>3. d \o r \in Seq(S \cup T)
    BY <2>2
  <2> QED BY <2>3 DEF IsSeq
<1> QED BY <1>2, <1>3 DEF IsSeq, d

\* The validators are finitely many.
LEMMA RegistrySize ==
  ASSUME NEW v, Registry(v)
  PROVE  IsFiniteSet(DOMAIN v) /\ Size(v) \in Nat /\ DOMAIN v = 0 .. (Size(v) - 1)
<1> PICK n \in Nat : DOMAIN v = 0 .. (n - 1)
  BY Zenon DEF Registry
<1> IsFiniteSet(0 .. (n - 1)) /\ Cardinality(0 .. (n - 1)) = n
  BY FS_Interval
<1> QED BY DEF Size

\* A validator is let in.
LEMMA KeptPush ==
  ASSUME NEW v, Registry(v), NEW x, Life \subseteq DOMAIN x
  PROVE  Kept(v, Push(v, x))
<1> DEFINE n == Size(v)
           w == Push(v, x)
<1> n \in Nat /\ DOMAIN v = 0 .. (n - 1)
  BY RegistrySize
<1> DOMAIN w = 0 .. n /\ \A i \in 0 .. n : w[i] = IF i = n THEN x ELSE v[i]
  BY Zenon DEF Push
<1> HIDE DEF n, w
<1> n + 1 \in Nat /\ 0 .. n = 0 .. ((n + 1) - 1)
  OBVIOUS
<1> \A i \in DOMAIN v : i \in DOMAIN w /\ w[i] = v[i]
  OBVIOUS
<1> \A i \in DOMAIN w : i = n \/ i \in DOMAIN v
  OBVIOUS
<1> \A i \in DOMAIN w : Life \subseteq DOMAIN w[i]
  BY Zenon DEF Registry
<1> Kept(v, w)
  BY Zenon DEF Kept, Registry, Stands
<1> QED BY DEF w

\* A registry that grows by one.
LEMMA PushFinite ==
  ASSUME NEW f, NEW x, IsFiniteSet(DOMAIN f)
  PROVE  IsFiniteSet(DOMAIN Push(f, x))
<1>1. IsFiniteSet(0 .. Size(f))
  BY FS_CardinalityType, FS_Interval DEF Size
<1> QED BY <1>1 DEF Push

-----------------------------------------------------------------------------
(***************************************************************************)
(* The requests of a payload are Safe.                                     *)
(***************************************************************************)
\* The five lists of a payload's requests.
RequestLists(r) ==
  /\ IsSeq(r.deposits) /\ IsSeq(r.withdrawals) /\ IsSeq(r.consolidations)
  /\ IsSeq(r.builder_deposits) /\ IsSeq(r.builder_exits)

\* The six lists of a body's operations.
OperationLists(body) ==
  /\ IsSeq(body.proposer_slashings) /\ IsSeq(body.attester_slashings) /\ IsSeq(body.attestations)
  /\ IsSeq(body.voluntary_exits) /\ IsSeq(body.bls_to_execution_changes)
  /\ IsSeq(body.payload_attestations)

\* A refusal keeps the state and notes the error.
LEMMA RejectSafe == ASSUME NEW s, NEW t, NEW e, Safe(s, t) PROVE Safe(s, Reject(t, e))
BY DEF Safe, WellFormed, Fields, Reject

\* process_deposit_request appends to the pending deposits.
LEMMA DepositRequestSafe ==
  ASSUME NEW s, NEW t, NEW request, Safe(s, t)
  PROVE  Safe(s, process_deposit_request(t, request))
BY AppendSeq DEF process_deposit_request, Reject, Safe, WellFormed, Fields

\* The churn of the exit queue is consumed.
LEMMA ExitChurnSafe ==
  ASSUME NEW s, NEW t, NEW b, Safe(s, t)
  PROVE  Safe(s, compute_exit_epoch_and_update_churn(t, b))
BY DEF compute_exit_epoch_and_update_churn, Safe, WellFormed, Fields

\* An exit is scheduled for a validator that has none.
LEMMA ScheduleSafe ==
  ASSUME NEW s, NEW t, NEW i, NEW e, Safe(s, t), t.validators[i].exit_epoch = FAR_FUTURE_EPOCH
  PROVE  Safe(s, ScheduleExit(t, i, e))
<1> DEFINE u == ScheduleExit(t, i, e)
<1> Fields \subseteq DOMAIN t
  BY Zenon DEF Safe, WellFormed
<1> /\ DOMAIN u = DOMAIN t /\ DOMAIN u.validators = DOMAIN t.validators
    /\ \A f \in Fields \ {"validators"} : u[f] = t[f]
  BY Zenon DEF ScheduleExit, Fields
<1> \A j \in DOMAIN t.validators : Life \subseteq DOMAIN t.validators[j] =>
      /\ Life \subseteq DOMAIN u.validators[j]
      /\ Stands(t.validators[j], u.validators[j])
  BY DEF ScheduleExit, Fields, Life, Stands
<1> HIDE DEF u
<1> Safe(s, u)
  BY ValidatorsChanged, Zenon
<1> QED BY DEF u

\* initiate_validator_exit takes a place in the exit queue.
LEMMA ExitSafe ==
  ASSUME NEW s, NEW t, NEW index, Safe(s, t)
  PROVE  Safe(s, initiate_validator_exit(t, index))
<1> \A b : compute_exit_epoch_and_update_churn(t, b).validators = t.validators
  BY DEF compute_exit_epoch_and_update_churn, Safe, WellFormed, Fields
<1> QED BY ExitChurnSafe, ScheduleSafe, Zenon DEF initiate_validator_exit, AssignExit

\* process_withdrawal_request queues a partial withdrawal or an exit.
LEMMA WithdrawalRequestSafe ==
  ASSUME NEW s, NEW t, NEW request, Safe(s, t)
  PROVE  Safe(s, process_withdrawal_request(t, request))
<1> \A u, i, b : Safe(s, u) => Safe(s, QueuePartial(u, i, b))
  BY AppendSeq DEF QueuePartial, Safe, WellFormed, Fields
<1> \A i, b : Safe(s, PartialWithdrawal(t, i, b))
  BY ExitChurnSafe DEF PartialWithdrawal
<1> QED BY ExitSafe DEF process_withdrawal_request

\* process_consolidation_request switches credentials or queues a consolidation.
LEMMA ConsolidationRequestSafe ==
  ASSUME NEW s, NEW t, NEW request, Safe(s, t)
  PROVE  Safe(s, process_consolidation_request(t, request))
<1> ASSUME NEW u, Safe(s, u), NEW index PROVE Safe(s, queue_excess_active_balance(u, index))
  BY AppendSeq DEF queue_excess_active_balance, Reject, Safe, WellFormed, Fields
<1> ASSUME NEW index PROVE Safe(s, switch_to_compounding_validator(t, index))
  <2> DEFINE u == [t EXCEPT !.validators[index].withdrawal_credentials.prefix = "compounding"]
  <2> Safe(s, u)
    <3> Fields \subseteq DOMAIN t
      BY Zenon DEF Safe, WellFormed
    <3> /\ DOMAIN u = DOMAIN t /\ DOMAIN u.validators = DOMAIN t.validators
        /\ \A f \in Fields \ {"validators"} : u[f] = t[f]
      BY DEF Fields
    <3> \A j \in DOMAIN t.validators : Life \subseteq DOMAIN t.validators[j] =>
          /\ Life \subseteq DOMAIN u.validators[j]
          /\ Stands(t.validators[j], u.validators[j])
      BY DEF Fields, Life, Stands
    <3> HIDE DEF u
    <3> QED BY ValidatorsChanged, Zenon
  <2> switch_to_compounding_validator(t, index) = queue_excess_active_balance(u, index)
    BY DEF switch_to_compounding_validator
  <2> HIDE DEF u
  <2> QED OBVIOUS
<1> \A b : /\ Safe(s, compute_consolidation_epoch_and_update_churn(t, b))
           /\ compute_consolidation_epoch_and_update_churn(t, b).validators = t.validators
  BY DEF compute_consolidation_epoch_and_update_churn, Safe, WellFormed, Fields
<1> \A u, x : Safe(s, u) => Safe(s, [u EXCEPT !.pending_consolidations = Append(@, x)])
  BY AppendSeq DEF Safe, WellFormed, Fields
<1> \A u, i, j : Safe(s, u) /\ u.validators[i].exit_epoch = FAR_FUTURE_EPOCH
                   => Safe(s, QueueConsolidation(u, i, j))
  BY ScheduleSafe, Zenon DEF QueueConsolidation
<1> ConsolidationAllowed(t, request) =>
      t.validators[Min(validator_index(t, request.source_pubkey))].exit_epoch = FAR_FUTURE_EPOCH
  BY Zenon DEF ConsolidationAllowed, Staying
<1> QED BY Zenon DEF process_consolidation_request

\* process_builder_deposit_request tops a builder up or lets one in.
LEMMA BuilderDepositSafe ==
  ASSUME NEW s, NEW t, NEW request, Safe(s, t)
  PROVE  Safe(s, process_builder_deposit_request(t, request))
<1> DEFINE counted == [t EXCEPT !.received = @ + request.amount]
<1> Safe(s, counted)
  BY DEF Safe, WellFormed, Fields
<1> HIDE DEF counted
<1> \A i, b : Safe(s, TopUp(counted, i, b))
  BY DEF TopUp, Safe, WellFormed, Fields
<1> Safe(s, add_builder_to_registry(counted, request))
  <2> \A x : Safe(s, [counted EXCEPT !.builders = Push(@, x)])
    BY PushFinite DEF Safe, WellFormed, Fields
  <2> \A x, i : Safe(s, [counted EXCEPT !.builders[i] = x])
    BY DEF Safe, WellFormed, Fields
  <2> QED BY Zenon, RejectSafe DEF add_builder_to_registry
<1> QED BY DEF process_builder_deposit_request, counted

\* process_builder_exit_request schedules a builder's exit.
LEMMA BuilderExitSafe ==
  ASSUME NEW s, NEW t, NEW request, Safe(s, t)
  PROVE  Safe(s, process_builder_exit_request(t, request))
<1> \A i : Safe(s, initiate_builder_exit(t, i))
  BY DEF initiate_builder_exit, Safe, WellFormed, Fields
<1> QED BY DEF process_builder_exit_request

\* The payment of the parent's payload is queued and closed.
LEMMA ReleaseSafe ==
  ASSUME NEW s, NEW t, Safe(s, t)
  PROVE  Safe(s, release_parent_payment(t))
<1> \A w : Safe(s, queue_builder_pending_withdrawal(t, w))
  BY AppendSeq DEF queue_builder_pending_withdrawal, Reject, Safe, WellFormed, Fields
<1> ASSUME NEW i PROVE Safe(s, settle_builder_payment(t, i))
  <2> DEFINE u == IF t.builder_pending_payments[i].amount > 0
                  THEN queue_builder_pending_withdrawal(t, Owing(t.builder_pending_payments[i]))
                  ELSE t
  <2> Safe(s, u)
    OBVIOUS
  <2> settle_builder_payment(t, i) = [u EXCEPT !.builder_pending_payments[i] = NoPayment]
    BY DEF settle_builder_payment
  <2> HIDE DEF u
  <2> QED BY DEF Safe, WellFormed, Fields
<1> QED BY DEF release_parent_payment

\* The availability bit of a slot is set or cleared.
LEMMA AvailabilitySafe ==
  ASSUME NEW s, NEW t, NEW slot, NEW bit, Safe(s, t)
  PROVE  Safe(s, SetAvailability(t, slot, bit))
BY DEF SetAvailability, Safe, WellFormed, Fields

-----------------------------------------------------------------------------
(***************************************************************************)
(* The operations of a body are Safe.                                      *)
(***************************************************************************)
LOCAL Indices == INSTANCE FoldFacts WITH
  Op <- LAMBDA p, e, list, n : IF n - 1 \in p THEN Append(list, n - 1) ELSE list,
  Inv <- LAMBDA p, e, k, list : IsSeq(list)

\* The indices of a set are listed.
LEMMA InOrderSeq == ASSUME NEW s, NEW t, NEW set, Safe(s, t) PROVE IsSeq(InOrder(t, set))
<1> DEFINE q == [n \in 1 .. Size(t.validators) |-> n]
<1> InOrder(t, set) = Indices!Fold(set, set, << >>, q)
  BY Zenon DEF InOrder, Indices!Fold, FoldLeft, MapThenFoldSet, Max, Indices!LastOf
<1> Size(t.validators) \in Nat /\ DOMAIN q = 1 .. Size(t.validators)
  BY RegistrySize DEF WellFormed, Safe
<1> HIDE DEF q
<1> IsSeq(Indices!Fold(set, set, << >>, q))
  BY SomeLists, AppendSeq, LeastNatural, Indices!FoldInvariant
<1> QED OBVIOUS

\* A balance goes up or down.
LEMMA BalanceSafe ==
  ASSUME NEW s, NEW t, NEW index, NEW delta, Safe(s, t)
  PROVE  Safe(s, increase_balance(t, index, delta)) /\ Safe(s, decrease_balance(t, index, delta))
BY DEF increase_balance, decrease_balance, Safe, WellFormed, Fields

\* slash_validator makes a validator exit, punishes it and rewards the proposer; it is
\* called for validators that are not slashed yet.
LEMMA SlashSafe ==
  ASSUME NEW s, NEW t, NEW index, Safe(s, t),
         index \in DOMAIN t.validators => ~t.validators[index].slashed
  PROVE  Safe(s, slash_validator(t, index))
<1> ASSUME NEW r, Safe(s, r), NEW b,
           index \in DOMAIN r.validators => ~r.validators[index].slashed
    PROVE  Safe(s, Punish(r, index, b))
  <2> DEFINE u == [r EXCEPT
       !.validators[index].slashed = TRUE,
       !.validators[index].withdrawable_epoch =
          AtLeast(@, get_current_epoch(r) + EPOCHS_PER_SLASHINGS_VECTOR),
       !.slashings[get_current_epoch(r) % EPOCHS_PER_SLASHINGS_VECTOR] = @ + b]
  <2> Safe(s, u)
    <3> Fields \subseteq DOMAIN r
      BY Zenon DEF Safe, WellFormed
    <3> /\ DOMAIN u = DOMAIN r /\ DOMAIN u.validators = DOMAIN r.validators
        /\ \A f \in Fields \ {"validators"} : u[f] = r[f]
      BY Zenon DEF Fields
    <3> \A j \in DOMAIN r.validators : Life \subseteq DOMAIN r.validators[j] =>
          /\ Life \subseteq DOMAIN u.validators[j]
          /\ Stands(r.validators[j], u.validators[j])
      BY DEF Fields, Life, Stands, AtLeast
    <3> HIDE DEF u
    <3> QED BY ValidatorsChanged, Zenon
  <2> Punish(r, index, b) = decrease_balance(u, index, b \div MIN_SLASHING_PENALTY_QUOTIENT)
    BY DEF Punish
  <2> HIDE DEF u
  <2> QED BY BalanceSafe
<1> DEFINE x == initiate_validator_exit(t, index)
<1> index \in DOMAIN x.validators => ~x.validators[index].slashed
  <2> Fields \subseteq DOMAIN t /\ Registry(t.validators)
    BY Zenon DEF Safe, WellFormed
  <2> index \in DOMAIN t.validators => Life \subseteq DOMAIN t.validators[index]
    BY Zenon DEF Registry
  <2> ASSUME NEW b
      PROVE  LET u == compute_exit_epoch_and_update_churn(t, b)
             IN  u.validators = t.validators /\ DOMAIN u = DOMAIN t
    BY DEF compute_exit_epoch_and_update_churn, Fields
  <2> ASSUME NEW u, u.validators = t.validators, DOMAIN u = DOMAIN t, NEW e,
             index \in DOMAIN ScheduleExit(u, index, e).validators
      PROVE  ~ScheduleExit(u, index, e).validators[index].slashed
    BY DEF ScheduleExit, Fields, Life
  <2> QED BY Zenon DEF initiate_validator_exit, AssignExit
<1> HIDE DEF x
<1> Safe(s, x)
  BY ExitSafe DEF x
<1> QED BY BalanceSafe DEF slash_validator, x

\* process_proposer_slashing also clears the payment of the proposer's bid.
LEMMA ProposerSlashingSafe ==
  ASSUME NEW s, NEW t, NEW slashing, Safe(s, t)
  PROVE  Safe(s, process_proposer_slashing(t, slashing))
<1> \A slot, i : /\ Safe(s, ClearPayment(t, slot, i))
                 /\ ClearPayment(t, slot, i).validators = t.validators
  BY DEF ClearPayment, Safe, WellFormed, Fields
<1> QED BY SlashSafe, RejectSafe, Zenon DEF process_proposer_slashing, is_slashable_validator

LOCAL Slashed == INSTANCE FoldFacts WITH
  Op <- LAMBDA p, e, st, x : SlashIfSlashable(st, x),
  Inv <- LAMBDA p, e, k, st : Safe(p, st)

\* process_attester_slashing slashes the validators of a set.
LEMMA AttesterSlashingSafe ==
  ASSUME NEW s, NEW t, NEW slashing, Safe(s, t)
  PROVE  Safe(s, process_attester_slashing(t, slashing))
<1> ASSUME NEW q, IsSeq(q) PROVE Safe(s, FoldLeft(SlashIfSlashable, t, q))
  <2> FoldLeft(SlashIfSlashable, t, q) = Slashed!Fold(s, s, t, q)
    BY Zenon DEF Slashed!Fold, FoldLeft, MapThenFoldSet, Max, Slashed!LastOf
  <2> \A x, u : Safe(s, u) => Safe(s, SlashIfSlashable(u, x))
    BY ZenonT(30), SlashSafe DEF SlashIfSlashable, is_slashable_validator
  <2> Safe(s, Slashed!Fold(s, s, t, q))
    BY ZenonT(30), SeqShape, LeastNatural, Slashed!FoldInvariant
  <2> QED OBVIOUS
<1> \A set : Safe(s, FoldLeft(SlashIfSlashable, t, InOrder(t, set)))
  BY InOrderSeq
<1> QED BY RejectSafe DEF process_attester_slashing

\* process_attestation records participation and rewards the proposer.
LEMMA AttestationSafe ==
  ASSUME NEW s, NEW t, NEW attestation, Safe(s, t)
  PROVE  Safe(s, process_attestation(t, attestation))
<1> \A data, attesters, flags : Safe(s, record_attestation_participation(t, data, attesters, flags))
  BY DEF record_attestation_participation, Safe, WellFormed, Fields
<1> \A u, b : Safe(s, u) => Safe(s, reward_attestation_proposer(u, b))
  BY BalanceSafe DEF reward_attestation_proposer
<1> QED BY RejectSafe DEF process_attestation

\* process_bls_to_execution_change replaces the credentials of a validator.
LEMMA CredentialChangeSafe ==
  ASSUME NEW s, NEW t, NEW change, Safe(s, t)
  PROVE  Safe(s, process_bls_to_execution_change(t, change))
<1> ASSUME NEW i, NEW c PROVE Safe(s, [t EXCEPT !.validators[i].withdrawal_credentials = c])
  <2> DEFINE u == [t EXCEPT !.validators[i].withdrawal_credentials = c]
  <2> Fields \subseteq DOMAIN t
    BY Zenon DEF Safe, WellFormed
  <2> /\ DOMAIN u = DOMAIN t /\ DOMAIN u.validators = DOMAIN t.validators
      /\ \A f \in Fields \ {"validators"} : u[f] = t[f]
    BY DEF Fields
  <2> \A j \in DOMAIN t.validators : Life \subseteq DOMAIN t.validators[j] =>
        /\ Life \subseteq DOMAIN u.validators[j]
        /\ Stands(t.validators[j], u.validators[j])
    BY DEF Fields, Life, Stands
  <2> HIDE DEF u
  <2> Safe(s, u)
    BY ValidatorsChanged, Zenon
  <2> QED BY DEF u
<1> QED BY RejectSafe DEF process_bls_to_execution_change

\* The kinds of operations and requests.
Kinds ==
  {"proposer_slashing", "attester_slashing", "attestation", "voluntary_exit",
   "bls_to_execution_change", "payload_attestation", "deposit_request", "withdrawal_request",
   "consolidation_request", "builder_deposit_request", "builder_exit_request"}

LOCAL OneByOne == INSTANCE FoldFacts WITH
  Op <- LAMBDA p, e, st, x : IF st.error = "none" THEN ProcessOne(e, st, x) ELSE st,
  Inv <- LAMBDA p, e, k, st : Safe(p, st)

\* A list of operations or requests of one kind.
LEMMA EachSafe ==
  ASSUME NEW s, NEW t, NEW kind \in Kinds, NEW q, Safe(s, t), IsSeq(q)
  PROVE  Safe(s, Each(t, kind, q))
<1> Each(t, kind, q) = OneByOne!Fold(s, kind, t, q)
  BY Zenon DEF Each, OneByOne!Fold, FoldLeft, MapThenFoldSet, Max, OneByOne!LastOf
<1> ASSUME NEW u, NEW x, Safe(s, u) PROVE Safe(s, ProcessOne(kind, u, x))
  <2> Safe(s, process_voluntary_exit(u, x)) /\ Safe(s, process_payload_attestation(u, x))
    BY Zenon, ExitSafe, RejectSafe DEF process_voluntary_exit, process_payload_attestation
  <2> QED BY ProposerSlashingSafe, AttesterSlashingSafe, AttestationSafe,
             CredentialChangeSafe, DepositRequestSafe, WithdrawalRequestSafe,
             ConsolidationRequestSafe, BuilderDepositSafe, BuilderExitSafe DEF ProcessOne, Kinds
<1> Safe(s, OneByOne!Fold(s, kind, t, q))
  BY SeqShape, LeastNatural, OneByOne!FoldInvariant
<1> QED OBVIOUS

\* The requests of the parent's payload.
LEMMA RequestsSafe ==
  ASSUME NEW s, NEW t, NEW r, Safe(s, t), RequestLists(r)
  PROVE  Safe(s, ApplyRequests(t, r))
BY Zenon, EachSafe DEF ApplyRequests, RequestLists, Kinds

\* The operations of a body.
LEMMA OperationsSafe ==
  ASSUME NEW s, NEW t, NEW body, Safe(s, t), OperationLists(body)
  PROVE  Safe(s, process_operations(t, body))
BY Zenon, EachSafe, RejectSafe DEF process_operations, OperationLists, Kinds

LOCAL SyncShares == INSTANCE FoldFacts WITH
  Op <- LAMBDA p, e, st, k : RewardParticipant(st, p.current_sync_committee[k], k \in e,
                                               sync_aggregate_rewards(p)),
  Inv <- LAMBDA p, e, k, st : Safe(p, st)

\* process_sync_aggregate moves balances.
LEMMA SyncAggregateSafe ==
  ASSUME NEW s, NEW bits, WellFormed(s)
  PROVE  Safe(s, process_sync_aggregate(s, bits))
<1> DEFINE q == [k \in 1..SYNC_COMMITTEE_SIZE |-> k]
<1> process_sync_aggregate(s, bits) = SyncShares!Fold(s, bits, s, q)
  BY Zenon DEF process_sync_aggregate, SyncShares!Fold, FoldLeft, MapThenFoldSet, Max,
               SyncShares!LastOf
<1> \A t, k, signed, r : Safe(s, t) => Safe(s, RewardParticipant(t, k, signed, r))
  BY BalanceSafe DEF RewardParticipant
<1> SYNC_COMMITTEE_SIZE \in Nat /\ DOMAIN q = 1..SYNC_COMMITTEE_SIZE
  BY PresetAssumption
<1> HIDE DEF q
<1> Safe(s, SyncShares!Fold(s, bits, s, q))
  BY Unchanged, LeastNatural, SyncShares!FoldInvariant
<1> QED OBVIOUS

\* process_randao and process_eth1_data.
LEMMA RandaoEth1Safe ==
  ASSUME NEW s, NEW vote, WellFormed(s)
  PROVE  Safe(s, process_randao(s)) /\ Safe(s, process_eth1_data(s, vote))
<1> Safe(s, s)
  BY Unchanged
<1> Safe(s, process_randao(s))
  BY DEF process_randao, Safe, WellFormed, Fields
<1> DEFINE u(x, y) == [s EXCEPT !.eth1_data_votes = x, !.eth1_data = y]
<1> \/ \E x, y : process_eth1_data(s, vote) = u(x, y)
    \/ \E x : process_eth1_data(s, vote) = Reject(s, x)
  BY Zenon DEF process_eth1_data
<1> \A x, y : Safe(s, u(x, y))
  BY Zenon DEF Safe, WellFormed, Fields
<1> HIDE DEF u
<1> QED BY RejectSafe, Unchanged

-----------------------------------------------------------------------------
(***************************************************************************)
(* The epoch boundary is Safe.                                             *)
(***************************************************************************)
LOCAL Ejected == INSTANCE FoldFacts WITH
  Op <- LAMBDA p, e, st, x : initiate_validator_exit(st, x),
  Inv <- LAMBDA p, e, k, st : Safe(p, st)

\* process_registry_updates marks, ejects and activates validators.
LEMMA RegistrySafe ==
  ASSUME NEW s, NEW t, Safe(s, t)
  PROVE  Safe(s, process_registry_updates(t))
<1> ASSUME NEW u, Safe(s, u) PROVE Safe(s, MarkEligible(u)) /\ Safe(s, ActivateEligible(u))
  <2> DEFINE m == MarkEligible(u)
             a == ActivateEligible(u)
  <2> Fields \subseteq DOMAIN u
    BY Zenon DEF Safe, WellFormed
  <2> /\ DOMAIN m = DOMAIN u /\ DOMAIN m.validators = DOMAIN u.validators
      /\ \A f \in Fields \ {"validators"} : m[f] = u[f]
    BY DEF MarkEligible, Fields
  <2> /\ DOMAIN a = DOMAIN u /\ DOMAIN a.validators = DOMAIN u.validators
      /\ \A f \in Fields \ {"validators"} : a[f] = u[f]
    BY DEF ActivateEligible, Fields
  <2> \A j \in DOMAIN u.validators : Life \subseteq DOMAIN u.validators[j] =>
        /\ Life \subseteq DOMAIN m.validators[j]
        /\ Stands(u.validators[j], m.validators[j])
    BY DEF MarkEligible, Fields, Life, Stands
  <2> \A j \in DOMAIN u.validators : Life \subseteq DOMAIN u.validators[j] =>
        /\ Life \subseteq DOMAIN a.validators[j]
        /\ Stands(u.validators[j], a.validators[j])
    BY DEF ActivateEligible, Fields, Life, Stands
  <2> HIDE DEF m, a
  <2> Safe(s, m) /\ Safe(s, a)
    BY ValidatorsChanged, Zenon
  <2> QED BY DEF m, a
<1> ASSUME NEW u, NEW q, Safe(s, u), IsSeq(q)
    PROVE  Safe(s, FoldLeft(initiate_validator_exit, u, q))
  <2> FoldLeft(initiate_validator_exit, u, q) = Ejected!Fold(s, s, u, q)
    BY Zenon DEF Ejected!Fold, FoldLeft, MapThenFoldSet, Max, Ejected!LastOf
  <2> Safe(s, Ejected!Fold(s, s, u, q))
    BY ExitSafe, SeqShape, LeastNatural, Ejected!FoldInvariant
  <2> QED OBVIOUS
<1> \A u : Safe(s, u) => Safe(s, EjectUnderbalanced(u))
  BY ZenonT(30), InOrderSeq DEF EjectUnderbalanced
<1> QED BY DEF process_registry_updates

\* The first half of the boundary: finality, rewards, the registry and slashings.
LEMMA AccountingSafe ==
  ASSUME NEW s, NEW t, Safe(s, t)
  PROVE  Safe(s, EpochAccounting(t))
<1> \A u : Safe(s, u) => Safe(s, process_justification_and_finalization(u))
  BY DEF process_justification_and_finalization, Safe, WellFormed, Fields
<1> \A u : Safe(s, u) => Safe(s, process_inactivity_updates(u))
  BY DEF process_inactivity_updates, Safe, WellFormed, Fields
<1> \A u, x : Safe(s, u) => Safe(s, [u EXCEPT !.balances = x])
  BY DEF Safe, WellFormed, Fields
<1> \A u : Safe(s, u) => Safe(s, process_rewards_and_penalties(u)) /\ Safe(s, process_slashings(u))
  BY Zenon DEF process_rewards_and_penalties, process_slashings
<1> QED BY RegistrySafe DEF EpochAccounting

\* A pending deposit tops a validator up, lets one in or is dropped.
LEMMA PendingDepositSafe ==
  ASSUME NEW s, NEW t, NEW deposit, Safe(s, t)
  PROVE  Safe(s, apply_pending_deposit(t, deposit))
<1> \A x : Safe(s, [t EXCEPT !.received = x])
  BY DEF Safe, WellFormed, Fields
<1> ASSUME NEW k, NEW c, NEW b PROVE Safe(s, add_validator_to_registry(t, k, c, b))
  <2> DEFINE u(v, w, x, y, z) ==
         [t EXCEPT !.validators = v, !.balances = w, !.previous_epoch_participation = x,
                   !.current_epoch_participation = y, !.inactivity_scores = z]
  <2> ASSUME NEW v, NEW w, NEW x, NEW y, NEW z, Kept(t.validators, v)
      PROVE  Safe(s, u(v, w, x, y, z))
    <3> Fields \subseteq DOMAIN t
      BY Zenon DEF Safe, WellFormed
    <3> /\ DOMAIN u(v, w, x, y, z) = DOMAIN t /\ u(v, w, x, y, z).validators = v
        /\ \A f \in Fields \ {"validators"} : u(v, w, x, y, z)[f] = t[f]
      BY Zenon DEF Fields
    <3> HIDE DEF u
    <3> QED BY RegistryChanged, Zenon
  <2> DEFINE new == [pubkey |-> k, withdrawal_credentials |-> c,
                     effective_balance |->
                       AtMost(RoundDown(b), IF c.prefix = "compounding" THEN MAX_EFFECTIVE_BALANCE
                                            ELSE MIN_ACTIVATION_BALANCE),
                     slashed |-> FALSE, activation_eligibility_epoch |-> FAR_FUTURE_EPOCH,
                     activation_epoch |-> FAR_FUTURE_EPOCH, exit_epoch |-> FAR_FUTURE_EPOCH,
                     withdrawable_epoch |-> FAR_FUTURE_EPOCH]
  <2> Life \subseteq DOMAIN new /\ Registry(t.validators)
    BY DEF Life, Safe, WellFormed
  <2> \/ \E x : add_validator_to_registry(t, k, c, b) = Reject(t, x)
      \/ \E w, x, y, z : add_validator_to_registry(t, k, c, b)
                           = u(Push(t.validators, new), w, x, y, z)
    BY Zenon DEF add_validator_to_registry
  <2> HIDE DEF u, new
  <2> Kept(t.validators, Push(t.validators, new))
    BY KeptPush, Zenon
  <2> QED BY RejectSafe
<1> QED BY BalanceSafe DEF apply_pending_deposit

\* The walk over the pending deposits keeps the state safe and counts what it passed.
DepositWalk(s, walk) ==
  /\ {"s", "count", "postponed", "processed", "stopped"} \subseteq DOMAIN walk
  /\ Safe(s, walk.s) /\ walk.count \in Nat /\ IsSeq(walk.postponed)

LOCAL DepositsTaken == INSTANCE FoldFacts WITH
  Op <- LAMBDA p, e, walk, deposit : ConsumeDeposit(walk, deposit, e),
  Inv <- LAMBDA p, e, k, walk : DepositWalk(p, walk)

\* One step of the walk.
LEMMA ConsumeDepositWalk ==
  ASSUME NEW s, NEW walk, NEW deposit, NEW available, DepositWalk(s, walk)
  PROVE  DepositWalk(s, ConsumeDeposit(walk, deposit, available))
<1> Safe(s, apply_pending_deposit(walk.s, deposit)) /\ IsSeq(Append(walk.postponed, deposit))
  BY PendingDepositSafe, AppendSeq DEF DepositWalk
<1> \A x : DepositWalk(s, [walk EXCEPT !.stopped = x])
  BY DEF DepositWalk
<1> DepositWalk(s, [walk EXCEPT !.s = apply_pending_deposit(walk.s, deposit), !.count = @ + 1])
  BY DEF DepositWalk
<1> DepositWalk(s, [walk EXCEPT !.postponed = Append(@, deposit), !.count = @ + 1])
  BY DEF DepositWalk
<1> \A x : DepositWalk(s, [walk EXCEPT !.s = apply_pending_deposit(walk.s, deposit),
                                       !.count = @ + 1, !.processed = x])
  BY DEF DepositWalk
<1> QED BY Zenon DEF ConsumeDeposit

\* process_pending_deposits takes the front of the queue and postpones some of it.
LEMMA PendingDepositsSafe ==
  ASSUME NEW s, NEW t, Safe(s, t)
  PROVE  Safe(s, process_pending_deposits(t))
<1> DEFINE available == t.deposit_balance_to_consume + get_activation_churn_limit(t)
           start == [s |-> t, count |-> 0, postponed |-> << >>, processed |-> 0, stopped |-> "no"]
           q == t.pending_deposits
           walk == DepositsTaken!Fold(s, available, start, q)
           u == walk.s
           r == Drop(u.pending_deposits, walk.count) \o walk.postponed
           next(y) == [u EXCEPT !.pending_deposits = r, !.deposit_balance_to_consume = y]
<1> process_pending_deposits(t) = FinishDeposits(walk, available)
  BY Zenon DEF process_pending_deposits, DepositsTaken!Fold, FoldLeft, MapThenFoldSet, Max,
               DepositsTaken!LastOf
<1> DepositWalk(s, start) /\ IsSeq(q)
  BY ZenonT(30), SomeLists DEF DepositWalk, Safe, WellFormed
<1> DepositWalk(s, walk)
  <2> HIDE DEF start, q, available
  <2> QED BY SeqShape, ConsumeDepositWalk, LeastNatural, DepositsTaken!FoldInvariant
<1> HIDE DEF walk, available
<1> (\E y : FinishDeposits(walk, available) = next(y))
      \/ \E x : FinishDeposits(walk, available) = Reject(u, x)
  BY Zenon DEF FinishDeposits
<1> Safe(s, u) /\ IsSeq(r)
  BY Zenon, DropSeq DEF DepositWalk, Safe, WellFormed
<1> HIDE DEF r, u
<1> \A y : Safe(s, next(y))
  BY Zenon DEF Safe, WellFormed, Fields
<1> HIDE DEF next
<1> QED BY RejectSafe

\* The walk over the pending consolidations.
ConsolidationWalk(s, walk) ==
  /\ {"s", "count", "stopped"} \subseteq DOMAIN walk
  /\ Safe(s, walk.s) /\ walk.count \in Nat

LOCAL ConsolidationsTaken == INSTANCE FoldFacts WITH
  Op <- LAMBDA p, e, walk, entry : Consolidate(walk, entry),
  Inv <- LAMBDA p, e, k, walk : ConsolidationWalk(p, walk)

\* process_pending_consolidations takes the front of the queue.
LEMMA PendingConsolidationsSafe ==
  ASSUME NEW s, NEW t, Safe(s, t)
  PROVE  Safe(s, process_pending_consolidations(t))
<1> DEFINE start == [s |-> t, count |-> 0, stopped |-> FALSE]
           q == t.pending_consolidations
           walk == ConsolidationsTaken!Fold(s, s, start, q)
           u == walk.s
           r == Drop(u.pending_consolidations, walk.count)
<1> process_pending_consolidations(t) = [u EXCEPT !.pending_consolidations = r]
  BY Zenon DEF process_pending_consolidations, ConsolidationsTaken!Fold, FoldLeft, MapThenFoldSet,
               Max, ConsolidationsTaken!LastOf
<1> ConsolidationWalk(s, start) /\ IsSeq(q)
  BY DEF ConsolidationWalk, Safe, WellFormed
<1> ASSUME NEW w, NEW entry, ConsolidationWalk(s, w)
    PROVE  ConsolidationWalk(s, Consolidate(w, entry))
  <2> \A i, j, b : Safe(s, MoveBalance(w.s, i, j, b))
    BY BalanceSafe DEF ConsolidationWalk, MoveBalance
  <2> \A i, j, b : ConsolidationWalk(s, [w EXCEPT !.count = @ + 1, !.s = MoveBalance(w.s, i, j, b)])
    BY DEF ConsolidationWalk
  <2> ConsolidationWalk(s, [w EXCEPT !.count = @ + 1]) /\ ConsolidationWalk(s, [w EXCEPT !.stopped = TRUE])
    BY DEF ConsolidationWalk
  <2> QED BY Zenon DEF Consolidate
<1> ConsolidationWalk(s, walk)
  <2> HIDE DEF start, q
  <2> QED BY ZenonT(30), SeqShape, LeastNatural, ConsolidationsTaken!FoldInvariant
<1> HIDE DEF walk
<1> Safe(s, u) /\ IsSeq(r)
  BY DropSeq DEF ConsolidationWalk, Safe, WellFormed
<1> HIDE DEF r, u
<1> QED BY DEF Safe, WellFormed, Fields

\* The queue as the payments of the front half are passed, for a state p and a quorum e.
LOCAL Settling == INSTANCE FoldFacts WITH
  Op <- LAMBDA p, e, queue, n : IF p.builder_pending_payments[n - 1].weight >= e
                                THEN Append(queue, Owing(p.builder_pending_payments[n - 1]))
                                ELSE queue,
  Inv <- LAMBDA p, e, k, queue : IsSeq(queue)

\* The payment window is settled and shifted.
LEMMA SettlePaymentsSafe ==
  ASSUME NEW s, NEW t, Safe(s, t)
  PROVE  Safe(s, SettlePayments(t))
<1> DEFINE quorum == builder_payment_quorum_threshold(t)
           q == [n \in 1..SLOTS_PER_EPOCH |-> n]
           base == t.builder_pending_withdrawals
           r == QueueWithReached(t, quorum)
           u(y) == [t EXCEPT !.builder_pending_withdrawals = r, !.paid = y]
<1> SettlePayments(t) = advance_builder_payment_window(settle_builder_payment_window(t, quorum))
  BY DEF SettlePayments, process_builder_pending_payments
<1> HIDE DEF quorum
<1> r = Settling!Fold(t, quorum, base, q)
  BY Zenon DEF QueueWithReached, Settling!Fold, FoldLeft, MapThenFoldSet, Max, Settling!LastOf
<1> SLOTS_PER_EPOCH \in Nat /\ DOMAIN q = 1..SLOTS_PER_EPOCH /\ IsSeq(base)
  BY ZenonT(30), WindowAssumption DEF Safe, WellFormed
<1> IsSeq(Settling!Fold(t, quorum, base, q))
  <2> HIDE DEF q, base
  <2> QED BY AppendSeq, LeastNatural, Settling!FoldInvariant
<1> \/ \E x : settle_builder_payment_window(t, quorum) = Reject(t, x)
    \/ \E y : settle_builder_payment_window(t, quorum) = u(y)
  BY Zenon DEF settle_builder_payment_window
<1> HIDE DEF r
<1> \A y : Safe(s, u(y))
  BY ZenonT(30) DEF Safe, WellFormed, Fields
<1> HIDE DEF u
<1> \A v : Safe(s, v) => Safe(s, advance_builder_payment_window(v))
  BY DEF advance_builder_payment_window, Safe, WellFormed, Fields
<1> QED BY RejectSafe

\* The second part of the boundary: the queues.
LEMMA QueuesSafe ==
  ASSUME NEW s, NEW t, Safe(s, t)
  PROVE  Safe(s, EpochQueues(t))
<1> \A u : Safe(s, u) => Safe(s, process_eth1_data_reset(u))
  BY DEF process_eth1_data_reset, Safe, WellFormed, Fields
<1> ASSUME NEW u, Safe(s, u) PROVE Safe(s, process_effective_balance_updates(u))
  <2> DEFINE m == process_effective_balance_updates(u)
  <2> Fields \subseteq DOMAIN u
    BY Zenon DEF Safe, WellFormed
  <2> /\ DOMAIN m = DOMAIN u /\ DOMAIN m.validators = DOMAIN u.validators
      /\ \A f \in Fields \ {"validators"} : m[f] = u[f]
    BY DEF process_effective_balance_updates, Fields
  <2> \A j \in DOMAIN u.validators : Life \subseteq DOMAIN u.validators[j] =>
        /\ Life \subseteq DOMAIN m.validators[j]
        /\ Stands(u.validators[j], m.validators[j])
    BY DEF process_effective_balance_updates, Fields, Life, Stands
  <2> HIDE DEF m
  <2> Safe(s, m)
    BY ValidatorsChanged, Zenon
  <2> QED BY DEF m
<1> QED BY PendingDepositsSafe, PendingConsolidationsSafe, SettlePaymentsSafe
        DEF EpochQueues

\* The last part of the boundary: the windows over epochs.
LEMMA WindowsSafe ==
  ASSUME NEW s, NEW t, Safe(s, t)
  PROVE  Safe(s, EpochWindows(t))
<1> \A u : Safe(s, u) => Safe(s, process_slashings_reset(u)) /\ Safe(s, process_randao_mixes_reset(u))
  BY DEF process_slashings_reset, process_randao_mixes_reset, Safe, WellFormed, Fields
<1> \A u : Safe(s, u) => /\ Safe(s, process_historical_summaries_update(u))
                         /\ Safe(s, process_participation_flag_updates(u))
  BY DEF process_historical_summaries_update, process_participation_flag_updates,
         Safe, WellFormed, Fields
<1> \A u : Safe(s, u) => Safe(s, process_sync_committee_updates(u))
  <2> \A u, x, y : Safe(s, u) =>
        Safe(s, [u EXCEPT !.current_sync_committee = x, !.next_sync_committee = y])
    BY DEF Safe, WellFormed, Fields
  <2> QED BY ZenonT(30) DEF process_sync_committee_updates
<1> ASSUME NEW u, Safe(s, u)
    PROVE  Safe(s, process_proposer_lookahead(u)) /\ Safe(s, process_ptc_window(u))
  <2> DEFINE a(x) == [u EXCEPT !.proposer_lookahead = x]
             b(x) == [u EXCEPT !.ptc_window = x]
  <2> \A x : Safe(s, a(x)) /\ Safe(s, b(x))
    BY DEF Safe, WellFormed, Fields
  <2> \/ \E x : process_proposer_lookahead(u) = Reject(u, x)
      \/ \E x : process_proposer_lookahead(u) = a(x)
    BY Zenon DEF process_proposer_lookahead
  <2> \/ \E x : process_ptc_window(u) = Reject(u, x)
      \/ \E x : process_ptc_window(u) = b(x)
    BY Zenon DEF process_ptc_window
  <2> HIDE DEF a, b
  <2> QED BY RejectSafe
<1> QED BY DEF EpochWindows

-----------------------------------------------------------------------------
(***************************************************************************)
(* The withdrawals that a state expects are numbered one after the other.  *)
(***************************************************************************)
\* A list of withdrawals numbered from `first` on.
Numbered(list, first) ==
  IsSeq(list) /\ \A k \in DOMAIN list : list[k].index = first + k - 1

\* The next withdrawal takes the next number.
LEMMA AppendNumbered ==
  ASSUME NEW first \in Int, NEW list, Numbered(list, first), NEW w, w.index = first + Len(list)
  PROVE  Numbered(Append(list, w), first)
<1> PICK S : list \in Seq(S)
  BY DEF Numbered, IsSeq
<1> list \in Seq(S \cup {w}) /\ w \in S \cup {w}
  OBVIOUS
<1> \A k \in DOMAIN Append(list, w) : Append(list, w)[k].index = first + k - 1
  BY DEF Numbered
<1> QED BY AppendSeq DEF Numbered

\* The list and the count of a walk, numbered from the next index of p.
Walked(p, acc) ==
  /\ {"list", "count"} \subseteq DOMAIN acc
  /\ Numbered(acc.list, p.next_withdrawal_index) /\ acc.count \in Nat

\* The builders' queue comes first.
LEMMA BuilderWithdrawalsNumbered ==
  ASSUME NEW s, WellFormed(s), s.next_withdrawal_index \in Int
  PROVE  Walked(s, get_builder_withdrawals(s, << >>))
<1> DEFINE acc == get_builder_withdrawals(s, << >>)
           taken(k) == WithdrawalOf(NextIndex(s, << >>) + k - 1, "builder",
                         s.builder_pending_withdrawals[k].builder_index,
                         s.builder_pending_withdrawals[k].amount, "fee_recipient")
           list == [k \in 1 .. acc.count |-> taken(k)]
           S == {taken(k) : k \in 1 .. acc.count}
<1> acc.count \in Nat
  BY SeqShape, SomeLists, PresetAssumption DEF WellFormed, get_builder_withdrawals, AtMost, saturating_sub
<1> acc.list = << >> \o list /\ {"list", "count"} \subseteq DOMAIN acc
  BY DEF get_builder_withdrawals
<1> \A k : taken(k).index = s.next_withdrawal_index + k - 1
  BY SomeLists DEF NextIndex, WithdrawalOf
<1> HIDE DEF taken, acc
<1> list \in Seq(S)
  <2> HIDE DEF S
  <2> \A k \in 1 .. acc.count : taken(k) \in S
    BY DEF S
  <2> QED OBVIOUS
<1> << >> \o list = list
  OBVIOUS
<1> Numbered(list, s.next_withdrawal_index)
  BY Zenon DEF Numbered, IsSeq
<1> QED BY Zenon DEF Walked, acc

LOCAL Partials == INSTANCE FoldFacts WITH
  Op <- LAMBDA p, e, acc, entry : VisitPartial(p, e, acc, entry),
  Inv <- LAMBDA p, e, k, acc : Walked(p, acc)

\* The pending partial withdrawals come second.
LEMMA PartialsNumbered ==
  ASSUME NEW s, WellFormed(s), s.next_withdrawal_index \in Int,
         NEW prior, Numbered(prior, s.next_withdrawal_index)
  PROVE  Walked(s, get_pending_partial_withdrawals(s, prior))
<1> DEFINE limit == AtMost(Len(prior) + MAX_PENDING_PARTIALS_PER_WITHDRAWALS_SWEEP,
                           MAX_WITHDRAWALS_PER_PAYLOAD - 1)
           start == [list |-> prior, count |-> 0, open |-> TRUE]
           q == s.pending_partial_withdrawals
<1> get_pending_partial_withdrawals(s, prior) = Partials!Fold(s, limit, start, q)
  BY Zenon DEF get_pending_partial_withdrawals, Partials!Fold, FoldLeft, MapThenFoldSet, Max,
               Partials!LastOf
<1> Walked(s, start) /\ IsSeq(q)
  BY DEF Walked, WellFormed
<1> ASSUME NEW acc, NEW entry, NEW l, Walked(s, acc)
    PROVE  Walked(s, VisitPartial(s, l, acc, entry))
  <2> Numbered(TakePartial(s, acc.list, entry), s.next_withdrawal_index)
    BY AppendNumbered DEF TakePartial, Walked, WithdrawalOf, NextIndex
  <2> QED BY DEF VisitPartial, Walked
<1> HIDE DEF limit, start, q
<1> Walked(s, Partials!Fold(s, limit, start, q))
  BY SeqShape, LeastNatural, Partials!FoldInvariant
<1> QED OBVIOUS

\* A sweep visits at most its limit, and no index twice.
LEMMA SweepShape ==
  ASSUME NEW cursor, NEW f, IsFiniteSet(DOMAIN f), NEW limit \in Nat
  PROVE  /\ AtMost(limit, Size(f)) \in Nat
         /\ DOMAIN SweepPositions(cursor, Size(f), limit) = 1 .. AtMost(limit, Size(f))
BY FS_CardinalityType DEF Size, AtMost, SweepPositions

LOCAL BuilderSweep == INSTANCE FoldFacts WITH
  Op <- LAMBDA p, e, acc, i : VisitBuilder(p, acc, i),
  Inv <- LAMBDA p, e, k, acc : Walked(p, acc)

\* The sweep of the builders that exited comes third.
LEMMA BuilderSweepNumbered ==
  ASSUME NEW s, WellFormed(s), s.next_withdrawal_index \in Int,
         NEW prior, Numbered(prior, s.next_withdrawal_index)
  PROVE  Walked(s, get_builders_sweep_withdrawals(s, prior))
<1> DEFINE start == [list |-> prior, count |-> 0]
           q == SweepPositions(s.next_withdrawal_builder_index, Size(s.builders),
                               MAX_BUILDERS_PER_WITHDRAWALS_SWEEP)
           n == AtMost(MAX_BUILDERS_PER_WITHDRAWALS_SWEEP, Size(s.builders))
<1> get_builders_sweep_withdrawals(s, prior) = BuilderSweep!Fold(s, s, start, q)
  BY Zenon DEF get_builders_sweep_withdrawals, BuilderSweep!Fold, FoldLeft, MapThenFoldSet, Max,
               BuilderSweep!LastOf
<1> Walked(s, start)
  BY DEF Walked
<1> n \in Nat /\ DOMAIN q = 1 .. n
  BY SweepShape, PresetAssumption DEF WellFormed
<1> ASSUME NEW acc, NEW i, Walked(s, acc)
    PROVE  Walked(s, VisitBuilder(s, acc, i))
  <2> \A x, y : Numbered(Append(acc.list, WithdrawalOf(NextIndex(s, acc.list), "builder", i, x, y)),
                        s.next_withdrawal_index)
    BY AppendNumbered DEF Walked, WithdrawalOf, NextIndex
  <2> QED BY DEF VisitBuilder, Walked
<1> HIDE DEF start, q, n
<1> Walked(s, BuilderSweep!Fold(s, s, start, q))
  BY LeastNatural, BuilderSweep!FoldInvariant
<1> QED OBVIOUS

LOCAL ValidatorSweep == INSTANCE FoldFacts WITH
  Op <- LAMBDA p, e, list, i : VisitValidator(p, list, i),
  Inv <- LAMBDA p, e, k, list : Numbered(list, p.next_withdrawal_index)

\* The sweep of the validators comes last.
LEMMA ValidatorSweepNumbered ==
  ASSUME NEW s, WellFormed(s), s.next_withdrawal_index \in Int,
         NEW prior, Numbered(prior, s.next_withdrawal_index)
  PROVE  Numbered(get_validators_sweep_withdrawals(s, prior), s.next_withdrawal_index)
<1> DEFINE q == SweepPositions(s.next_withdrawal_validator_index, Size(s.validators),
                               MAX_VALIDATORS_PER_WITHDRAWALS_SWEEP)
           n == AtMost(MAX_VALIDATORS_PER_WITHDRAWALS_SWEEP, Size(s.validators))
<1> get_validators_sweep_withdrawals(s, prior) = ValidatorSweep!Fold(s, s, prior, q)
  BY Zenon DEF get_validators_sweep_withdrawals, ValidatorSweep!Fold, FoldLeft, MapThenFoldSet,
               Max, ValidatorSweep!LastOf
<1> n \in Nat /\ DOMAIN q = 1 .. n
  BY SweepShape, RegistrySize, PresetAssumption DEF WellFormed
<1> ASSUME NEW list, NEW i, Numbered(list, s.next_withdrawal_index)
    PROVE  Numbered(VisitValidator(s, list, i), s.next_withdrawal_index)
  BY AppendNumbered DEF VisitValidator, WithdrawalOf, NextIndex
<1> HIDE DEF q, n
<1> Numbered(ValidatorSweep!Fold(s, s, prior, q), s.next_withdrawal_index)
  BY LeastNatural, ValidatorSweep!FoldInvariant
<1> QED OBVIOUS

\* get_expected_withdrawals numbers its whole list.
LEMMA ExpectedNumbered ==
  ASSUME NEW s, WellFormed(s), s.next_withdrawal_index \in Int
  PROVE  /\ Numbered(get_expected_withdrawals(s).withdrawals, s.next_withdrawal_index)
         /\ get_expected_withdrawals(s).processed_builder_withdrawals_count \in Nat
         /\ get_expected_withdrawals(s).processed_partial_withdrawals_count \in Nat
BY BuilderWithdrawalsNumbered, PartialsNumbered, BuilderSweepNumbered, ValidatorSweepNumbered
   DEF get_expected_withdrawals, Walked

-----------------------------------------------------------------------------
(***************************************************************************)
(* The invariant of the numbering.                                         *)
(***************************************************************************)
\* The invariant of the numbering: the last block's payload is not yet built on, the
\* list that the state expects continues the ones that were delivered, and a payload
\* for the last block that was let in carries just that list.
DeliveryInv ==
  /\ WellFormed(state) /\ state.slot \in Slots
  /\ "slot" \in DOMAIN state.latest_block_header
  /\ state.latest_block_header.slot \in Nat
  /\ state.latest_execution_payload_bid.block_hash = state.latest_block_header.slot
  /\ state.latest_block_hash \in Int
  /\ state.latest_block_hash < state.latest_block_header.slot
  /\ RequestLists(state.latest_execution_payload_bid.execution_requests)
  /\ state.delivered \in Int
  /\ Numbered(state.payload_expected_withdrawals, state.delivered)
  /\ state.next_withdrawal_index = state.delivered + Len(state.payload_expected_withdrawals)
  /\ envelope.block_hash = state.latest_execution_payload_bid.block_hash
       => envelope.withdrawals = state.payload_expected_withdrawals

\* The proposers and the committees of a checkpoint state are filled in last.
Completed(b, x, y, z) ==
  [b EXCEPT !.proposer_lookahead = x, !.latest_block_header.proposer_index = y, !.ptc_window = z]

\* They leave the rest alone.
LEMMA AnchorCompleted ==
  ASSUME NEW b, WellFormed(b), "slot" \in DOMAIN b.latest_block_header, NEW x, NEW y, NEW z
  PROVE  /\ WellFormed(Completed(b, x, y, z))
         /\ "slot" \in DOMAIN Completed(b, x, y, z).latest_block_header
         /\ Completed(b, x, y, z).latest_block_header.slot = b.latest_block_header.slot
         /\ \A f \in Fields \ {"latest_block_header"} : Completed(b, x, y, z)[f] = b[f]
<1> DEFINE u == Completed(b, x, y, z)
<1> Fields \subseteq DOMAIN b /\ "latest_block_header" \in Fields
  BY Zenon DEF WellFormed, Fields
<1> DOMAIN u = DOMAIN b
  BY Zenon DEF Completed
<1> \A f \in Fields \ {"latest_block_header"} : u[f] = b[f]
  BY Zenon DEF Completed, Fields
<1> u.latest_block_header = [b.latest_block_header EXCEPT !.proposer_index = y]
  BY Zenon DEF Completed
<1> HIDE DEF u
<1> "slot" \in DOMAIN u.latest_block_header /\ u.latest_block_header.slot = b.latest_block_header.slot
  OBVIOUS
<1> WellFormed(u)
  BY DEF WellFormed, Fields
<1> QED BY DEF u

\* What the invariant needs of a checkpoint state before that.
LEMMA AnchorFields ==
  /\ AnchorBase.slot = AnchorSlot /\ AnchorBase.latest_block_hash = AnchorSlot - 1
  /\ AnchorBase.next_withdrawal_index = 0 /\ AnchorBase.delivered = 0
  /\ AnchorBase.payload_expected_withdrawals = << >>
  /\ AnchorBase.latest_execution_payload_bid.block_hash = AnchorSlot
  /\ AnchorBase.latest_execution_payload_bid.execution_requests = NoRequests
  /\ AnchorBase.latest_block_header.slot = AnchorSlot
  /\ "slot" \in DOMAIN AnchorBase.latest_block_header
<1>1. AnchorBase.slot = AnchorSlot /\ AnchorBase.latest_block_hash = AnchorSlot - 1
  BY Zenon DEF AnchorBase
<1>2. /\ AnchorBase.next_withdrawal_index = 0 /\ AnchorBase.delivered = 0
      /\ AnchorBase.payload_expected_withdrawals = << >>
  BY Zenon DEF AnchorBase
<1>3. /\ AnchorBase.latest_execution_payload_bid.block_hash = AnchorSlot
      /\ AnchorBase.latest_execution_payload_bid.execution_requests = NoRequests
  BY Zenon DEF AnchorBase
<1>4. /\ AnchorBase.latest_block_header.slot = AnchorSlot
      /\ "slot" \in DOMAIN AnchorBase.latest_block_header
  BY Zenon DEF AnchorBase
<1> QED BY <1>1, <1>2, <1>3, <1>4, Zenon

\* A checkpoint state is well formed.
LEMMA AnchorWellFormed == WellFormed(AnchorBase)
<1> DEFINE D == DOMAIN AnchorBase
           n == Size(AnchorValidators)
           each(i) ==
             [pubkey |-> <<"v", i>>,
              withdrawal_credentials |-> AnchorValidators[i].withdrawal_credentials,
              effective_balance |-> AnchorValidators[i].effective_balance, slashed |-> FALSE,
              activation_eligibility_epoch |-> AnchorValidators[i].activation_eligibility_epoch,
              activation_epoch |-> AnchorValidators[i].activation_epoch,
              exit_epoch |-> AnchorValidators[i].exit_epoch,
              withdrawable_epoch |-> AnchorValidators[i].withdrawable_epoch]
<1>1. /\ "slot" \in D /\ "latest_block_header" \in D /\ "latest_block_hash" \in D
      /\ "latest_execution_payload_bid" \in D /\ "payload_expected_withdrawals" \in D
  BY Zenon DEF AnchorBase
<1>2. /\ "next_withdrawal_index" \in D /\ "delivered" \in D /\ "validators" \in D
      /\ "builders" \in D /\ "pending_deposits" \in D
  BY Zenon DEF AnchorBase
<1>3. /\ "pending_partial_withdrawals" \in D /\ "pending_consolidations" \in D
      /\ "builder_pending_withdrawals" \in D /\ "error" \in D
  BY Zenon DEF AnchorBase
<1>4. /\ AnchorBase.pending_deposits = AnchorDeposits
      /\ AnchorBase.pending_partial_withdrawals = << >>
      /\ AnchorBase.pending_consolidations = << >>
      /\ AnchorBase.builder_pending_withdrawals = << >>
  BY Zenon DEF AnchorBase
<1>5. DOMAIN AnchorBase.builders = DOMAIN AnchorBuilders
  BY Zenon DEF AnchorBase
<1>6. AnchorBase.validators = [i \in 0 .. (n - 1) |-> each(i)]
  BY Zenon DEF AnchorBase
<1> HIDE DEF D
<1>7. Fields \subseteq D
  BY <1>1, <1>2, <1>3 DEF Fields
<1>8. \A i : Life \subseteq DOMAIN each(i)
  BY DEF Life
<1>9. n \in Nat
  BY CheckpointAssumption, FS_CardinalityType DEF Size
<1> HIDE DEF n, each
<1>10. Registry(AnchorBase.validators)
  BY <1>6, <1>8, <1>9, Zenon DEF Registry
<1>11. IsSeq(AnchorDeposits) /\ IsFiniteSet(DOMAIN AnchorBuilders)
  BY CheckpointAssumption, SomeLists
<1> QED BY <1>4, <1>5, <1>7, <1>10, <1>11, SomeLists, Zenon DEF WellFormed, D

\* It holds of a checkpoint state.
LEMMA DeliveryInit == Init => DeliveryInv
<1> SUFFICES ASSUME Init PROVE DeliveryInv
  OBVIOUS
<1> DEFINE b == AnchorBase
<1>1. PICK x, y, z : state = Completed(b, x, y, z)
  BY Zenon DEF Init, Anchor, Completed
<1>2. /\ WellFormed(state) /\ "slot" \in DOMAIN state.latest_block_header
      /\ state.latest_block_header.slot = b.latest_block_header.slot
      /\ \A f \in Fields \ {"latest_block_header"} : state[f] = b[f]
  <2> HIDE DEF b
  <2>1. WellFormed(b) /\ "slot" \in DOMAIN b.latest_block_header
    BY AnchorWellFormed, AnchorFields DEF b
  <2>2. /\ WellFormed(Completed(b, x, y, z))
        /\ "slot" \in DOMAIN Completed(b, x, y, z).latest_block_header
        /\ Completed(b, x, y, z).latest_block_header.slot = b.latest_block_header.slot
        /\ \A f \in Fields \ {"latest_block_header"} : Completed(b, x, y, z)[f] = b[f]
    BY <2>1, AnchorCompleted, SMT
  <2> QED BY <1>1, <2>2
<1>3. /\ state.slot = b.slot /\ state.latest_block_hash = b.latest_block_hash
      /\ state.latest_execution_payload_bid = b.latest_execution_payload_bid
      /\ state.payload_expected_withdrawals = b.payload_expected_withdrawals
      /\ state.next_withdrawal_index = b.next_withdrawal_index
      /\ state.delivered = b.delivered
  <2> HIDE DEF b
  <2> QED BY <1>2 DEF Fields
<1>4. AnchorSlot \in Nat /\ AnchorSlot \in Slots
  BY CheckpointAssumption, WindowAssumption DEF Slots
<1>5. Numbered(<< >>, 0) /\ RequestLists(NoRequests)
  BY SomeLists DEF Numbered, RequestLists, NoRequests
<1>6. envelope.block_hash # AnchorSlot
  BY <1>4 DEF Init, NoEnvelope
<1>7. /\ AnchorSlot - 1 \in Int /\ AnchorSlot - 1 < AnchorSlot
      /\ 0 \in Int /\ 0 = 0 + Len(<< >>)
  BY <1>4, SomeLists
<1> HIDE DEF b
<1>8. /\ state.slot = AnchorSlot /\ state.latest_block_hash = AnchorSlot - 1
      /\ state.next_withdrawal_index = 0 /\ state.delivered = 0
      /\ state.payload_expected_withdrawals = << >>
      /\ state.latest_execution_payload_bid.block_hash = AnchorSlot
      /\ state.latest_execution_payload_bid.execution_requests = NoRequests
      /\ state.latest_block_header.slot = AnchorSlot
  BY <1>2, <1>3, AnchorFields, Zenon DEF b
<1> QED BY <1>2, <1>4, <1>5, <1>6, <1>7, <1>8, Zenon DEF DeliveryInv

-----------------------------------------------------------------------------
(***************************************************************************)
(* The withdrawals of a block.                                             *)
(***************************************************************************)
LOCAL Debits == INSTANCE FoldFacts WITH
  Op <- LAMBDA p, e, st, w : Debit(st, w),
  Inv <- LAMBDA p, e, k, st : Safe(p, st)

\* apply_withdrawals takes the amounts from the balances.
LEMMA DebitsSafe ==
  ASSUME NEW s, WellFormed(s), NEW list, IsSeq(list)
  PROVE  Safe(s, apply_withdrawals(s, list))
<1> apply_withdrawals(s, list) = Debits!Fold(s, s, s, list)
  BY Zenon DEF apply_withdrawals, Debits!Fold, FoldLeft, MapThenFoldSet, Max, Debits!LastOf
<1> \A st, w : Safe(s, st) =>
       Safe(s, [st EXCEPT !.builders[w.who].balance = saturating_sub(@, w.amount)])
  BY DEF Safe, WellFormed, Fields
<1> \A st, w : Safe(s, st) => Safe(s, Debit(st, w))
  BY BalanceSafe DEF Debit
<1> Safe(s, Debits!Fold(s, s, s, list))
  BY ZenonT(30), Unchanged, SeqShape, LeastNatural, Debits!FoldInvariant
<1> QED OBVIOUS

\* What process_withdrawals does: nothing while the last payload is not built on;
\* else it sets the list that continues the numbers given before.
Withdrawn(s, t) ==
  /\ WellFormed(t) /\ t.slot = s.slot /\ t.delivered = s.delivered
  /\ Kept(s.validators, t.validators)
  /\ t.latest_block_header = s.latest_block_header
  /\ t.latest_block_hash = s.latest_block_hash
  /\ t.latest_execution_payload_bid = s.latest_execution_payload_bid
  /\ IF s.latest_block_hash # s.latest_execution_payload_bid.block_hash
     THEN /\ t.payload_expected_withdrawals = s.payload_expected_withdrawals
          /\ t.next_withdrawal_index = s.next_withdrawal_index
     ELSE /\ Numbered(t.payload_expected_withdrawals, s.next_withdrawal_index)
          /\ t.next_withdrawal_index
               = s.next_withdrawal_index + Len(t.payload_expected_withdrawals)

\* process_withdrawals is as Withdrawn says.
LEMMA WithdrawalsDone ==
  ASSUME NEW s, WellFormed(s), s.next_withdrawal_index \in Int
  PROVE  Withdrawn(s, process_withdrawals(s))
<1> DEFINE expected == get_expected_withdrawals(s)
           list == expected.withdrawals
           t == apply_withdrawals(s, list)
           m == expected.processed_builder_withdrawals_count
           n == expected.processed_partial_withdrawals_count
           u(b, v, w) ==
             [t EXCEPT
                !.next_withdrawal_index = @ + Len(list),
                !.payload_expected_withdrawals = list,
                !.builder_pending_withdrawals = Drop(@, m),
                !.pending_partial_withdrawals = Drop(@, n),
                !.next_withdrawal_builder_index = b,
                !.next_withdrawal_validator_index = v,
                !.withdrawn = w]
<1> CASE s.latest_block_hash # s.latest_execution_payload_bid.block_hash
  BY KeptSame, Zenon DEF process_withdrawals, Withdrawn, WellFormed
<1> CASE s.latest_block_hash = s.latest_execution_payload_bid.block_hash
  <2> Numbered(list, s.next_withdrawal_index) /\ m \in Nat /\ n \in Nat
    BY ExpectedNumbered
  <2> \E b, v, w : process_withdrawals(s) = u(b, v, w)
    BY Zenon DEF process_withdrawals, ApplyExpected, UpdateQueues
  <2> HIDE DEF list, m, n
  <2> Safe(s, t)
    BY DebitsSafe DEF Numbered
  <2> HIDE DEF t
  <2> IsSeq(Drop(t.builder_pending_withdrawals, m)) /\ IsSeq(Drop(t.pending_partial_withdrawals, n))
    BY DropSeq DEF Safe, WellFormed
  <2> \A b, v, w : WellFormed(u(b, v, w))
    BY DEF Safe, WellFormed, Fields
  <2> \A b, v, w : /\ u(b, v, w).payload_expected_withdrawals = list
                   /\ u(b, v, w).next_withdrawal_index = s.next_withdrawal_index + Len(list)
    BY DEF Safe, WellFormed, Fields
  <2> \A b, v, w : Kept(s.validators, u(b, v, w).validators)
    BY DEF Safe, WellFormed, Fields
  <2> \A b, v, w : /\ u(b, v, w).slot = s.slot /\ u(b, v, w).delivered = s.delivered
                   /\ u(b, v, w).latest_block_header = s.latest_block_header
                   /\ u(b, v, w).latest_block_hash = s.latest_block_hash
                   /\ u(b, v, w).latest_execution_payload_bid = s.latest_execution_payload_bid
    BY DEF Safe, WellFormed, Fields
  <2> HIDE DEF u
  <2> QED BY ZenonT(30) DEF Withdrawn
<1> QED OBVIOUS

-----------------------------------------------------------------------------
(***************************************************************************)
(* The phases of a block.                                                  *)
(***************************************************************************)
\* The block builds on the payload of the last block.
Full(s, block) == block.body.bid.parent_block_hash = s.latest_execution_payload_bid.block_hash

\* What is known of a state and a block before the block is processed.
Ready(s, block) ==
  /\ WellFormed(s)
  /\ s.latest_block_hash # s.latest_execution_payload_bid.block_hash
  /\ s.next_withdrawal_index \in Int
  /\ RequestLists(s.latest_execution_payload_bid.execution_requests)
  /\ OperationLists(block.body)

\* Phase j is among the first k.
Done(k, j) == j <= k

\* The state t after k phases of a block on s.  The first phase makes the last payload
\* the latest one if the block builds on it, the second sets the header, the third
\* the withdrawals if the last payload is the latest one, the fourth the bid.
Progress(s, block, k, t) ==
  /\ t.slot = s.slot /\ t.delivered = s.delivered
  /\ Kept(s.validators, t.validators)
  /\ t.latest_block_hash = IF Done(k, 1) /\ Full(s, block)
                           THEN s.latest_execution_payload_bid.block_hash ELSE s.latest_block_hash
  /\ Done(k, 2) => "slot" \in DOMAIN t.latest_block_header /\ t.latest_block_header.slot = s.slot
  /\ t.latest_execution_payload_bid =
       IF Done(k, 4) THEN block.body.bid ELSE s.latest_execution_payload_bid
  /\ IF Done(k, 3) /\ Full(s, block)
     THEN /\ Numbered(t.payload_expected_withdrawals, s.next_withdrawal_index)
          /\ t.next_withdrawal_index
               = s.next_withdrawal_index + Len(t.payload_expected_withdrawals)
     ELSE /\ t.payload_expected_withdrawals = s.payload_expected_withdrawals
          /\ t.next_withdrawal_index = s.next_withdrawal_index

\* A block that was rejected may have stopped half-way.
AfterPhase(s, block, k, t) == WellFormed(t) /\ (t.error = "none" => Progress(s, block, k, t))

\* The phases come one after the other.
LEMMA PhaseOrder ==
  /\ ~Done(0, 1) /\ ~Done(0, 2) /\ ~Done(0, 3) /\ ~Done(0, 4)
  /\ Done(1, 1) /\ ~Done(1, 2) /\ ~Done(1, 3) /\ ~Done(1, 4)
  /\ Done(2, 1) /\ Done(2, 2) /\ ~Done(2, 3) /\ ~Done(2, 4)
  /\ Done(3, 1) /\ Done(3, 2) /\ Done(3, 3) /\ ~Done(3, 4)
  /\ \A k \in 4 .. 8 : Done(k, 1) /\ Done(k, 2) /\ Done(k, 3) /\ Done(k, 4)
BY DEF Done

\* A phase that rejects the block.
LEMMA RejectAfter ==
  ASSUME NEW s, NEW block, NEW k, NEW t, WellFormed(t), NEW e, e # "none"
  PROVE  AfterPhase(s, block, k, Reject(t, e))
BY DEF AfterPhase, Reject, WellFormed, Fields

\* The parent's payload: its requests, its payment, its hash.
LEMMA ParentPhase ==
  ASSUME NEW s, NEW block, Ready(s, block), NEW t, WellFormed(t), Progress(s, block, 0, t)
  PROVE  AfterPhase(s, block, 1, process_parent_execution_payload(t, block))
<1> DEFINE requests == block.body.parent_execution_requests
           bid == t.latest_execution_payload_bid
           c == SetAvailability(release_parent_payment(ApplyRequests(t, requests)), bid.slot, 1)
           d == [c EXCEPT !.latest_block_hash = bid.block_hash]
<1> bid = s.latest_execution_payload_bid
  BY PhaseOrder, Zenon DEF Progress
<1> \/ \E e \in {"ParentPayloadUnexpectedRequests", "ParentPayloadRequestsMismatch"} :
         process_parent_execution_payload(t, block) = Reject(t, e)
    \/ ~Full(s, block) /\ process_parent_execution_payload(t, block) = t
    \/ /\ Full(s, block) /\ requests = bid.execution_requests
       /\ process_parent_execution_payload(t, block) = d
  BY DEF process_parent_execution_payload, apply_parent_execution_payload, Full
<1> requests = bid.execution_requests => Safe(t, c)
  BY Unchanged, RequestsSafe, ReleaseSafe, AvailabilitySafe DEF Ready
<1> HIDE DEF c
<1> Safe(t, c) =>
      /\ WellFormed(d) /\ d.slot = t.slot /\ d.delivered = t.delivered
      /\ d.latest_block_hash = bid.block_hash /\ d.latest_execution_payload_bid = bid
      /\ d.payload_expected_withdrawals = t.payload_expected_withdrawals
      /\ d.next_withdrawal_index = t.next_withdrawal_index
      /\ Kept(t.validators, d.validators)
  BY DEF Safe, WellFormed, Fields
<1> HIDE DEF d
<1> Kept(t.validators, d.validators) => Kept(s.validators, d.validators)
  BY KeptTrans, Zenon DEF Progress
<1> Full(s, block) /\ Safe(t, c) => AfterPhase(s, block, 1, d)
  BY PhaseOrder, Zenon DEF AfterPhase, Progress
<1> ~Full(s, block) => AfterPhase(s, block, 1, t)
  BY PhaseOrder, Zenon DEF AfterPhase, Progress
<1> QED BY Zenon, RejectAfter

\* The header of the block.
LEMMA HeaderPhase ==
  ASSUME NEW s, NEW block, NEW t, WellFormed(t), Progress(s, block, 1, t)
  PROVE  AfterPhase(s, block, 2, process_block_header(t, block))
<1> DEFINE header == [slot |-> block.slot, proposer_index |-> block.proposer_index,
                      parent_root |-> block.parent_root, state_root |-> NoRoot]
           d == [t EXCEPT !.latest_block_header = header]
<1> \/ \E e \in {"BlockSlotMismatch", "SlotNotAfterParent", "ProposerIndexMismatch",
                 "ParentRootMismatch", "ProposerSlashed"} :
         process_block_header(t, block) = Reject(t, e)
    \/ block.slot = t.slot /\ process_block_header(t, block) = d
  BY DEF process_block_header
<1> "slot" \in DOMAIN header /\ header.slot = block.slot
  OBVIOUS
<1> HIDE DEF header
<1> /\ WellFormed(d) /\ d.slot = t.slot /\ d.delivered = t.delivered
    /\ d.latest_block_header = header /\ d.validators = t.validators
    /\ d.latest_block_hash = t.latest_block_hash
    /\ d.latest_execution_payload_bid = t.latest_execution_payload_bid
    /\ d.payload_expected_withdrawals = t.payload_expected_withdrawals
    /\ d.next_withdrawal_index = t.next_withdrawal_index
  BY DEF WellFormed, Fields
<1> HIDE DEF d
<1> block.slot = t.slot => AfterPhase(s, block, 2, d)
  BY PhaseOrder, Zenon DEF AfterPhase, Progress
<1> QED BY RejectAfter

\* The withdrawals that the payload of the block must carry.
LEMMA WithdrawalsPhase ==
  ASSUME NEW s, NEW block, Ready(s, block), NEW t, WellFormed(t), Progress(s, block, 2, t)
  PROVE  AfterPhase(s, block, 3, process_withdrawals(t))
<1> t.next_withdrawal_index \in Int
  BY PhaseOrder, Zenon DEF Progress, Ready
<1> Withdrawn(t, process_withdrawals(t))
  BY WithdrawalsDone
<1> Kept(s.validators, process_withdrawals(t).validators)
  BY KeptTrans, Zenon DEF Withdrawn, Progress
<1> QED BY PhaseOrder, Zenon DEF Withdrawn, AfterPhase, Progress, Ready

\* The bid of the block.
LEMMA BidPhase ==
  ASSUME NEW s, NEW block, NEW t, WellFormed(t), Progress(s, block, 3, t)
  PROVE  AfterPhase(s, block, 4, process_execution_payload_bid(t, block.body.bid))
<1> 4 \in 4 .. 8
  OBVIOUS
<1> DEFINE bid == block.body.bid
           d(x) == [t EXCEPT !.latest_execution_payload_bid = bid, !.builder_pending_payments = x]
<1> \/ \E x : process_execution_payload_bid(t, bid) = d(x)
    \/ process_execution_payload_bid(t, bid) = Reject(t, "BuilderBid")
  BY Zenon DEF process_execution_payload_bid, record_accepted_bid
<1> \A x : /\ WellFormed(d(x)) /\ d(x).slot = t.slot /\ d(x).delivered = t.delivered
           /\ d(x).validators = t.validators
           /\ d(x).latest_block_header = t.latest_block_header
           /\ d(x).latest_block_hash = t.latest_block_hash
           /\ d(x).latest_execution_payload_bid = bid
           /\ d(x).payload_expected_withdrawals = t.payload_expected_withdrawals
           /\ d(x).next_withdrawal_index = t.next_withdrawal_index
  BY ZenonT(30) DEF WellFormed, Fields
<1> HIDE DEF d
<1> \A x : AfterPhase(s, block, 4, d(x))
  BY PhaseOrder, Zenon DEF AfterPhase, Progress
<1> QED BY RejectAfter

\* The other phases are Safe.
LEMMA LaterPhase ==
  ASSUME NEW s, NEW block, Ready(s, block), NEW k \in 5 .. 8, NEW t, WellFormed(t),
         Progress(s, block, k - 1, t)
  PROVE  AfterPhase(s, block, k, RunPhase(t, BlockPhases[k], block))
<1> BlockPhases[k] \in {"randao", "eth1", "operations", "sync"}
  BY DEF BlockPhases
<1> Safe(t, RunPhase(t, BlockPhases[k], block))
  BY Unchanged, RandaoEth1Safe, OperationsSafe, SyncAggregateSafe DEF RunPhase, Ready
<1> k \in 4 .. 8 /\ k - 1 \in 4 .. 8
  OBVIOUS
<1> Kept(s.validators, RunPhase(t, BlockPhases[k], block).validators)
  BY KeptTrans, Zenon DEF Safe, Progress
<1> QED BY PhaseOrder, Zenon DEF AfterPhase, Progress, Safe

LOCAL Phases == INSTANCE FoldFacts WITH
  Op <- LAMBDA p, e, st, phase : IF st.error = "none" THEN RunPhase(st, phase, e) ELSE st,
  Inv <- LAMBDA p, e, k, st : AfterPhase(p, e, k, st)

\* A block that no phase rejects has gone through all of them.
LEMMA BlockProcessed ==
  ASSUME NEW s, NEW block, Ready(s, block)
  PROVE  AfterPhase(s, block, 8, process_block(s, block))
<1> process_block(s, block) = Phases!Fold(s, block, s, BlockPhases)
  BY Zenon DEF process_block, Phases!Fold, FoldLeft, MapThenFoldSet, Max, Phases!LastOf
<1> AfterPhase(s, block, 0, s)
  BY PhaseOrder, KeptSame, Zenon DEF AfterPhase, Progress, Ready, WellFormed
<1> ASSUME NEW k \in 1 .. 8, NEW t, WellFormed(t), Progress(s, block, k - 1, t)
    PROVE  AfterPhase(s, block, k, RunPhase(t, BlockPhases[k], block))
  <2> CASE k = 1
    BY ParentPhase DEF RunPhase, BlockPhases
  <2> CASE k = 2
    BY HeaderPhase DEF RunPhase, BlockPhases
  <2> CASE k = 3
    BY WithdrawalsPhase DEF RunPhase, BlockPhases
  <2> CASE k = 4
    BY BidPhase DEF RunPhase, BlockPhases
  <2> CASE k \in 5 .. 8
    BY LaterPhase
  <2> QED OBVIOUS
<1> ASSUME NEW k \in 1 .. 8, NEW t, AfterPhase(s, block, k - 1, t)
    PROVE  AfterPhase(s, block, k,
             IF t.error = "none" THEN RunPhase(t, BlockPhases[k], block) ELSE t)
  BY DEF AfterPhase
<1> 8 \in Nat /\ DOMAIN BlockPhases = 1 .. 8
  BY DEF BlockPhases
<1> AfterPhase(s, block, 8, Phases!Fold(s, block, s, BlockPhases))
  BY Zenon, LeastNatural, Phases!FoldInvariant
<1> QED OBVIOUS

-----------------------------------------------------------------------------
(***************************************************************************)
(* A slot.                                                                 *)
(***************************************************************************)
\* What a slot changes of the fields that the withdrawals depend on.
SlotPassed(s, t) ==
  /\ WellFormed(t) /\ Kept(s.validators, t.validators)
  /\ t.slot = s.slot + 1
  /\ "slot" \in DOMAIN t.latest_block_header
  /\ t.latest_block_header.slot = s.latest_block_header.slot
  /\ t.latest_block_hash = s.latest_block_hash
  /\ t.latest_execution_payload_bid = s.latest_execution_payload_bid
  /\ t.payload_expected_withdrawals = s.payload_expected_withdrawals
  /\ t.next_withdrawal_index = s.next_withdrawal_index
  /\ t.delivered = s.delivered

\* process_slots fills the header in, processes the epoch at its end and moves on.
LEMMA AdvanceSlotPasses ==
  ASSUME NEW s, WellFormed(s), "slot" \in DOMAIN s.latest_block_header
  PROVE  SlotPassed(s, AdvanceSlot(s))
<1> DEFINE header == [s.latest_block_header EXCEPT !.state_root = IF @ = NoRoot THEN s.slot ELSE @]
           noted == [s EXCEPT
                       !.state_roots[s.slot % SLOTS_PER_HISTORICAL_ROOT] = s.slot,
                       !.latest_block_header.state_root = IF @ = NoRoot THEN s.slot ELSE @,
                       !.block_roots[s.slot % SLOTS_PER_HISTORICAL_ROOT] = s.latest_block_header.slot]
<1> process_slot(s) = SetAvailability(noted, s.slot + 1, 0)
  BY Zenon DEF process_slot
<1> "slot" \in DOMAIN header /\ header.slot = s.latest_block_header.slot
  OBVIOUS
<1> /\ noted.latest_block_header = header /\ WellFormed(noted)
    /\ noted.slot = s.slot /\ noted.latest_block_hash = s.latest_block_hash
    /\ noted.latest_execution_payload_bid = s.latest_execution_payload_bid
    /\ noted.payload_expected_withdrawals = s.payload_expected_withdrawals
    /\ noted.next_withdrawal_index = s.next_withdrawal_index
    /\ noted.delivered = s.delivered /\ noted.validators = s.validators
  <2> noted.latest_block_header = header
    BY DEF WellFormed, Fields
  <2> QED BY DEF WellFormed, Fields
<1> HIDE DEF header, noted
<1> Safe(noted, process_slot(s))
  BY Unchanged, AvailabilitySafe
<1> Safe(noted, process_epoch(process_slot(s)))
  BY AccountingSafe, QueuesSafe, WindowsSafe DEF process_epoch
<1> \A t : Safe(noted, t) => SlotPassed(s, [t EXCEPT !.slot = @ + 1])
  BY DEF SlotPassed, Safe, WellFormed, Fields
<1> QED BY DEF AdvanceSlot

-----------------------------------------------------------------------------
(***************************************************************************)
(* The steps of the chain keep the invariant.                              *)
(***************************************************************************)
\* The validators of a step, and what was decided on them, are those of the next.
ValidatorsKept == Kept(state.validators, state'.validators)

\* A slot that passes moves the clock alone.
LEMMA DeliverySlot == DeliveryInv /\ Slot => DeliveryInv' /\ ValidatorsKept
<1> SUFFICES ASSUME DeliveryInv, Slot PROVE DeliveryInv' /\ ValidatorsKept
  OBVIOUS
<1> state.slot \in Slots
  BY DEF DeliveryInv
<1> state.slot + 1 \in Slots
  BY WindowAssumption DEF Slot, Slots
<1> SlotPassed(state, state')
  BY AdvanceSlotPasses DEF DeliveryInv, Slot
<1> envelope' = envelope
  BY DEF Slot
<1> QED BY Zenon DEF DeliveryInv, SlotPassed, ValidatorsKept

\* A payload that is let in carries the list that the state expects.
LEMMA DeliveryEnvelope == DeliveryInv /\ Envelope => DeliveryInv' /\ ValidatorsKept
<1> SUFFICES ASSUME DeliveryInv, Envelope PROVE DeliveryInv' /\ ValidatorsKept
  OBVIOUS
<1> state' = state
  BY DEF Envelope
<1> envelope'.withdrawals = state.payload_expected_withdrawals
  BY DEF Envelope, verify_execution_payload_envelope, validate_execution_payload_envelope
<1> ValidatorsKept
  BY KeptSame, Zenon DEF DeliveryInv, WellFormed, ValidatorsKept
<1> QED BY Zenon DEF DeliveryInv

\* A block on the last payload counts that payload's list as delivered and sets the next
\* one; a block on an older payload leaves the list, and the count, in place.
LEMMA DeliveryBlock == DeliveryInv /\ Block => DeliveryInv' /\ ValidatorsKept
<1> SUFFICES ASSUME DeliveryInv, Block PROVE DeliveryInv' /\ ValidatorsKept
  OBVIOUS
<1>1. PICK full \in BOOLEAN, offer \in Offers[state.slot], body \in Bodies[state.slot],
           vote \in Votes[state.slot] :
        /\ full => envelope.block_hash = state.latest_execution_payload_bid.block_hash
        /\ state' = [process_block(state, Proposal(state, full, offer, body, vote)) EXCEPT
              !.delivered = @ + IF full THEN Len(envelope.withdrawals) ELSE 0]
        /\ state'.error = "none"
  BY DEF Block
<1> DEFINE block == Proposal(state, full, offer, body, vote)
           bid == state.latest_execution_payload_bid
<1>2. /\ block.body.bid.block_hash = state.slot
      /\ block.body.bid.execution_requests = offer.requests
      /\ block.body.bid.parent_block_hash
           = IF full THEN bid.block_hash ELSE state.latest_block_hash
  BY Zenon DEF Proposal
<1>3. OperationLists(block.body)
  <2>1. /\ block.body.proposer_slashings = body.proposer_slashings
        /\ block.body.attester_slashings = body.attester_slashings
        /\ block.body.voluntary_exits = body.voluntary_exits
        /\ block.body.bls_to_execution_changes = body.bls_to_execution_changes
        /\ block.body.attestations = Attestations(state, vote)
        /\ \E x : block.body.payload_attestations = <<x>>
    BY Zenon DEF Proposal
  <2>2. Attestations(state, vote) = << >> \/ \E x : Attestations(state, vote) = <<x>>
    BY DEF Attestations
  <2>3. IsSeq(Attestations(state, vote))
    BY <2>2, SomeLists, SomeLists
  <2>4. /\ IsSeq(body.proposer_slashings) /\ IsSeq(body.attester_slashings)
        /\ IsSeq(body.voluntary_exits) /\ IsSeq(body.bls_to_execution_changes)
    BY ProposalAssumption, SomeLists DEF DeliveryInv
  <2> HIDE DEF block
  <2> QED BY ZenonT(30), <2>1, <2>3, <2>4, SomeLists DEF OperationLists
<1>4. RequestLists(offer.requests)
  <2>1. \A name \in DOMAIN NoRequests : IsSeq(offer.requests[name])
    BY ProposalAssumption, SomeLists DEF DeliveryInv
  <2>2. DOMAIN NoRequests = {"deposits", "withdrawals", "consolidations", "builder_deposits",
                             "builder_exits"}
    BY DEF NoRequests
  <2> QED BY <2>1, <2>2 DEF RequestLists
<1> HIDE DEF block
<1>5. /\ state.slot \in Nat /\ bid.block_hash \in Nat /\ bid.block_hash < state.slot
      /\ state.latest_block_hash \in Int /\ state.latest_block_hash < bid.block_hash
      /\ state.delivered \in Int /\ Len(state.payload_expected_withdrawals) \in Nat
      /\ state.next_withdrawal_index = state.delivered + Len(state.payload_expected_withdrawals)
  BY SeqShape, WindowAssumption, SMTT(20) DEF DeliveryInv, Numbered, Block, Slots
<1>6. Ready(state, block)
  <2>1. state.latest_block_hash # bid.block_hash /\ state.next_withdrawal_index \in Int
    BY <1>5
  <2> QED BY <1>3, <2>1, Zenon DEF DeliveryInv, Ready
<1>7. Full(state, block) <=> full
  BY <1>2, <1>5 DEF Full
<1> DEFINE t == process_block(state, block)
           more == IF full THEN Len(envelope.withdrawals) ELSE 0
<1>8. AfterPhase(state, block, 8, t)
  BY <1>6, BlockProcessed
<1>9. state' = [t EXCEPT !.delivered = @ + more]
  BY <1>1 DEF block
<1> HIDE DEF t, more
<1>10. /\ WellFormed(state') /\ state'.slot = t.slot /\ state'.delivered = t.delivered + more
       /\ state'.latest_block_header = t.latest_block_header
       /\ state'.latest_block_hash = t.latest_block_hash
       /\ state'.latest_execution_payload_bid = t.latest_execution_payload_bid
       /\ state'.payload_expected_withdrawals = t.payload_expected_withdrawals
       /\ state'.next_withdrawal_index = t.next_withdrawal_index
       /\ state'.error = t.error /\ state'.validators = t.validators
  BY <1>8, <1>9 DEF AfterPhase, WellFormed, Fields
<1>11. Progress(state, block, 8, t)
  BY <1>1, <1>8, <1>10 DEF AfterPhase
<1>12. 8 \in 4 .. 8
  OBVIOUS
<1>13. /\ state'.slot = state.slot
       /\ "slot" \in DOMAIN state'.latest_block_header
       /\ state'.latest_block_header.slot = state.slot
       /\ state'.latest_execution_payload_bid = block.body.bid
       /\ state'.latest_block_hash = IF full THEN bid.block_hash ELSE state.latest_block_hash
  BY <1>7, <1>10, <1>11, <1>12, PhaseOrder, Zenon DEF Progress
<1> DEFINE list == state'.payload_expected_withdrawals
           next == state'.next_withdrawal_index
<1>14. state'.delivered \in Int /\ Numbered(list, state'.delivered) /\ next = state'.delivered + Len(list)
  <2>1. /\ state'.delivered = state.delivered + more
        /\ full => /\ Numbered(list, state.next_withdrawal_index)
                   /\ next = state.next_withdrawal_index + Len(list)
        /\ ~full => list = state.payload_expected_withdrawals /\ next = state.next_withdrawal_index
    BY <1>7, <1>10, <1>11, <1>12, PhaseOrder, Zenon DEF Progress
  <2>2. /\ Numbered(state.payload_expected_withdrawals, state.delivered)
        /\ more = IF full THEN Len(state.payload_expected_withdrawals) ELSE 0
    BY <1>1, Zenon DEF DeliveryInv, more
  <2> HIDE DEF list, next
  <2> QED BY <1>5, <2>1, <2>2
<1>15. /\ state'.latest_block_hash \in Int /\ state'.latest_block_hash < state.slot
       /\ envelope'.block_hash # state.slot
  BY <1>5, <1>13 DEF Block, NoEnvelope
<1>16. state.slot \in Slots
  BY Zenon DEF DeliveryInv
<1>17. ValidatorsKept
  BY <1>10, <1>11, Zenon DEF Progress, ValidatorsKept
<1> QED BY <1>2, <1>4, <1>5, <1>10, <1>13, <1>14, <1>15, <1>16, <1>17, Zenon DEF DeliveryInv

\* The invariant holds in every state of the chain, whatever the blocks carry.
THEOREM DeliveryInvariant == Spec => []DeliveryInv
<1>1. DeliveryInv /\ [Next]_vars => DeliveryInv'
  <2>1. DeliveryInv /\ UNCHANGED vars => DeliveryInv'
    BY DEF vars, DeliveryInv
  <2> QED BY <2>1, DeliverySlot, DeliveryBlock, DeliveryEnvelope DEF Next, Stop
<1> QED BY <1>1, DeliveryInit, PTL DEF Spec

\* The payloads that the chain builds on carry every numbered withdrawal once, in order:
\* process_withdrawals numbers a new list only when the last one was delivered.
THEOREM WithdrawalsAlwaysDeliveredOnce == Spec => []WithdrawalsDeliveredOnce
<1>1. DeliveryInv => WithdrawalsDeliveredOnce
  BY DEF DeliveryInv, Numbered, WithdrawalsDeliveredOnce
<1> QED BY <1>1, DeliveryInvariant, PTL

\* A validator keeps its key, is activated once, exits once (whether a request, its own
\* message, an ejection, a slashing or a consolidation asks for it), stays slashed, and
\* may withdraw when its exit said unless a slashing puts that off, once.
THEOREM LifecycleAlwaysFinal == Spec => LifecycleFinal
<1>1. DeliveryInv /\ [Next]_vars =>
        [\A i \in DOMAIN state.validators :
           Stands(state.validators[i], state'.validators[i])]_state
  <2>1. ValidatorsKept => \A i \in DOMAIN state.validators :
                            Stands(state.validators[i], state'.validators[i])
    BY Zenon DEF ValidatorsKept, Kept
  <2>2. Stop \/ UNCHANGED vars => UNCHANGED state
    BY DEF Stop, vars
  <2> QED BY <2>1, <2>2, DeliverySlot, DeliveryBlock, DeliveryEnvelope DEF Next
<1> QED BY <1>1, DeliveryInvariant, PTL DEF Spec, LifecycleFinal
=============================================================================
