------------------------- MODULE TransferFlowProofs -------------------------
(***************************************************************************)
(* Proofs about TransferFlow: types, whose keys are used, what is signed,  *)
(* and whose balance is shown.                                             *)
(***************************************************************************)
EXTENDS TransferFlow, TLAPS

AnyCall == {Idle} \union PromptCalls \union PrepareCalls \union ExecuteCalls
Loads == {NoLoad} \union [who : Wallets, place : {"prompt", "scan"}, seen : 0..MaxSends]
Balances == [status : {"idle", "loading", "unavailable", "ready"},
             of : Wallets \union {None}, seen : 0..MaxSends]

-----------------------------------------------------------------------------
(* The reducer.                                                            *)

LEMMA InitialFlowOK == FlowOK(InitialFlow)
BY NoneAssumption DEF FlowOK, InitialFlow, Statuses

LEMMA ReviewedOK == ASSUME NEW draft \in Drafts PROVE FlowOK(Reviewed(draft))
BY NoneAssumption DEF FlowOK, InitialFlow, Statuses, Reviewed

LEMMA PrepareStartedOK == ASSUME FlowOK(flow) PROVE FlowOK(PrepareStarted)
BY NoneAssumption DEF FlowOK, Statuses, PrepareStarted, WithDraft

LEMMA PrepareSucceededOK ==
  ASSUME FlowOK(flow), NEW op \in Operations PROVE FlowOK(PrepareSucceeded(op))
BY NoneAssumption DEF FlowOK, Statuses, PrepareSucceeded, WithDraft

LEMMA ExecuteStartedOK == ASSUME FlowOK(flow) PROVE FlowOK(ExecuteStarted)
BY NoneAssumption DEF FlowOK, Statuses, ExecuteStarted, WithDraft, WithPrepared

LEMMA ExecuteSucceededOK ==
  ASSUME FlowOK(flow), NEW receipt \in Receipts PROVE FlowOK(ExecuteSucceeded(receipt))
BY NoneAssumption DEF FlowOK, Statuses, ExecuteSucceeded, WithDraft, WithPrepared

LEMMA FailedOK == ASSUME NEW state, FlowOK(state) PROVE FlowOK(Failed(state))
BY NoneAssumption DEF FlowOK, Statuses, Failed

\* What each action leaves in the fields.
LEMMA ReviewedFields ==
  ASSUME NEW draft
  PROVE  /\ Reviewed(draft).draft = draft /\ Reviewed(draft).status = "reviewing"
         /\ Reviewed(draft).prepared = None /\ Reviewed(draft).receipt = None
BY DEF Reviewed, InitialFlow

LEMMA PrepareStartedFields ==
  ASSUME FlowOK(flow), flow.draft # None
  PROVE  /\ PrepareStarted.draft = flow.draft /\ PrepareStarted.status = "preparing"
         /\ PrepareStarted.prepared = None /\ PrepareStarted.receipt = None
BY DEF FlowOK, PrepareStarted, WithDraft

LEMMA PrepareSucceededFields ==
  ASSUME FlowOK(flow), flow.draft # None, NEW op
  PROVE  /\ PrepareSucceeded(op).draft = flow.draft /\ PrepareSucceeded(op).status = "prepared"
         /\ PrepareSucceeded(op).prepared = op /\ PrepareSucceeded(op).receipt = None
BY DEF FlowOK, PrepareSucceeded, WithDraft

LEMMA ExecuteStartedFields ==
  ASSUME FlowOK(flow), flow.prepared # None
  PROVE  /\ ExecuteStarted.draft = flow.draft /\ ExecuteStarted.status = "signing"
         /\ ExecuteStarted.prepared = flow.prepared /\ ExecuteStarted.receipt = None
BY DEF FlowOK, ExecuteStarted, WithDraft, WithPrepared

LEMMA ExecuteSucceededFields ==
  ASSUME FlowOK(flow), NEW receipt
  PROVE  /\ ExecuteSucceeded(receipt).draft = flow.draft
         /\ ExecuteSucceeded(receipt).prepared = flow.prepared
         /\ ExecuteSucceeded(receipt).receipt \in {flow.receipt, receipt}
         /\ flow.prepared # None => /\ ExecuteSucceeded(receipt).receipt = receipt
                                   /\ ExecuteSucceeded(receipt).status = "submitted"
BY DEF FlowOK, ExecuteSucceeded, WithDraft, WithPrepared

LEMMA FailedFields ==
  ASSUME NEW state, FlowOK(state)
  PROVE  /\ Failed(state).draft = state.draft
         /\ Failed(state).prepared = state.prepared /\ Failed(state).receipt = None
BY DEF FlowOK, Failed

\* The form and the cancel button start over.
LEMMA FormStepFields ==
  ASSUME CancelReview \/ \E form \in Forms : ReviewOperation(form)
  PROVE  flow'.prepared = None /\ flow'.receipt = None
<1>1. CASE CancelReview
  BY <1>1 DEF CancelReview, InitialFlow
<1>2. ASSUME NEW form \in Forms, ReviewOperation(form)
      PROVE  flow'.prepared = None /\ flow'.receipt = None
  BY <1>2, ReviewedFields DEF ReviewOperation
<1> QED BY <1>1, <1>2

-----------------------------------------------------------------------------
(* Types.                                                                  *)

\* The parts of TypeOK that a step of the balance or of a call can disturb.
CallsOK == job \in [Jobs -> AnyCall]
BalanceOK == load \in Loads /\ abandoned \subseteq Wallets /\ balance \in Balances

LEMMA RenderBalanceOK ==
  ASSUME BalanceOK, Render,
         account' \in Wallets \union {None}, done' \in 0..MaxSends
  PROVE  BalanceOK'
<1>1. CASE UNCHANGED balanceVars
  BY <1>1 DEF BalanceOK, balanceVars
<1>2. CASE RestartLoad
  <2>1. abandoned' \subseteq Wallets
    BY <1>2, load.place = "prompt" => load.who \in Wallets DEF RestartLoad, Abandon, BalanceOK, Loads, NoLoad
  <2>2. load' \in Loads
    BY <1>2 DEF RestartLoad, StartLoad, Loads
  <2>3. balance' \in Balances
    BY <1>2, BoundsAssumption DEF RestartLoad, Balances, BalanceOK
  <2> QED BY <2>1, <2>2, <2>3 DEF BalanceOK
<1> QED BY <1>1, <1>2 DEF Render

LEMMA CallUpdate ==
  ASSUME CallsOK, NEW j \in Jobs, NEW call \in AnyCall, job' = [job EXCEPT ![j] = call]
  PROVE  CallsOK'
BY DEF CallsOK

LEMMA TypesInit == Init => TypeOK
<1> SUFFICES ASSUME Init PROVE TypeOK
  OBVIOUS
<1>1. FlowOK(flow)
  BY InitialFlowOK DEF Init
<1>2. /\ cache \in [Wallets -> Wallets \union {None}]
      /\ job \in [Jobs -> {Idle} \union PromptCalls \union PrepareCalls \union ExecuteCalls]
  BY DEF Init
<1>3. done \in 0..MaxSends /\ changes \in 0..MaxChanges /\ reviews \in 0..MaxReviews
  BY BoundsAssumption DEF Init
<1>4. balance \in [status : {"idle", "loading", "unavailable", "ready"},
                  of : Wallets \union {None}, seen : 0..MaxSends]
  BY BoundsAssumption DEF Init
<1> QED BY <1>1, <1>2, <1>3, <1>4 DEF Init, TypeOK

\* What TypeOK says of the variables that are neither a flow, a call nor a load.
PlainOK ==
  /\ account \in Wallets \union {None} /\ selected \in Wallets \union {None}
  /\ pending \in Wallets \union {None} /\ client \in Wallets \union {None}
  /\ connecting \in BOOLEAN /\ walletModal \in BOOLEAN
  /\ inFlight \in BOOLEAN /\ mixed \in BOOLEAN
  /\ cache \in [Wallets -> Wallets \union {None}]
  /\ done \in 0..MaxSends /\ changes \in 0..MaxChanges /\ reviews \in 0..MaxReviews

LEMMA TypeParts == TypeOK <=> PlainOK /\ FlowOK(flow) /\ CallsOK /\ BalanceOK
BY DEF TypeOK, PlainOK, CallsOK, BalanceOK, AnyCall, Loads, Balances

\* A render with a flow, calls and plain variables in their domains.
LEMMA RenderTypes ==
  ASSUME TypeOK, PlainOK', FlowOK(flow)', CallsOK', Render
  PROVE  TypeOK'
<1>1. BalanceOK'
  BY RenderBalanceOK, TypeParts DEF PlainOK
<1> QED BY <1>1 DEF TypeOK, PlainOK, CallsOK, BalanceOK, AnyCall, Loads, Balances

\* A step that leaves the flow and the calls alone and keeps the balance in its domain.
LEMMA BalanceTypes ==
  ASSUME TypeOK, PlainOK', BalanceOK', UNCHANGED <<flow, job>>
  PROVE  TypeOK'
BY DEF TypeOK, PlainOK, CallsOK, BalanceOK, AnyCall, Loads, Balances

LEMMA FailTypes ==
  ASSUME TypeOK, NEW j \in Jobs, Fail(j)
  PROVE  TypeOK'
<1>1. FlowOK(flow)'
  BY FailedOK DEF Fail, TypeOK
<1>2. CallsOK'
  BY CallUpdate, TypeParts DEF Fail, AnyCall
<1>3. PlainOK'
  BY TypeParts DEF Fail, PlainOK, walletVars, counts
<1> QED BY <1>1, <1>2, <1>3, RenderTypes DEF Fail

LEMMA BalanceStepTypes ==
  ASSUME TypeOK,
         ApproveLoad \/ FailLoad \/ ScanBalance \/ \E w \in Wallets : AnswerAbandoned(w)
  PROVE  TypeOK'
<1> USE TypeParts, BoundsAssumption DEF BalanceOK, Loads, Balances, walletVars, counts
<1>1. CASE ApproveLoad
  <2>1. load \in [who : Wallets, place : {"prompt", "scan"}, seen : 0..MaxSends]
    BY <1>1 DEF ApproveLoad, NoLoad
  <2>2. PlainOK'
    BY <1>1, <2>1 DEF ApproveLoad, PlainOK
  <2>3. BalanceOK'
    <3>1. CASE Verified(account, load.who)
      <4>1. load' \in Loads
        BY <1>1, <2>1, <3>1 DEF ApproveLoad, PlainOK
      <4> QED BY <1>1, <3>1, <4>1 DEF ApproveLoad
    <3>2. CASE ~Verified(account, load.who)
      BY <1>1, <3>2 DEF ApproveLoad, Unavailable
    <3> QED BY <3>1, <3>2
  <2> QED BY <1>1, <2>2, <2>3, BalanceTypes DEF ApproveLoad
<1>2. CASE FailLoad
  <2>1. BalanceOK'
    BY <1>2 DEF FailLoad, Unavailable
  <2> QED BY <1>2, <2>1, BalanceTypes DEF FailLoad, PlainOK
<1>3. CASE ScanBalance
  <2>1. load \in [who : Wallets, place : {"prompt", "scan"}, seen : 0..MaxSends]
    BY <1>3 DEF ScanBalance, NoLoad
  <2>2. BalanceOK'
    BY <1>3, <2>1 DEF ScanBalance
  <2> QED BY <1>3, <2>2, BalanceTypes DEF ScanBalance, PlainOK
<1>4. ASSUME NEW w \in Wallets, AnswerAbandoned(w) PROVE TypeOK'
  <2>1. cache' \in [Wallets -> Wallets \union {None}]
    BY <1>4 DEF AnswerAbandoned, PlainOK
  <2>2. PlainOK'
    BY <1>4, <2>1 DEF AnswerAbandoned, PlainOK
  <2>3. BalanceOK'
    BY <1>4 DEF AnswerAbandoned
  <2> QED BY <1>4, <2>2, <2>3, BalanceTypes DEF AnswerAbandoned
<1> QED BY <1>1, <1>2, <1>3, <1>4

WalletStep ==
  \/ OpenWalletModal \/ CloseWalletModal \/ \E w \in Wallets : SelectWallet(w)
  \/ ConnectPendingWallet \/ Connected \/ ConnectionRejected
  \/ DisconnectWallet \/ \E w \in Wallets : SwitchAccount(w)

LEMMA WalletStepFrame ==
  ASSUME WalletStep
  PROVE  /\ UNCHANGED <<cache, client, flow, job, done, reviews, mixed>>
         /\ Render \/ UNCHANGED balanceVars
         /\ Render \/ UNCHANGED account
BY DEF WalletStep, OpenWalletModal, CloseWalletModal, SelectWallet, ConnectPendingWallet,
  Connected, ConnectionRejected, DisconnectWallet, SwitchAccount, flowVars

LEMMA WalletStepTypes == ASSUME TypeOK, WalletStep PROVE TypeOK'
<1> USE TypeParts
<1>1. PlainOK'
  <2>1. changes' \in 0..MaxChanges
    BY BoundsAssumption DEF PlainOK, WalletStep, OpenWalletModal, CloseWalletModal, SelectWallet,
      ConnectPendingWallet, Connected, ConnectionRejected, DisconnectWallet, SwitchAccount
  <2> QED BY <2>1, WalletStepFrame DEF PlainOK, WalletStep, OpenWalletModal, CloseWalletModal,
    SelectWallet, ConnectPendingWallet, Connected, ConnectionRejected, DisconnectWallet, SwitchAccount
<1>2. CASE Render
  BY <1>1, <1>2, WalletStepFrame, RenderTypes DEF CallsOK
<1>3. CASE UNCHANGED balanceVars
  BY <1>1, <1>3, WalletStepFrame, BalanceTypes DEF BalanceOK, balanceVars
<1> QED BY <1>2, <1>3, WalletStepFrame

LEMMA FormStepTypes ==
  ASSUME TypeOK, CancelReview \/ \E form \in Forms : ReviewOperation(form)
  PROVE  TypeOK'
<1> USE TypeParts DEF PlainOK, walletVars, counts
<1>1. CASE CancelReview
  <2>1. PlainOK' /\ CallsOK' /\ Render
    BY <1>1 DEF CancelReview, CallsOK
  <2> QED BY <1>1, <2>1, InitialFlowOK, RenderTypes DEF CancelReview
<1>2. ASSUME NEW form \in Forms, ReviewOperation(form) PROVE TypeOK'
  <2>1. PlainOK' /\ CallsOK' /\ Render
    BY <1>2, BoundsAssumption DEF ReviewOperation, CallsOK
  <2>2. FlowOK(flow)'
    BY <1>2, ReviewedOK DEF ReviewOperation, Drafts
  <2> QED BY <2>1, <2>2, RenderTypes
<1> QED BY <1>1, <1>2

LEMMA StartTypes ==
  ASSUME TypeOK, NEW j \in Jobs, PrepareOperation(j) \/ ExecuteOperation(j)
  PROVE  TypeOK'
<1> USE TypeParts
<1>1. PlainOK' /\ Render
  BY DEF PrepareOperation, ExecuteOperation, PlainOK, walletVars, counts
<1>2. CASE PrepareOperation(j)
  <2>1. FlowOK(flow)'
    BY <1>2, PrepareStartedOK, FailedOK DEF PrepareOperation
  <2>2. CallsOK'
    <3>1. CASE account = None
      BY <1>2, <3>1 DEF PrepareOperation, CallsOK
    <3>2. CASE account # None /\ ~Verified(cache[account], account)
      <4>1. flow.draft \in Drafts /\ account \in Wallets
        BY <1>2, <3>2 DEF PrepareOperation, PrimaryEnabled, FlowOK, PlainOK
      <4> DEFINE call == [kind |-> "prepare", place |-> "prompt", who |-> account,
                          op |-> [draft |-> flow.draft,
                                  identity |-> [wallet |-> account, owner |-> None]]]
      <4>2. call \in AnyCall
        BY <4>1 DEF AnyCall, PromptCalls
      <4>3. job' = [job EXCEPT ![j] = call]
        BY <1>2, <3>2 DEF PrepareOperation
      <4> QED BY <4>2, <4>3, CallUpdate
    <3>3. CASE account # None /\ Verified(cache[account], account)
      <4>1. flow.draft \in Drafts /\ account \in Wallets /\ cache[account] \in Wallets
        BY <1>2, <3>3 DEF PrepareOperation, PrimaryEnabled, FlowOK, PlainOK, Verified
      <4> DEFINE call == [kind |-> "prepare", place |-> "client", who |-> account,
                          op |-> [draft |-> flow.draft,
                                  identity |-> [wallet |-> account, owner |-> cache[account]]]]
      <4>2. call \in AnyCall
        BY <4>1 DEF AnyCall, PrepareCalls, Operations, Identities
      <4>3. job' = [job EXCEPT ![j] = call]
        BY <1>2, <3>3 DEF PrepareOperation
      <4> QED BY <4>2, <4>3, CallUpdate
    <3> QED BY <3>1, <3>2, <3>3
  <2> QED BY <1>1, <2>1, <2>2, RenderTypes
<1>3. CASE ExecuteOperation(j)
  <2>1. FlowOK(flow)'
    BY <1>3, ExecuteStartedOK DEF ExecuteOperation
  <2> DEFINE call == [kind |-> "execute", place |-> "client", who |-> account, op |-> flow.prepared]
  <2>2. call \in AnyCall
    BY <1>3 DEF ExecuteOperation, IsExecutable, FlowOK, PlainOK, AnyCall, ExecuteCalls
  <2>3. job' = [job EXCEPT ![j] = call]
    BY <1>3 DEF ExecuteOperation
  <2> QED BY <1>1, <2>1, <2>2, <2>3, CallUpdate, RenderTypes
<1> QED BY <1>2, <1>3

\* The call of a job that is somewhere, by its place.
LEMMA CallAt ==
  ASSUME CallsOK, NEW j \in Jobs
  PROVE  /\ job[j].place = "prompt" => job[j] \in PromptCalls
         /\ job[j].place = "prepare" => job[j] \in PrepareCalls
         /\ job[j].place \in {"simulate", "sign", "send"} => job[j] \in ExecuteCalls
         /\ job[j].place = "client" => job[j] \in PrepareCalls \union ExecuteCalls
BY DEF CallsOK, AnyCall, Idle, PromptCalls, PrepareCalls, ExecuteCalls

\* A step that moves one call and leaves the flow and the balance alone.
LEMMA MoveTypes ==
  ASSUME TypeOK, PlainOK', NEW j \in Jobs, NEW call \in AnyCall,
         job' = [job EXCEPT ![j] = call], UNCHANGED <<flow, balanceVars>>
  PROVE  TypeOK'
<1>1. CallsOK'
  BY CallUpdate, TypeParts
<1> QED BY <1>1, TypeParts DEF TypeOK, PlainOK, CallsOK, BalanceOK, AnyCall, Loads, Balances, balanceVars

LEMMA CallStepTypes ==
  ASSUME TypeOK, NEW j \in Jobs,
         Work(j) \/ ApproveIdentity(j) \/ SignTransaction(j) \/ UserRejects(j)
  PROVE  TypeOK'
<1> USE TypeParts
<1>1. CASE Fail(j)
  BY <1>1, FailTypes
<1>2. CASE ApproveIdentity(j) /\ ~Fail(j)
  <2> DEFINE call == [job[j] EXCEPT !.place = "client", !.op.identity.owner = account]
  <2>1. job[j] \in PromptCalls /\ account \in Wallets
    BY <1>2, CallAt DEF ApproveIdentity, PlainOK
  <2>2. call \in PrepareCalls
    BY <2>1 DEF PromptCalls, PrepareCalls, Operations, Identities
  <2>3. job' = [job EXCEPT ![j] = call]
    BY <1>2, <2>1 DEF ApproveIdentity, CallsOK
  <2>4. PlainOK' /\ UNCHANGED <<flow, balanceVars>>
    BY <1>2, <2>1 DEF ApproveIdentity, PlainOK, PromptCalls, walletVars, counts
  <2> QED BY <2>2, <2>3, <2>4, MoveTypes DEF AnyCall
<1>3. CASE GetClientForIdentity(j) /\ ~Fail(j)
  <2> DEFINE call == [job[j] EXCEPT !.place = IF job[j].kind = "prepare" THEN "prepare" ELSE "simulate"]
  <2>1. job[j] \in PrepareCalls \union ExecuteCalls
    BY <1>3, CallAt DEF GetClientForIdentity
  <2>2. call \in AnyCall
    BY <2>1 DEF PrepareCalls, ExecuteCalls, AnyCall
  <2>3. job' = [job EXCEPT ![j] = call]
    BY <1>3 DEF GetClientForIdentity, CallsOK
  <2>4. job[j].op.identity.wallet \in Wallets
    BY <2>1 DEF PrepareCalls, ExecuteCalls, Operations, Identities
  <2>5. PlainOK' /\ UNCHANGED <<flow, balanceVars>>
    BY <1>3, <2>4 DEF GetClientForIdentity, PlainOK, walletVars, counts
  <2> QED BY <2>2, <2>3, <2>5, MoveTypes
<1>4. CASE Prepare(j) /\ ~Fail(j)
  <2>1. job[j].op \in Operations
    BY <1>4, CallAt DEF Prepare, PrepareCalls
  <2>2. FlowOK(flow)'
    BY <1>4, <2>1, PrepareSucceededOK DEF Prepare
  <2>3. CallsOK'
    BY <1>4, CallUpdate DEF Prepare, AnyCall
  <2> QED BY <1>4, <2>2, <2>3, RenderTypes DEF Prepare, PlainOK, walletVars, counts
<1>5. CASE SimulateOperation(j)
  <2> DEFINE call == [job[j] EXCEPT !.place = IF IsDeposit(job[j].op.draft) THEN "sign" ELSE "send"]
  <2>1. job[j] \in ExecuteCalls
    BY <1>5, CallAt DEF SimulateOperation
  <2>2. call \in AnyCall
    BY <2>1 DEF ExecuteCalls, AnyCall
  <2>3. job' = [job EXCEPT ![j] = call]
    BY <1>5 DEF SimulateOperation, CallsOK
  <2> QED BY <1>5, <2>2, <2>3, MoveTypes DEF SimulateOperation, PlainOK, walletVars, counts
<1>6. CASE SignTransaction(j) /\ ~Fail(j)
  <2> DEFINE call == [job[j] EXCEPT !.place = "send"]
  <2>1. job[j] \in ExecuteCalls
    BY <1>6, CallAt DEF SignTransaction
  <2>2. call \in AnyCall
    BY <2>1 DEF ExecuteCalls, AnyCall
  <2>3. job' = [job EXCEPT ![j] = call]
    BY <1>6 DEF SignTransaction, CallsOK
  <2> QED BY <1>6, <2>2, <2>3, MoveTypes DEF SignTransaction, PlainOK, walletVars, counts
<1>7. CASE SendOperation(j)
  <2>1. job[j].op \in Operations
    BY <1>7, CallAt DEF SendOperation, ExecuteCalls
  <2>2. done' \in 1..MaxSends
    BY <1>7, BoundsAssumption DEF SendOperation, PlainOK
  <2>3. [op |-> job[j].op, number |-> done'] \in Receipts
    BY <2>1, <2>2 DEF Receipts
  <2>4. FlowOK(flow)'
    BY <1>7, <2>3, ExecuteSucceededOK DEF SendOperation
  <2>5. CallsOK'
    BY <1>7, CallUpdate DEF SendOperation, AnyCall
  <2>6. PlainOK'
    BY <1>7, <2>2, BoundsAssumption DEF SendOperation, PlainOK, walletVars
  <2> QED BY <1>7, <2>4, <2>5, <2>6, RenderTypes DEF SendOperation
<1> QED BY <1>1, <1>2, <1>3, <1>4, <1>5, <1>6, <1>7
  DEF Work, PrepareDeposit, PrepareTransfer, RequestRejects, UserRejects

LEMMA ReloadTypes == ASSUME TypeOK, Reload PROVE TypeOK'
<1>1. FlowOK(flow)'
  BY InitialFlowOK DEF Reload
<1>2. PlainOK'
  BY TypeParts DEF Reload, PlainOK, counts
<1>3. CallsOK'
  BY DEF Reload, CallsOK, AnyCall
<1>4. BalanceOK'
  BY BoundsAssumption DEF Reload, BalanceOK, Loads, Balances
<1> QED BY <1>1, <1>2, <1>3, <1>4 DEF TypeOK, PlainOK, CallsOK, BalanceOK, AnyCall, Loads, Balances

LEMMA TypesStep == TypeOK /\ [Next]_vars => TypeOK'
<1> SUFFICES ASSUME TypeOK, [Next]_vars PROVE TypeOK'
  OBVIOUS
<1>1. CASE UNCHANGED vars
  <2>1. PlainOK' /\ BalanceOK' /\ UNCHANGED <<flow, job>>
    BY <1>1, TypeParts DEF vars, PlainOK, BalanceOK, walletVars, counts, balanceVars
  <2> QED BY <2>1, BalanceTypes
<1>2. CASE Next
  BY <1>2, WalletStepTypes, BalanceStepTypes, FormStepTypes, StartTypes, CallStepTypes, ReloadTypes
  DEF Next, WalletStep
<1> QED BY <1>1, <1>2

\* The reducer keeps draft, prepared operation, receipt and status together, and every
\* variable stays in its domain.
THEOREM TypesHold == Spec => []TypeOK
BY TypesInit, TypesStep, PTL DEF Spec

-----------------------------------------------------------------------------
(* Whose keys.  A call may work with the identity of one wallet on the     *)
(* draft of another until its preparation compares them; what is prepared  *)
(* or executed has passed the comparison.                                  *)

Owned(op) == op.identity.owner = op.draft.signer /\ op.identity.wallet = op.draft.signer

CallOwn(call) ==
  /\ call \in PromptCalls => call.op.identity.wallet = call.who
  /\ call \in PrepareCalls => call.op.identity.owner = call.op.identity.wallet
  /\ call \in ExecuteCalls => Owned(call.op)

CacheOwn == \A w \in Wallets : cache[w] \in {w, None}
CallsOwn == \A j \in Jobs : CallOwn(job[j])
PreparedOwn == flow.prepared # None => Owned(flow.prepared)
OwnInv == TypeOK /\ CacheOwn /\ CallsOwn /\ PreparedOwn

LEMMA OwnUpdate ==
  ASSUME TypeOK, CallsOwn, NEW j \in Jobs, NEW call, CallOwn(call), job' = [job EXCEPT ![j] = call]
  PROVE  CallsOwn'
BY DEF TypeOK, CallsOwn

LEMMA IdleOwn == CallOwn(Idle)
BY DEF CallOwn, Idle, PromptCalls, PrepareCalls, ExecuteCalls

LEMMA FailOwn ==
  ASSUME OwnInv, NEW j \in Jobs, Fail(j)
  PROVE  CacheOwn' /\ CallsOwn' /\ PreparedOwn'
<1>1. CallsOwn'
  BY IdleOwn, OwnUpdate DEF Fail, OwnInv
<1>2. flow'.prepared = flow.prepared
  BY DEF Fail, Failed, OwnInv, TypeOK, FlowOK
<1> QED BY <1>1, <1>2 DEF Fail, OwnInv, CacheOwn, PreparedOwn

LEMMA StartOwn ==
  ASSUME OwnInv, NEW j \in Jobs, PrepareOperation(j) \/ ExecuteOperation(j)
  PROVE  CacheOwn' /\ CallsOwn' /\ PreparedOwn'
<1>1. CacheOwn'
  BY DEF PrepareOperation, ExecuteOperation, OwnInv, CacheOwn
<1>2. CASE PrepareOperation(j)
  <2>1. flow'.prepared = None
    BY <1>2, FailedFields, PrepareStartedOK, PrepareStartedFields
    DEF PrepareOperation, PrimaryEnabled, OwnInv, TypeOK
  <2>2. CallsOwn'
    <3>1. CASE account = None
      BY <1>2, <3>1 DEF PrepareOperation, OwnInv, CallsOwn
    <3>2. CASE account # None
      <4> DEFINE own == Verified(cache[account], account)
                 call == [kind |-> "prepare", place |-> IF own THEN "client" ELSE "prompt",
                          who |-> account,
                          op |-> [draft |-> flow.draft,
                                  identity |-> [wallet |-> account,
                                                owner |-> IF own THEN cache[account] ELSE None]]]
      <4>1. CallOwn(call)
        BY DEF CallOwn, PromptCalls, PrepareCalls, ExecuteCalls, Verified
      <4>2. job' = [job EXCEPT ![j] = call]
        BY <1>2, <3>2 DEF PrepareOperation
      <4> HIDE DEF call
      <4> QED BY <4>1, <4>2, OwnUpdate DEF OwnInv
    <3> QED BY <3>1, <3>2
  <2> QED BY <1>1, <2>1, <2>2 DEF PreparedOwn
<1>3. CASE ExecuteOperation(j)
  <2> DEFINE call == [kind |-> "execute", place |-> "client", who |-> account, op |-> flow.prepared]
  <2>1. CallOwn(call)
    BY <1>3 DEF ExecuteOperation, IsExecutable, OwnInv, PreparedOwn, CallOwn,
      PromptCalls, PrepareCalls, ExecuteCalls
  <2>2. job' = [job EXCEPT ![j] = call]
    BY <1>3 DEF ExecuteOperation
  <2>3. CallsOwn'
    BY <2>1, <2>2, OwnUpdate DEF OwnInv
  <2>4. flow'.prepared = flow.prepared
    BY <1>3 DEF ExecuteOperation, ExecuteStarted, WithDraft, WithPrepared, OwnInv, TypeOK, FlowOK
  <2> QED BY <1>1, <2>3, <2>4 DEF OwnInv, PreparedOwn
<1> QED BY <1>2, <1>3

\* A step of a call that only moves it on.
LEMMA MoveOwn ==
  ASSUME OwnInv, NEW j \in Jobs, NEW call, CallOwn(call), job' = [job EXCEPT ![j] = call],
         UNCHANGED <<cache, flow>>
  PROVE  CacheOwn' /\ CallsOwn' /\ PreparedOwn'
<1>1. CallsOwn'
  BY OwnUpdate DEF OwnInv
<1> QED BY <1>1 DEF OwnInv, CacheOwn, PreparedOwn

LEMMA CallStepOwn ==
  ASSUME OwnInv, NEW j \in Jobs,
         Work(j) \/ ApproveIdentity(j) \/ SignTransaction(j) \/ UserRejects(j)
  PROVE  CacheOwn' /\ CallsOwn' /\ PreparedOwn'
<1> USE TypeParts
<1>0. CallOwn(job[j])
  BY DEF OwnInv, CallsOwn
<1>1. CASE Fail(j)
  BY <1>1, FailOwn
<1>2. CASE ApproveIdentity(j) /\ ~Fail(j)
  <2> DEFINE call == [job[j] EXCEPT !.place = "client", !.op.identity.owner = account]
  <2>1. job[j] \in PromptCalls /\ account = job[j].who
    BY <1>2, CallAt DEF ApproveIdentity, OwnInv, Verified
  <2>2. CallOwn(call)
    BY <1>0, <2>1 DEF CallOwn, PromptCalls, PrepareCalls, ExecuteCalls
  <2>3. job' = [job EXCEPT ![j] = call]
    BY <1>2 DEF ApproveIdentity, OwnInv, CallsOK
  <2>4. CallsOwn'
    BY <2>2, <2>3, OwnUpdate DEF OwnInv
  <2>5. CacheOwn'
    BY <1>2, <2>1 DEF ApproveIdentity, OwnInv, CacheOwn, TypeOK
  <2>6. UNCHANGED flow
    BY <1>2 DEF ApproveIdentity
  <2> QED BY <2>4, <2>5, <2>6 DEF OwnInv, PreparedOwn
<1>3. CASE GetClientForIdentity(j) /\ ~Fail(j)
  <2> DEFINE call == [job[j] EXCEPT !.place = IF job[j].kind = "prepare" THEN "prepare" ELSE "simulate"]
  <2>1. job[j] \in PrepareCalls \union ExecuteCalls
    BY <1>3, CallAt DEF GetClientForIdentity, OwnInv
  <2>2. CallOwn(call)
    BY <1>0, <2>1 DEF CallOwn, PromptCalls, PrepareCalls, ExecuteCalls
  <2>3. job' = [job EXCEPT ![j] = call] /\ UNCHANGED <<cache, flow>>
    BY <1>3 DEF GetClientForIdentity, OwnInv, CallsOK
  <2> QED BY <2>2, <2>3, MoveOwn
<1>4. CASE Prepare(j) /\ ~Fail(j)
  <2>1. job[j] \in PrepareCalls /\ IsSignersIdentity(job[j].op)
    BY <1>4, CallAt DEF Prepare, OwnInv
  <2>2. Owned(job[j].op)
    BY <1>0, <2>1 DEF CallOwn, Owned, IsSignersIdentity
  <2>3. flow'.prepared \in {job[j].op, flow.prepared}
    BY <1>4, <2>1 DEF Prepare, PrepareSucceeded, WithDraft, OwnInv, TypeOK, FlowOK
  <2>4. CallsOwn'
    BY <1>4, <2>1, IdleOwn, OwnUpdate DEF Prepare, OwnInv
  <2> QED BY <1>4, <2>1, <2>2, <2>3, <2>4 DEF Prepare, OwnInv, CacheOwn, PreparedOwn
<1>5. CASE SimulateOperation(j)
  <2> DEFINE call == [job[j] EXCEPT !.place = IF IsDeposit(job[j].op.draft) THEN "sign" ELSE "send"]
  <2>1. job[j] \in ExecuteCalls
    BY <1>5, CallAt DEF SimulateOperation, OwnInv
  <2>2. CallOwn(call)
    BY <1>0, <2>1 DEF CallOwn, PromptCalls, PrepareCalls, ExecuteCalls
  <2>3. job' = [job EXCEPT ![j] = call] /\ UNCHANGED <<cache, flow>>
    BY <1>5 DEF SimulateOperation, OwnInv, CallsOK
  <2> QED BY <2>2, <2>3, MoveOwn
<1>6. CASE SignTransaction(j) /\ ~Fail(j)
  <2> DEFINE call == [job[j] EXCEPT !.place = "send"]
  <2>1. job[j] \in ExecuteCalls
    BY <1>6, CallAt DEF SignTransaction, OwnInv
  <2>2. CallOwn(call)
    BY <1>0, <2>1 DEF CallOwn, PromptCalls, PrepareCalls, ExecuteCalls
  <2>3. job' = [job EXCEPT ![j] = call] /\ UNCHANGED <<cache, flow>>
    BY <1>6 DEF SignTransaction, OwnInv, CallsOK
  <2> QED BY <2>2, <2>3, MoveOwn
<1>7. CASE SendOperation(j)
  <2>1. CallsOwn'
    BY <1>7, IdleOwn, OwnUpdate DEF SendOperation, OwnInv
  <2>2. flow'.prepared = flow.prepared
    BY <1>7 DEF SendOperation, ExecuteSucceeded, WithPrepared, WithDraft, OwnInv, TypeOK, FlowOK
  <2> QED BY <1>7, <2>1, <2>2 DEF SendOperation, OwnInv, CacheOwn, PreparedOwn
<1> QED BY <1>1, <1>2, <1>3, <1>4, <1>5, <1>6, <1>7
  DEF Work, PrepareDeposit, PrepareTransfer, RequestRejects, UserRejects

LEMMA OtherStepOwn ==
  ASSUME OwnInv,
         \/ WalletStep \/ CancelReview \/ \E form \in Forms : ReviewOperation(form)
         \/ ApproveLoad \/ FailLoad \/ ScanBalance \/ \E w \in Wallets : AnswerAbandoned(w)
         \/ Reload
  PROVE  CacheOwn' /\ CallsOwn' /\ PreparedOwn'
<1>1. CallsOwn'
  <2>1. CASE UNCHANGED job
    BY <2>1 DEF OwnInv, CallsOwn
  <2>2. CASE job' = [j \in Jobs |-> Idle]
    BY <2>2, IdleOwn DEF CallsOwn
  <2> QED BY <2>1, <2>2, WalletStepFrame
    DEF CancelReview, ReviewOperation, ApproveLoad, FailLoad, ScanBalance, AnswerAbandoned, Reload
<1>2. PreparedOwn'
  <2>1. flow'.prepared \in {flow.prepared, None}
    <3>1. CASE CancelReview \/ \E form \in Forms : ReviewOperation(form)
      BY <3>1, FormStepFields
    <3>2. CASE Reload
      BY <3>2 DEF Reload, InitialFlow
    <3>3. CASE UNCHANGED flow
      BY <3>3
    <3> QED BY <3>1, <3>2, <3>3, WalletStepFrame DEF ApproveLoad, FailLoad, ScanBalance, AnswerAbandoned
  <2> QED BY <2>1 DEF OwnInv, PreparedOwn
<1>3. CacheOwn'
  <2>1. CASE ApproveLoad
    BY <2>1 DEF ApproveLoad, Verified, OwnInv, CacheOwn, TypeOK
  <2>2. ASSUME NEW w \in Wallets, AnswerAbandoned(w) PROVE CacheOwn'
    BY <2>2 DEF AnswerAbandoned, Verified, OwnInv, CacheOwn, TypeOK
  <2>3. CASE UNCHANGED cache
    BY <2>3 DEF OwnInv, CacheOwn
  <2> QED BY <2>1, <2>2, <2>3, WalletStepFrame
    DEF CancelReview, ReviewOperation, FailLoad, ScanBalance, Reload
<1> QED BY <1>1, <1>2, <1>3

LEMMA OwnHolds == Spec => []OwnInv
<1>1. Init => OwnInv
  BY TypesInit, IdleOwn DEF Init, OwnInv, CacheOwn, CallsOwn, PreparedOwn, InitialFlow
<1>2. OwnInv /\ [Next]_vars => OwnInv'
  <2> SUFFICES ASSUME OwnInv, [Next]_vars PROVE OwnInv'
    OBVIOUS
  <2>1. TypeOK'
    BY TypesStep DEF OwnInv
  <2>2. CASE UNCHANGED vars
    BY <2>1, <2>2 DEF vars, OwnInv, CacheOwn, CallsOwn, PreparedOwn
  <2>3. CASE Next
    <3>1. CacheOwn' /\ CallsOwn' /\ PreparedOwn'
      BY <2>3, StartOwn, CallStepOwn, OtherStepOwn DEF Next, WalletStep
    <3> QED BY <2>1, <3>1 DEF OwnInv
  <2> QED BY <2>2, <2>3
<1> QED BY <1>1, <1>2, PTL DEF Spec

\* Only a wallet's own signature is cached for it or used as its identity, whatever
\* account signs while the prompt is open (verifyPrivacyIdentitySignature).
THEOREM IdentitiesAreOwned == Spec => []IdentityIsOwned
<1>1. OwnInv => IdentityIsOwned
  <2> SUFFICES ASSUME OwnInv, NEW j \in InFlightJobs, job[j].place # "prompt"
               PROVE  job[j].op.identity.owner = job[j].op.identity.wallet
    BY DEF OwnInv, IdentityIsOwned, CacheOwn
  <2>1. j \in Jobs /\ CallOwn(job[j])
    BY DEF OwnInv, CallsOwn, InFlightJobs
  <2>2. job[j] \in PrepareCalls \union ExecuteCalls
    BY DEF OwnInv, TypeOK, InFlightJobs, PromptCalls
  <2> QED BY <2>1, <2>2 DEF CallOwn, Owned
<1> QED BY <1>1, OwnHolds, PTL

\* What can be executed was prepared with the keys of the account that reviewed it
\* (the comparison of prepareTransfer and prepareDeposit).
THEOREM OwnersSend == Spec => []OnlyOwnerSends
<1>1. OwnInv => OnlyOwnerSends
  <2> SUFFICES ASSUME OwnInv PROVE OnlyOwnerSends
    OBVIOUS
  <2>1. ASSUME NEW j \in Executing PROVE Owned(job[j].op)
    <3>1. j \in Jobs /\ CallOwn(job[j])
      BY DEF OwnInv, CallsOwn, Executing, InFlightJobs
    <3>2. job[j] \in ExecuteCalls
      BY DEF OwnInv, TypeOK, Executing, InFlightJobs, PromptCalls, PrepareCalls
    <3> QED BY <3>1, <3>2 DEF CallOwn
  <2> QED BY <2>1 DEF OnlyOwnerSends, OwnInv, PreparedOwn, Owned
<1> QED BY <1>1, OwnHolds, PTL

-----------------------------------------------------------------------------
(* What is signed.  Unless a review began while a call was in flight, at   *)
(* most one call is in flight, the modal is busy with it, and it works on  *)
(* the draft or the operation on display.                                  *)

CallShown(call) ==
  /\ call \in PromptCalls \union PrepareCalls =>
       flow.status = "preparing" /\ call.op.draft = flow.draft
  /\ call \in ExecuteCalls => flow.status = "signing" /\ call.op = flow.prepared

Shown ==
  /\ \A i, j \in InFlightJobs : i = j
  /\ \A j \in Jobs : CallShown(job[j])
  /\ flow.prepared # None => flow.prepared.draft = flow.draft
  /\ flow.receipt # None => flow.receipt.op = flow.prepared

ShownInv == TypeOK /\ (~mixed => Shown)

LEMMA IdleShown == CallShown(Idle) /\ CallShown(Idle)'
BY DEF CallShown, Idle, PromptCalls, PrepareCalls, ExecuteCalls

\* No call is in flight: all that is left of Shown is about the flow.
LEMMA NoCallsShown ==
  ASSUME TypeOK, InFlightJobs = {},
         flow.prepared # None => flow.prepared.draft = flow.draft,
         flow.receipt # None => flow.receipt.op = flow.prepared
  PROVE  Shown
<1>1. \A j \in Jobs : job[j] = Idle
  BY DEF InFlightJobs
<1> QED BY <1>1, IdleShown DEF Shown, InFlightJobs

\* A busy modal has a call, and only a busy one.
LEMMA IdleUnlessBusy ==
  ASSUME TypeOK, Shown, ~IsBusy
  PROVE  InFlightJobs = {}
BY TypeParts DEF Shown, CallShown, IsBusy, InFlightJobs, CallsOK, AnyCall

\* The only call in flight ends.
LEMMA LastCallEnds ==
  ASSUME TypeOK, Shown, NEW j \in Jobs, job[j] # Idle, job' = [job EXCEPT ![j] = Idle]
  PROVE  InFlightJobs' = {}
BY DEF TypeOK, Shown, InFlightJobs

\* The only call in flight moves on.
LEMMA CallMovesShown ==
  ASSUME TypeOK, Shown, NEW j \in Jobs, job[j] # Idle, NEW call, CallShown(call),
         job' = [job EXCEPT ![j] = call], UNCHANGED flow
  PROVE  Shown'
<1>1. InFlightJobs' \subseteq InFlightJobs
  BY DEF TypeOK, InFlightJobs
<1>2. CallShown(call)'
  BY DEF CallShown
<1>3. \A i \in Jobs : CallShown(job[i])'
  BY <1>2 DEF TypeOK, Shown, CallShown
<1> QED BY <1>1, <1>3 DEF Shown

LEMMA FailShown ==
  ASSUME TypeOK, TypeOK', Shown, NEW j \in Jobs, job[j] # Idle, Fail(j)
  PROVE  Shown'
<1>1. InFlightJobs' = {}
  BY LastCallEnds DEF Fail
<1>2. flow'.draft = flow.draft /\ flow'.prepared = flow.prepared /\ flow'.receipt = None
  BY FailedFields DEF Fail, TypeOK
<1>3. /\ flow'.prepared # None => flow'.prepared.draft = flow'.draft
      /\ flow'.receipt # None => flow'.receipt.op = flow'.prepared
  BY <1>2 DEF Shown
<1> QED BY <1>1, <1>3 DEF Shown, InFlightJobs, CallShown, Idle, PromptCalls, PrepareCalls, ExecuteCalls

LEMMA CallStepShown ==
  ASSUME TypeOK, TypeOK', Shown, NEW j \in Jobs,
         Work(j) \/ ApproveIdentity(j) \/ SignTransaction(j) \/ UserRejects(j)
  PROVE  Shown'
<1> USE TypeParts
<1>0. job[j] # Idle /\ CallShown(job[j])
  BY DEF Shown, Work, ApproveIdentity, SignTransaction, UserRejects, RequestRejects, PrepareDeposit,
    PrepareTransfer, GetClientForIdentity, SimulateOperation, SendOperation, Idle, Prompting
<1>1. CASE Fail(j)
  BY <1>0, <1>1, FailShown
<1>2. CASE ApproveIdentity(j) /\ ~Fail(j)
  <2> DEFINE call == [job[j] EXCEPT !.place = "client", !.op.identity.owner = account]
  <2>1. job[j] \in PromptCalls
    BY <1>2, CallAt DEF ApproveIdentity
  <2>2. CallShown(call)
    BY <1>0, <2>1 DEF CallShown, PromptCalls, PrepareCalls, ExecuteCalls
  <2>3. job' = [job EXCEPT ![j] = call] /\ UNCHANGED flow
    BY <1>2 DEF ApproveIdentity, CallsOK
  <2> QED BY <1>0, <2>2, <2>3, CallMovesShown
<1>3. CASE GetClientForIdentity(j) /\ ~Fail(j)
  <2> DEFINE call == [job[j] EXCEPT !.place = IF job[j].kind = "prepare" THEN "prepare" ELSE "simulate"]
  <2>1. job[j] \in PrepareCalls \union ExecuteCalls
    BY <1>3, CallAt DEF GetClientForIdentity
  <2>2. CallShown(call)
    BY <1>0, <2>1 DEF CallShown, PromptCalls, PrepareCalls, ExecuteCalls
  <2>3. job' = [job EXCEPT ![j] = call] /\ UNCHANGED flow
    BY <1>3 DEF GetClientForIdentity, CallsOK
  <2> QED BY <1>0, <2>2, <2>3, CallMovesShown
<1>4. CASE Prepare(j) /\ ~Fail(j)
  <2>1. job[j] \in PrepareCalls
    BY <1>4, CallAt DEF Prepare
  <2>2. flow.draft # None
    BY <1>0, <2>1 DEF CallShown, FlowOK
  <2>3. flow'.draft = flow.draft /\ flow'.prepared = job[j].op /\ flow'.receipt = None
    BY <1>4, <2>2, PrepareSucceededFields DEF Prepare
  <2>4. job[j].op.draft = flow.draft
    BY <1>0, <2>1 DEF CallShown
  <2>5. InFlightJobs' = {}
    BY <1>0, <1>4, LastCallEnds DEF Prepare
  <2> QED BY <2>3, <2>4, <2>5 DEF Shown, InFlightJobs, CallShown, Idle, PromptCalls, PrepareCalls, ExecuteCalls
<1>5. CASE SimulateOperation(j)
  <2> DEFINE call == [job[j] EXCEPT !.place = IF IsDeposit(job[j].op.draft) THEN "sign" ELSE "send"]
  <2>1. job[j] \in ExecuteCalls
    BY <1>5, CallAt DEF SimulateOperation
  <2>2. CallShown(call)
    BY <1>0, <2>1 DEF CallShown, PromptCalls, PrepareCalls, ExecuteCalls
  <2>3. job' = [job EXCEPT ![j] = call] /\ UNCHANGED flow
    BY <1>5 DEF SimulateOperation, CallsOK
  <2> QED BY <1>0, <2>2, <2>3, CallMovesShown
<1>6. CASE SignTransaction(j) /\ ~Fail(j)
  <2> DEFINE call == [job[j] EXCEPT !.place = "send"]
  <2>1. job[j] \in ExecuteCalls
    BY <1>6, CallAt DEF SignTransaction
  <2>2. CallShown(call)
    BY <1>0, <2>1 DEF CallShown, PromptCalls, PrepareCalls, ExecuteCalls
  <2>3. job' = [job EXCEPT ![j] = call] /\ UNCHANGED flow
    BY <1>6 DEF SignTransaction, CallsOK
  <2> QED BY <1>0, <2>2, <2>3, CallMovesShown
<1>7. CASE SendOperation(j)
  <2>1. job[j] \in ExecuteCalls
    BY <1>7, CallAt DEF SendOperation
  <2>2. job[j].op = flow.prepared /\ flow.prepared # None
    BY <1>0, <2>1, NoneAssumption DEF CallShown, ExecuteCalls
  <2>3. /\ flow'.draft = flow.draft /\ flow'.prepared = flow.prepared
        /\ flow'.receipt.op = flow.prepared
    BY <1>7, <2>2, ExecuteSucceededFields DEF SendOperation
  <2>4. InFlightJobs' = {}
    BY <1>0, <1>7, LastCallEnds DEF SendOperation
  <2> QED BY <2>3, <2>4 DEF Shown, InFlightJobs, CallShown, Idle, PromptCalls, PrepareCalls, ExecuteCalls
<1> QED BY <1>1, <1>2, <1>3, <1>4, <1>5, <1>6, <1>7
  DEF Work, PrepareDeposit, PrepareTransfer, RequestRejects, UserRejects

LEMMA StartShown ==
  ASSUME TypeOK, TypeOK', Shown, NEW j \in Jobs, PrepareOperation(j) \/ ExecuteOperation(j)
  PROVE  Shown'
<1> USE TypeParts
<1>0. InFlightJobs = {} /\ flow.draft # None
  BY IdleUnlessBusy DEF PrepareOperation, ExecuteOperation, PrimaryEnabled
<1>1. CASE PrepareOperation(j) /\ account = None
  <2>1. /\ flow'.prepared = None /\ flow'.receipt = None
    BY <1>0, <1>1, PrepareStartedOK, PrepareStartedFields, FailedFields DEF PrepareOperation
  <2>2. InFlightJobs' = {}
    BY <1>0, <1>1 DEF PrepareOperation, InFlightJobs
  <2> QED BY <2>1, <2>2 DEF Shown, InFlightJobs, CallShown, Idle, PromptCalls, PrepareCalls, ExecuteCalls
<1>2. CASE PrepareOperation(j) /\ account # None
  <2>1. /\ flow'.draft = flow.draft /\ flow'.status = "preparing"
        /\ flow'.prepared = None /\ flow'.receipt = None
    BY <1>0, <1>2, PrepareStartedFields DEF PrepareOperation
  <2>2. \A i \in Jobs : i # j => job'[i] = Idle
    BY <1>0, <1>2 DEF PrepareOperation, InFlightJobs, CallsOK
  <2>3. job'[j].kind = "prepare" /\ job'[j].op.draft = flow.draft
    BY <1>2 DEF PrepareOperation, CallsOK
  <2>4. CallShown(job[j])'
    BY <2>1, <2>3 DEF CallShown, ExecuteCalls
  <2>5. \A i \in Jobs : CallShown(job[i])'
    BY <2>2, <2>4, IdleShown DEF CallShown
  <2> QED BY <2>1, <2>2, <2>5 DEF Shown, InFlightJobs
<1>3. CASE ExecuteOperation(j)
  <2>0. flow.prepared # None
    BY <1>3 DEF ExecuteOperation, IsExecutable
  <2>1. /\ flow'.draft = flow.draft /\ flow'.status = "signing"
        /\ flow'.prepared = flow.prepared /\ flow'.receipt = None
    BY <1>3, <2>0, ExecuteStartedFields DEF ExecuteOperation
  <2>2. \A i \in Jobs : i # j => job'[i] = Idle
    BY <1>0, <1>3 DEF ExecuteOperation, InFlightJobs, CallsOK
  <2>3. job'[j].kind = "execute" /\ job'[j].op = flow.prepared
    BY <1>3 DEF ExecuteOperation, CallsOK
  <2>4. CallShown(job[j])'
    BY <2>1, <2>3 DEF CallShown, PromptCalls, PrepareCalls
  <2>5. \A i \in Jobs : CallShown(job[i])'
    BY <2>2, <2>4, IdleShown DEF CallShown
  <2> QED BY <2>1, <2>2, <2>5 DEF Shown, InFlightJobs
<1> QED BY <1>1, <1>2, <1>3

\* A review or a cancellation: mixed says whether a call was in flight.
LEMMA FormStepShown ==
  ASSUME TypeOK, TypeOK', ~mixed',
         CancelReview \/ \E form \in Forms : ReviewOperation(form)
  PROVE  Shown'
<1>1. InFlightJobs' = {}
  BY DEF CancelReview, ReviewOperation, InFlightJobs
<1>2. flow'.prepared = None /\ flow'.receipt = None
  BY FormStepFields
<1> QED BY <1>1, <1>2 DEF Shown, InFlightJobs, CallShown, Idle, PromptCalls, PrepareCalls, ExecuteCalls

LEMMA ShownHolds == Spec => []ShownInv
<1>1. Init => ShownInv
  <2> SUFFICES ASSUME Init PROVE ShownInv
    OBVIOUS
  <2>1. InFlightJobs = {} /\ flow.prepared = None /\ flow.receipt = None
    BY DEF Init, InFlightJobs, InitialFlow
  <2> QED BY <2>1, TypesInit, NoCallsShown DEF ShownInv
<1>2. ShownInv /\ [Next]_vars => ShownInv'
  <2> SUFFICES ASSUME ShownInv, [Next]_vars, ~mixed' PROVE TypeOK' /\ Shown'
    BY TypesStep DEF ShownInv
  <2>1. TypeOK'
    BY TypesStep DEF ShownInv
  <2>2. ASSUME UNCHANGED <<flow, job, mixed>> PROVE Shown'
    BY <2>2 DEF ShownInv, Shown, InFlightJobs, CallShown
  <2>3. ASSUME NEW j \in Jobs,
               Work(j) \/ ApproveIdentity(j) \/ SignTransaction(j) \/ UserRejects(j)
                 \/ PrepareOperation(j) \/ ExecuteOperation(j)
        PROVE  Shown'
    <3>1. UNCHANGED mixed
      BY <2>3 DEF Work, ApproveIdentity, SignTransaction, UserRejects, RequestRejects, PrepareDeposit,
        PrepareTransfer, GetClientForIdentity, SimulateOperation, SendOperation, Prepare, Fail,
        PrepareOperation, ExecuteOperation
    <3> QED BY <2>1, <2>3, <3>1, CallStepShown, StartShown DEF ShownInv
  <2>4. CASE Reload
    <3>1. InFlightJobs' = {} /\ flow'.prepared = None /\ flow'.receipt = None
      BY <2>4 DEF Reload, InFlightJobs, InitialFlow
    <3> QED BY <2>1, <3>1 DEF Shown, InFlightJobs, CallShown, Idle, PromptCalls, PrepareCalls, ExecuteCalls
  <2>5. CASE CancelReview \/ \E form \in Forms : ReviewOperation(form)
    BY <2>1, <2>5, FormStepShown DEF ShownInv
  <2>6. CASE ApproveLoad \/ FailLoad \/ ScanBalance \/ \E w \in Wallets : AnswerAbandoned(w)
    BY <2>1, <2>2, <2>6 DEF ApproveLoad, FailLoad, ScanBalance, AnswerAbandoned
  <2>7. CASE WalletStep
    BY <2>1, <2>2, <2>7, WalletStepFrame
  <2>8. CASE UNCHANGED vars
    BY <2>1, <2>2, <2>8 DEF vars
  <2> QED BY <2>1, <2>3, <2>4, <2>5, <2>6, <2>7, <2>8 DEF Next, WalletStep
<1> QED BY <1>1, <1>2, PTL DEF Spec

\* Without a review during a call, the draft on display is the one that is prepared,
\* executed and paid (the modal that cannot be left while it is busy).
THEOREM ShownIsSigned == Spec => []SignsWhatIsShown
<1>1. ShownInv => SignsWhatIsShown
  <2> SUFFICES ASSUME ShownInv, ~mixed PROVE /\ flow.prepared # None => flow.prepared.draft = flow.draft
                                             /\ \A j \in Executing : job[j].op = flow.prepared
                                             /\ flow.receipt # None => flow.receipt.op = flow.prepared
    BY DEF SignsWhatIsShown
  <2>1. ASSUME NEW j \in Executing PROVE job[j] \in ExecuteCalls
    BY DEF ShownInv, TypeOK, Executing, InFlightJobs, PromptCalls, PrepareCalls
  <2> QED BY <2>1 DEF ShownInv, Shown, CallShown, Executing, InFlightJobs
<1> QED BY <1>1, ShownHolds, PTL

-----------------------------------------------------------------------------
(* The balance.  The load whose result counts is one for the connected     *)
(* account, begun after the payment on display.                            *)

BalanceInv ==
  /\ TypeOK
  /\ load # NoLoad => load.who = account
  /\ account # None /\ balance.status = "ready" => balance.of = account
  /\ flow.receipt # None => flow.receipt.number <= done
  /\ flow.receipt # None /\ load # NoLoad => flow.receipt.number <= load.seen
  /\ account # None /\ balance.status = "ready" /\ flow.receipt # None =>
       flow.receipt.number <= balance.seen

LEMMA RenderKeepsBalance ==
  ASSUME BalanceInv, TypeOK', Render, flow'.receipt # None => flow'.receipt.number <= done'
  PROVE  BalanceInv'
<1>1. CASE account' = account /\ flow'.receipt = flow.receipt
  BY <1>1 DEF BalanceInv, Render, balanceVars
<1>2. CASE RestartLoad
  BY <1>2 DEF BalanceInv, RestartLoad, StartLoad
<1> QED BY <1>1, <1>2 DEF Render

LEMMA BalanceStep == BalanceInv /\ [Next]_vars => BalanceInv'
<1> SUFFICES ASSUME BalanceInv, [Next]_vars PROVE BalanceInv'
  OBVIOUS
<1>0. TypeOK /\ TypeOK'
  BY TypesStep DEF BalanceInv
<1>1. ASSUME UNCHANGED <<account, flow, done, load, balance>> PROVE BalanceInv'
  BY <1>0, <1>1 DEF BalanceInv
<1>2. ASSUME Render, UNCHANGED done, flow'.receipt \in {None, flow.receipt} PROVE BalanceInv'
  BY <1>0, <1>2, RenderKeepsBalance DEF BalanceInv
<1>3. ASSUME NEW j \in Jobs, Fail(j) PROVE BalanceInv'
  <2>1. flow'.receipt = None
    BY <1>0, <1>3, FailedFields DEF Fail, TypeOK
  <2> QED BY <1>2, <1>3, <2>1 DEF Fail, counts
<1>4. ASSUME NEW j \in Jobs, PrepareOperation(j) \/ ExecuteOperation(j) PROVE BalanceInv'
  <2>1. flow'.receipt = None
    BY <1>0, <1>4, PrepareStartedOK, PrepareStartedFields, FailedFields, ExecuteStartedFields
    DEF PrepareOperation, ExecuteOperation, PrimaryEnabled, IsExecutable, TypeOK
  <2> QED BY <1>2, <1>4, <2>1 DEF PrepareOperation, ExecuteOperation, counts
<1>5. ASSUME NEW j \in Jobs, Prepare(j) PROVE BalanceInv'
  <2>1. flow'.receipt \in {None, flow.receipt} \/ Fail(j)
    <3>1. CASE flow.draft = None
      BY <1>5, <3>1 DEF Prepare, PrepareSucceeded, WithDraft
    <3>2. CASE flow.draft # None
      BY <1>0, <1>5, <3>2, PrepareSucceededFields DEF Prepare, TypeOK
    <3> QED BY <3>1, <3>2
  <2> QED BY <1>2, <1>3, <1>5, <2>1 DEF Prepare, counts
<1>6. ASSUME NEW j \in Jobs, SendOperation(j) PROVE BalanceInv'
  <2>1. flow'.receipt \in {flow.receipt, [op |-> job[j].op, number |-> done']}
    BY <1>0, <1>6, ExecuteSucceededFields DEF SendOperation, TypeOK
  <2>2. done' = done + 1 /\ done \in Nat
    BY <1>0, <1>6, BoundsAssumption DEF SendOperation, TypeOK
  <2>3. flow.receipt # None => flow.receipt.number \in Nat
    BY <1>0, BoundsAssumption DEF TypeOK, FlowOK, Receipts
  <2>4. flow'.receipt # None => flow'.receipt.number <= done'
    BY <2>1, <2>2, <2>3 DEF BalanceInv
  <2> QED BY <1>0, <1>6, <2>4, RenderKeepsBalance DEF SendOperation
<1>7. ASSUME NEW j \in Jobs, ApproveIdentity(j) \/ GetClientForIdentity(j) \/ SimulateOperation(j)
                               \/ SignTransaction(j)
      PROVE  BalanceInv'
  BY <1>1, <1>3, <1>7 DEF ApproveIdentity, GetClientForIdentity, SimulateOperation, SignTransaction,
    walletVars, counts, balanceVars
<1>8. CASE CancelReview \/ \E form \in Forms : ReviewOperation(form)
  <2>1. flow'.receipt = None
    BY <1>8, FormStepFields
  <2> QED BY <1>2, <1>8, <2>1 DEF CancelReview, ReviewOperation, counts
<1>9. CASE Reload
  BY <1>0, <1>9 DEF Reload, BalanceInv, InitialFlow
<1>10. CASE ApproveLoad
  <2>1. load # NoLoad /\ load \in [who : Wallets, place : {"prompt", "scan"}, seen : 0..MaxSends]
    BY <1>0, <1>10 DEF ApproveLoad, NoLoad, TypeOK
  <2>2. UNCHANGED <<account, flow, done>>
    BY <1>10 DEF ApproveLoad, walletVars, counts
  <2>3. CASE Verified(account, load.who)
    <3>1. load'.who = load.who /\ load'.seen = done /\ UNCHANGED balance
      BY <1>10, <2>1, <2>3 DEF ApproveLoad
    <3> QED BY <1>0, <2>1, <2>2, <3>1 DEF BalanceInv
  <2>4. CASE ~Verified(account, load.who)
    BY <1>0, <1>10, <2>2, <2>4 DEF ApproveLoad, BalanceInv, Unavailable
  <2> QED BY <2>3, <2>4
<1>11. CASE FailLoad
  BY <1>0, <1>11 DEF FailLoad, BalanceInv, Unavailable, walletVars, counts
<1>12. CASE ScanBalance
  BY <1>0, <1>12 DEF ScanBalance, BalanceInv, NoLoad, walletVars, counts
<1>13. ASSUME NEW w \in Wallets, AnswerAbandoned(w) PROVE BalanceInv'
  BY <1>1, <1>13 DEF AnswerAbandoned, walletVars, counts
<1>14. CASE WalletStep
  <2>1. UNCHANGED <<flow, done>> /\ (Render \/ UNCHANGED <<account, load, balance>>)
    BY <1>14, WalletStepFrame DEF balanceVars
  <2> QED BY <1>1, <1>2, <2>1
<1>15. CASE UNCHANGED vars
  BY <1>1, <1>15 DEF vars, walletVars, counts, balanceVars
<1> QED BY <1>3, <1>4, <1>5, <1>6, <1>7, <1>8, <1>9, <1>10, <1>11, <1>12, <1>13, <1>14, <1>15
  DEF Next, WalletStep, Work, PrepareDeposit, PrepareTransfer, RequestRejects, UserRejects

LEMMA BalanceHolds == Spec => []BalanceInv
<1>1. Init => BalanceInv
  BY TypesInit DEF Init, BalanceInv, InitialFlow, NoLoad
<1> QED BY <1>1, BalanceStep, PTL DEF Spec

\* A ready balance is the connected account's (the cancelled loads of usePrivateBalance).
THEOREM BalancesAreOwn == Spec => []BalanceIsOwn
<1>1. BalanceInv => BalanceIsOwn
  BY DEF BalanceInv, BalanceIsOwn
<1> QED BY <1>1, BalanceHolds, PTL

\* A ready balance was read after the payment whose receipt is on display (refreshKey).
THEOREM BalancesAreFresh == Spec => []BalanceIsFresh
<1>1. BalanceInv => BalanceIsFresh
  <2> SUFFICES ASSUME BalanceInv, account # None, balance.status = "ready", flow.receipt # None
               PROVE  balance.seen >= flow.receipt.number
    BY DEF BalanceIsFresh
  <2>1. balance.seen \in Nat /\ flow.receipt.number \in Nat
    BY BoundsAssumption DEF BalanceInv, TypeOK, FlowOK, Receipts
  <2> QED BY <2>1 DEF BalanceInv
<1> QED BY <1>1, BalanceHolds, PTL
=============================================================================
