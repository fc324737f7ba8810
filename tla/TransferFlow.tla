---------------------------- MODULE TransferFlow ----------------------------
(***************************************************************************)
(* The page of the frontend: the wallet's connection, the privacy identity *)
(* signed by it and cached in the session, the form, the review modal with *)
(* the reducer and the hook behind it, and the private balance.            *)
(*                                                                         *)
(* A job is one call of prepareOperation or executeOperation.  It works on *)
(* what its render captured (the draft or the prepared operation, and the  *)
(* wallet's account), while the user and the wallet go on.                 *)
(***************************************************************************)
EXTENDS Naturals

CONSTANTS
  Wallets,   \* accounts, each in a wallet of its own
  Forms,     \* what the form may hold: mode, amount and recipient
  Deposits,  \* the forms whose mode is "deposit"
  Jobs,      \* numbers of the calls that may run at the same time
  None,
  MaxSends,    \* bounds: on the executions that succeed,
  MaxChanges,  \* on the connections and account changes,
  MaxReviews   \* on the drafts reviewed

ASSUME FormsAssumption == Deposits \subseteq Forms
ASSUME JobsAssumption == Jobs \subseteq Nat
ASSUME BoundsAssumption == {MaxSends, MaxChanges, MaxReviews} \subseteq Nat

VARIABLES
  account,                              \* the connected wallet's public key
  selected, connecting,                 \* the adapter context: active wallet, prompt open
  walletModal, pending, inFlight,       \* useWalletConnection
  cache,                                \* session: who signed the cached identity of a wallet
  client,                               \* clientRef: the wallet of the private client
  flow,                                 \* the state of transferFlowReducer
  job,                                  \* the calls in flight
  done, changes, reviews,               \* counted: executions that have succeeded, connections
                                        \* and account changes, drafts
  mixed,                                \* history: a review began while a call was in flight
  load, balance, abandoned              \* usePrivateBalance: the load whose result counts, its
                                        \* state, cancelled loads that await a signature

walletVars == <<account, selected, connecting, walletModal, pending, inFlight>>
balanceVars == <<load, balance, abandoned>>
counts == <<done, changes, reviews>>
vars == <<walletVars, cache, client, flow, job, counts, mixed, balanceVars>>

Drafts == [form : Forms, signer : Wallets]
Identities == [wallet : Wallets, owner : Wallets]
Operations == [draft : Drafts, identity : Identities]
Receipts == [op : Operations, number : 1..MaxSends]
ASSUME NoneAssumption == None \notin Wallets \union Drafts \union Operations \union Receipts

IsDeposit(draft) == draft.form \in Deposits

Statuses == {"editing", "reviewing", "preparing", "prepared", "signing", "submitted", "failed"}
InitialFlow == [status |-> "editing", draft |-> None, prepared |-> None, receipt |-> None]

Idle == [place |-> "idle"]
NoLoad == [place |-> "none"]

Init ==
  /\ account = None /\ selected = None /\ connecting = FALSE
  /\ walletModal = FALSE /\ pending = None /\ inFlight = FALSE
  /\ cache = [w \in Wallets |-> None]
  /\ client = None
  /\ flow = InitialFlow
  /\ job = [j \in Jobs |-> Idle]
  /\ done = 0 /\ changes = 0 /\ reviews = 0
  /\ mixed = FALSE
  /\ load = NoLoad /\ abandoned = {}
  /\ balance = [status |-> "idle", of |-> None, seen |-> 0]

-----------------------------------------------------------------------------
(* transferFlowReducer: one operator per action type.                      *)

Reviewed(draft) == [InitialFlow EXCEPT !.status = "reviewing", !.draft = draft]

WithDraft(next) == IF flow.draft = None THEN flow ELSE next

PrepareStarted == WithDraft([flow EXCEPT !.status = "preparing", !.prepared = None, !.receipt = None])

\* Mutant: the draft is believed to be there.
DraftBelieved(op) == [flow EXCEPT !.status = "prepared", !.prepared = op, !.receipt = None]

PrepareSucceeded(op) ==
  WithDraft([flow EXCEPT !.status = "prepared", !.prepared = op, !.receipt = None])

WithPrepared(next) == WithDraft(IF flow.prepared = None THEN flow ELSE next)

ExecuteStarted == WithPrepared([flow EXCEPT !.status = "signing", !.receipt = None])

ExecuteSucceeded(receipt) ==
  WithPrepared([flow EXCEPT !.status = "submitted", !.receipt = receipt])

\* Mutant: a failure counts only once something is prepared.
FailedPrepared(state) ==
  IF state.prepared = None THEN state ELSE [state EXCEPT !.status = "failed", !.receipt = None]

\* prepare-failed and execute-failed: the prepared operation is kept.
Failed(state) ==
  IF state.draft = None THEN state ELSE [state EXCEPT !.status = "failed", !.receipt = None]

IsBusy == flow.status \in {"preparing", "signing"}

-----------------------------------------------------------------------------
(* The privacy identity, and the balance whose effect runs when the        *)
(* account or the receipt of the flow changes.                             *)

\* Mutant: the signature is believed.
AnySignature(signature, wallet) == signature # None

\* verifyPrivacyIdentitySignature
Verified(signature, wallet) == signature = wallet

\* What loadBalance does up to its first await: the cached identity or the prompt.
StartLoad(wallet, count) ==
  [who |-> wallet, place |-> IF Verified(cache[wallet], wallet) THEN "scan" ELSE "prompt", seen |-> count]

\* A cancelled load may only answer its prompt and cache the identity.
Abandon == IF load.place = "prompt" THEN abandoned \union {load.who} ELSE abandoned

RestartLoad ==
  /\ abandoned' = Abandon
  /\ load' = IF account' = None THEN NoLoad ELSE StartLoad(account', done')
  /\ balance' = IF account' = None THEN balance ELSE [status |-> "loading", of |-> None, seen |-> 0]

\* Mutant: the effect does not depend on the wallet.
RefreshOnReceipt ==
  IF flow'.receipt = flow.receipt THEN UNCHANGED balanceVars ELSE RestartLoad

\* Mutant: the effect does not depend on the receipt.
RefreshOnWallet ==
  IF account' = account THEN UNCHANGED balanceVars ELSE RestartLoad

\* The effect of usePrivateBalance and its cleanup.  It belongs to the step whose
\* render it follows: the one frame between the two, which still shows the balance
\* before, is not a state of its own.
Render ==
  IF account' = account /\ flow'.receipt = flow.receipt THEN UNCHANGED balanceVars ELSE RestartLoad

Unavailable == [status |-> "unavailable", of |-> None, seen |-> 0]

\* The wallet signs with the account it shows when the user approves.
ApproveLoad ==
  /\ load.place = "prompt" /\ account # None
  /\ IF Verified(account, load.who)
       THEN /\ cache' = [cache EXCEPT ![load.who] = account]
            /\ load' = [load EXCEPT !.place = "scan", !.seen = done]
            /\ UNCHANGED balance
       ELSE load' = NoLoad /\ balance' = Unavailable /\ UNCHANGED cache
  /\ UNCHANGED <<walletVars, client, flow, job, counts, mixed, abandoned>>

\* A rejected prompt, scan or request.
FailLoad ==
  /\ load.place \in {"prompt", "scan"}
  /\ load' = NoLoad /\ balance' = Unavailable
  /\ UNCHANGED <<walletVars, cache, client, flow, job, counts, mixed, abandoned>>

\* scanPrivateBalance: an incremental scan, and a full one if it finds nothing.
ScanBalance ==
  /\ load.place = "scan"
  /\ balance' = [status |-> "ready", of |-> load.who, seen |-> load.seen]
  /\ load' = NoLoad
  /\ UNCHANGED <<walletVars, cache, client, flow, job, counts, mixed, abandoned>>

AnswerAbandoned(w) ==
  /\ w \in abandoned
  /\ abandoned' = abandoned \ {w}
  /\ cache' \in {cache} \union
       {[cache EXCEPT ![w] = s] : s \in {t \in {account} \ {None} : Verified(t, w)}}
  /\ UNCHANGED <<walletVars, client, flow, job, counts, mixed, load, balance>>

-----------------------------------------------------------------------------
(* The wallet's connection.  The connect button exists while no account is *)
(* connected; the state of its hook goes with it.                          *)

flowVars == <<cache, client, flow, job, done, reviews, mixed>>

OpenWalletModal ==
  /\ account = None /\ ~connecting /\ ~walletModal /\ changes < MaxChanges
  /\ walletModal' = TRUE
  /\ UNCHANGED <<account, selected, connecting, pending, inFlight, flowVars, changes, balanceVars>>

CloseWalletModal ==
  /\ walletModal
  /\ walletModal' = FALSE /\ pending' = None
  /\ UNCHANGED <<account, selected, connecting, inFlight, flowVars, changes, balanceVars>>

\* The options of the modal are disabled while a wallet is connecting.
SelectWallet(w) ==
  /\ walletModal /\ ~connecting
  /\ pending' = w /\ selected' = w
  /\ UNCHANGED <<account, connecting, walletModal, inFlight, flowVars, changes, balanceVars>>

ShouldStartWalletConnection ==
  pending # None /\ selected = pending /\ account = None /\ ~connecting

\* From selectWallet itself or from the effect that follows it.
ConnectPendingWallet ==
  /\ walletModal /\ ShouldStartWalletConnection /\ ~inFlight
  /\ inFlight' = TRUE /\ connecting' = TRUE
  /\ UNCHANGED <<account, selected, walletModal, pending, flowVars, changes, balanceVars>>

Connected ==
  /\ connecting
  /\ changes < MaxChanges /\ changes' = changes + 1
  /\ account' = selected
  /\ connecting' = FALSE /\ inFlight' = FALSE /\ pending' = None /\ walletModal' = FALSE
  /\ UNCHANGED <<selected, flowVars>>
  /\ Render

\* Mutant: the request is not marked as over.
StillInFlight ==
  /\ connecting
  /\ connecting' = FALSE /\ pending' = None /\ selected' = None
  /\ UNCHANGED <<account, walletModal, inFlight, flowVars, changes, balanceVars>>

ConnectionRejected ==
  /\ connecting
  /\ connecting' = FALSE /\ inFlight' = FALSE /\ pending' = None /\ selected' = None
  /\ UNCHANGED <<account, walletModal, flowVars, changes, balanceVars>>

DisconnectWallet ==
  /\ account # None
  /\ account' = None /\ selected' = None
  /\ UNCHANGED <<connecting, walletModal, pending, inFlight, flowVars, changes>>
  /\ Render

\* The user chooses another account in the wallet.
SwitchAccount(w) ==
  /\ account \notin {None, w}
  /\ changes < MaxChanges /\ changes' = changes + 1
  /\ account' = w /\ selected' = w
  /\ UNCHANGED <<connecting, walletModal, pending, inFlight, flowVars>>
  /\ Render

-----------------------------------------------------------------------------
(* The form, the modal and the hook.                                       *)

InFlightJobs == {j \in Jobs : job[j] # Idle}

\* The form stays enabled behind the modal.
ReviewOperation(form) ==
  /\ account # None
  /\ reviews < MaxReviews /\ reviews' = reviews + 1
  /\ flow' = Reviewed([form |-> form, signer |-> account])
  /\ mixed' = (InFlightJobs # {})
  /\ UNCHANGED <<walletVars, cache, client, job, done, changes>>
  /\ Render

\* Mutant: Escape closes the modal whatever it is doing.
EscapeAlways ==
  /\ flow.status # "editing"
  /\ flow' = InitialFlow
  /\ UNCHANGED <<walletVars, cache, client, job, counts, mixed>>
  /\ Render

\* The button, the backdrop and the Escape key of the modal.
CancelReview ==
  /\ flow.status # "editing" /\ ~IsBusy
  /\ flow' = InitialFlow
  /\ mixed' = (InFlightJobs # {})
  /\ UNCHANGED <<walletVars, cache, client, job, counts>>
  /\ Render

\* The modal compares the modes only.
IsExecutable ==
  /\ flow.prepared # None /\ flow.status # "submitted"
  /\ IsDeposit(flow.prepared.draft) = IsDeposit(flow.draft)

PrimaryEnabled == flow.draft # None /\ ~IsBusy /\ flow.status # "submitted"

\* A call takes the first number that is free.
IsFree(j) == job[j] = Idle /\ \A i \in Jobs : job[i] = Idle => j <= i

\* The click, up to the first await: the identity of the wallet that is connected.
PrepareOperation(j) ==
  /\ IsFree(j) /\ PrimaryEnabled /\ ~IsExecutable
  /\ IF account = None
       THEN flow' = Failed(PrepareStarted) /\ UNCHANGED job
       ELSE /\ flow' = PrepareStarted
            /\ job' = [job EXCEPT ![j] =
                 [kind |-> "prepare",
                  place |-> IF Verified(cache[account], account) THEN "client" ELSE "prompt",
                  who |-> account,
                  op |-> [draft |-> flow.draft,
                          identity |-> [wallet |-> account,
                                        owner |-> IF Verified(cache[account], account)
                                                  THEN cache[account] ELSE None]]]]
  /\ UNCHANGED <<walletVars, cache, client, counts, mixed>>
  /\ Render

Executing == {j \in InFlightJobs : job[j].kind = "execute"}

ExecuteOperation(j) ==
  /\ IsFree(j) /\ PrimaryEnabled /\ IsExecutable
  /\ flow' = ExecuteStarted
  /\ job' = [job EXCEPT ![j] =
       [kind |-> "execute", place |-> "client", who |-> account, op |-> flow.prepared]]
  /\ UNCHANGED <<walletVars, cache, client, counts, mixed>>
  /\ Render

Fail(j) ==
  /\ flow' = Failed(flow)
  /\ job' = [job EXCEPT ![j] = Idle]
  /\ UNCHANGED <<walletVars, cache, client, counts, mixed>>
  /\ Render

Prompting == {"prompt", "sign"}
RequestRejects(j) == job[j].place \notin Prompting \union {"idle"} /\ Fail(j)
UserRejects(j) == job[j].place \in Prompting /\ Fail(j)

ApproveIdentity(j) ==
  /\ job[j].place = "prompt" /\ account # None
  /\ IF Verified(account, job[j].who)
       THEN /\ cache' = [cache EXCEPT ![job[j].who] = account]
            /\ job' = [job EXCEPT ![j].place = "client", ![j].op.identity.owner = account]
            /\ UNCHANGED <<walletVars, client, flow, counts, mixed, balanceVars>>
       ELSE Fail(j)

\* getClientForIdentity: a client is created only for the wallet that was connected
\* at the click.
GetClientForIdentity(j) ==
  LET wallet == job[j].op.identity.wallet IN
  /\ job[j].place = "client"
  /\ IF client = wallet \/ job[j].who = wallet
       THEN /\ client' = wallet
            /\ job' = [job EXCEPT ![j].place =
                 IF job[j].kind = "prepare" THEN "prepare" ELSE "simulate"]
            /\ UNCHANGED <<walletVars, cache, flow, counts, mixed, balanceVars>>
       ELSE Fail(j)

\* Mutant: the draft's wallet is not compared.
AnyWallet(op) == TRUE

IsSignersIdentity(op) == op.identity.wallet = op.draft.signer

\* prepareDeposit and prepareTransfer read nothing of the page after their start.
Prepare(j) ==
  /\ job[j].place = "prepare"
  /\ IF IsSignersIdentity(job[j].op)
       THEN /\ flow' = PrepareSucceeded(job[j].op)
            /\ job' = [job EXCEPT ![j] = Idle]
            /\ UNCHANGED <<walletVars, cache, client, counts, mixed>>
            /\ Render
       ELSE Fail(j)

PrepareDeposit(j) == job[j] # Idle /\ IsDeposit(job[j].op.draft) /\ Prepare(j)
PrepareTransfer(j) == job[j] # Idle /\ ~IsDeposit(job[j].op.draft) /\ Prepare(j)

\* A deposit is signed by the wallet, a transfer is sent to the relayer.
SimulateOperation(j) ==
  /\ job[j].place = "simulate"
  /\ job' = [job EXCEPT ![j].place = IF IsDeposit(job[j].op.draft) THEN "sign" ELSE "send"]
  /\ UNCHANGED <<walletVars, cache, client, flow, counts, mixed, balanceVars>>

HasRequiredSignature(j) == account = job[j].op.draft.signer

SignTransaction(j) ==
  /\ job[j].place = "sign" /\ account # None
  /\ IF HasRequiredSignature(j)
       THEN /\ job' = [job EXCEPT ![j].place = "send"]
            /\ UNCHANGED <<walletVars, cache, client, flow, counts, mixed, balanceVars>>
       ELSE Fail(j)

\* Sent and confirmed.  Module Submission says what a failure leaves open.
SendOperation(j) ==
  /\ job[j].place = "send" /\ done < MaxSends
  /\ done' = done + 1
  /\ flow' = ExecuteSucceeded([op |-> job[j].op, number |-> done'])
  /\ job' = [job EXCEPT ![j] = Idle]
  /\ UNCHANGED <<walletVars, cache, client, mixed, changes, reviews>>
  /\ Render

\* The page is reloaded: only the session's storage stays.
Reload ==
  /\ account' = None /\ selected' = None /\ connecting' = FALSE
  /\ walletModal' = FALSE /\ pending' = None /\ inFlight' = FALSE
  /\ client' = None /\ flow' = InitialFlow /\ mixed' = FALSE
  /\ job' = [j \in Jobs |-> Idle]
  /\ load' = NoLoad /\ abandoned' = {}
  /\ balance' = [status |-> "idle", of |-> None, seen |-> 0]
  /\ UNCHANGED <<cache, counts>>

-----------------------------------------------------------------------------

Work(j) ==
  \/ GetClientForIdentity(j) \/ PrepareDeposit(j) \/ PrepareTransfer(j)
  \/ SimulateOperation(j) \/ SendOperation(j) \/ RequestRejects(j)

Next ==
  \/ OpenWalletModal \/ CloseWalletModal \/ \E w \in Wallets : SelectWallet(w)
  \/ ConnectPendingWallet \/ Connected \/ ConnectionRejected
  \/ DisconnectWallet \/ \E w \in Wallets : SwitchAccount(w)
  \/ ApproveLoad \/ FailLoad \/ ScanBalance \/ \E w \in Wallets : AnswerAbandoned(w)
  \/ \E form \in Forms : ReviewOperation(form)
  \/ CancelReview
  \/ \E j \in Jobs : \/ PrepareOperation(j) \/ ExecuteOperation(j)
                     \/ ApproveIdentity(j) \/ SignTransaction(j)
                     \/ UserRejects(j) \/ Work(j)
  \/ Reload

Spec == Init /\ [][Next]_vars

\* Requests are answered and timers fire; a prompt may stay open for ever.
Fairness == WF_vars(ConnectPendingWallet) /\ \A j \in Jobs : WF_vars(Work(j))
FairSpec == Spec /\ Fairness

-----------------------------------------------------------------------------
(* Properties                                                              *)

\* What the reducer keeps together: nothing without a draft, a receipt only of a
\* submitted operation.
FlowOK(state) ==
  /\ state \in [status : Statuses, draft : Drafts \union {None},
               prepared : Operations \union {None}, receipt : Receipts \union {None}]
  /\ state.status = "editing" <=> state.draft = None
  /\ state.prepared # None => state.draft # None
  /\ state.receipt # None <=> state.status = "submitted"
  /\ state.status \in {"prepared", "signing", "submitted"} => state.prepared # None

\* A call that waits for the signature of its identity, one that prepares, one that executes.
PromptCalls ==
  [kind : {"prepare"}, place : {"prompt"}, who : Wallets,
   op : [draft : Drafts, identity : [wallet : Wallets, owner : {None}]]]
PrepareCalls ==
  [kind : {"prepare"}, place : {"client", "prepare"}, who : Wallets, op : Operations]
ExecuteCalls ==
  [kind : {"execute"}, place : {"client", "simulate", "sign", "send"},
   who : Wallets \union {None}, op : Operations]

\* The domains: every answer, however late, leaves the reducer's state in one piece.
TypeOK ==
  /\ {account, selected, pending, client} \subseteq Wallets \union {None}
  /\ {connecting, walletModal, inFlight, mixed} \subseteq BOOLEAN
  /\ cache \in [Wallets -> Wallets \union {None}]
  /\ FlowOK(flow)
  /\ job \in [Jobs -> {Idle} \union PromptCalls \union PrepareCalls \union ExecuteCalls]
  /\ done \in 0..MaxSends /\ changes \in 0..MaxChanges /\ reviews \in 0..MaxReviews
  /\ load \in {NoLoad} \union [who : Wallets, place : {"prompt", "scan"}, seen : 0..MaxSends]
  /\ abandoned \subseteq Wallets
  /\ balance \in [status : {"idle", "loading", "unavailable", "ready"},
                  of : Wallets \union {None}, seen : 0..MaxSends]

\* The identity cached for a wallet, and the one a call works with, is signed by
\* that wallet, whichever account the user switches to while the prompt is open.
IdentityIsOwned ==
  /\ \A w \in Wallets : cache[w] \in {w, None}
  /\ \A j \in InFlightJobs : job[j].place # "prompt" =>
       job[j].op.identity.owner = job[j].op.identity.wallet

\* What is executed was prepared with the keys of the wallet that reviewed it.
OnlyOwnerSends ==
  \A op \in {flow.prepared} \union {job[j].op : j \in Executing} :
    op # None => op.identity.owner = op.draft.signer

\* What the modal shows is what has been prepared, is being executed and has been
\* paid, unless the form was submitted again while a call was in flight.
SignsWhatIsShown ==
  ~mixed =>
    /\ flow.prepared # None => flow.prepared.draft = flow.draft
    /\ \A j \in Executing : job[j].op = flow.prepared
    /\ flow.receipt # None => flow.receipt.op = flow.prepared

\* The balance on display is the connected wallet's, once the effects of a render
\* have run.
BalanceIsOwn ==
  account # None /\ balance.status = "ready" => balance.of = account

\* ... and was read after the execution whose receipt is on display.
BalanceIsFresh ==
  account # None /\ balance.status = "ready" /\ flow.receipt # None =>
    balance.seen >= flow.receipt.number

\* The modal does not stay busy, unless a prompt of the wallet stays open.
FlowSettles ==
  IsBusy ~> ~IsBusy \/ \E j \in Jobs : job[j].place \in Prompting

\* A wallet that was chosen gets its prompt, unless the user leaves the modal.
ChoiceIsFollowed == pending # None ~> connecting \/ pending = None
=============================================================================
