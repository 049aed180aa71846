---------------------------- MODULE HttpApiProofs ----------------------------
(***************************************************************************)
(* Theorems about HttpApi: what a client learns of the outcome of a request, *)
(* and which errors become a status 500.                                   *)
(***************************************************************************)
EXTENDS HttpApi, UserServiceProofs

(* Each handler's success is the client's, and no other status is.          *)
LEMMA StatusTells ==
  ASSUME NEW op \in Op
  PROVE  /\ ClientSuccess(op, SuccessStatus(op))
         /\ op \in {"create", "authenticate", "new_reset_token"} => SuccessStatus(op) \in {200, 201}
         /\ op \in {"create", "authenticate", "new_reset_token"} => op # "get"
         /\ ~ClientSuccess(op, NoStatus)
         /\ \A status \in {400, 404, 500} : ~ClientSuccess(op, status)
BY DEF Op, ClientSuccess, SuccessStatus, ExpectedStatus, Execute, Handled, NoStatus

LEMMA ErrorStatuses == \A err : ErrorStatus(err) \in {400, 404, 500}
BY DEF ErrorStatus

(* ClientSeesOutcome in every state: the statuses that the handlers of        *)
(* web.go write and those that the client package expects agree for every   *)
(* operation and every error that service.go can answer.                    *)
THEOREM ClientsSeeOutcomes == Spec => []ClientSeesOutcome
<1>1. ServiceInv => ClientSeesOutcome
  <2>. SUFFICES ASSUME ServiceInv, NEW p \in Proc, Answered(p)
                PROVE  /\ ClientResult(p).ok <=> answer[p].err = "nil"
                       /\ ClientResult(p).ok
                            /\ req[p].op \in {"create", "authenticate", "new_reset_token"}
                            => ClientResult(p).value = answer[p].value
    BY DEF ClientSeesOutcome
  <2>1. req[p].op \in Op
    BY Parts, RequestTypes DEF Answered, RequestOK
  <2>2. ClientResult(p).ok <=> ClientSuccess(req[p].op, Status(p))
    BY DEF ClientResult
  <2>3. CASE answer[p].err = "nil"
    <3>1. Status(p) = SuccessStatus(req[p].op)
      BY <2>3 DEF Status
    <3>2. req[p].op \in {"create", "authenticate", "new_reset_token"} => Body(p) = answer[p].value
      BY <2>1, <3>1, StatusTells DEF Body
    <3>3. ClientSuccess(req[p].op, Status(p))
      BY <2>1, <3>1, StatusTells
    <3> QED
      BY <2>3, <3>2, <3>3 DEF ClientResult
  <2>4. CASE answer[p].err # "nil"
    <3>1. Status(p) \in {NoStatus, 400, 404, 500}
      BY <2>4, ErrorStatuses DEF Status
    <3>2. ~ClientSuccess(req[p].op, Status(p))
      BY <2>1, <3>1, StatusTells
    <3> QED
      BY <2>2, <2>4, <3>2
  <2> QED
    BY <2>3, <2>4
<1> QED
  BY <1>1, ServiceInit, ServiceNext, PTL DEF Spec
-----------------------------------------------------------------------------
(* The errors that the handlers know, and where another one can come from.   *)
KnownErrors == {"nil", "UserNotFound", "EmailAlreadyTaken", "LoginNameAlreadyTaken"} \cup Refusal

Explained(err) == err \in KnownErrors \/ faults > 0

CallExplained(p) == call[p].pc = "done" => Explained(call[p].err)

AnswerExplained(p) == Answered(p) => Explained(answer[p].err)

ErrorsInv == \A p \in Proc : CallExplained(p) /\ AnswerExplained(p)

LEMMA FaultsGrow ==
  ASSUME ServiceInv, [Next]_vars
  PROVE  faults > 0 => faults' > 0
<1>1. faults \in Nat
  BY StorageTypes DEF KVS!TypeInv, KVS!TypeOK
<1>2. faults' \in {faults, faults + 1}
  <2>1. [KVS!Next]_(KVS!vars)
    BY StorageStep
  <2>2. ASSUME NEW q \in Proc, KVS!Invoke(q) PROVE UNCHANGED faults
    BY <2>2 DEF KVS!Invoke, KVS!Save, KVS!Get, KVS!FindBy, KVS!TakeAnswer
  <2>3. ASSUME NEW q \in Proc, KVS!Step(q) PROVE UNCHANGED faults
    BY <2>3 DEF KVS!Step, KVS!CheckTaken, KVS!LookupOld, KVS!RemoveOld, KVS!PutNew, KVS!SetUser,
                KVS!Lookup, KVS!Fetch
  <2>4. ASSUME NEW q \in Proc, KVS!Fail(q) PROVE faults' = faults + 1
    BY <2>4 DEF KVS!Fail, KVS!ReadFails, KVS!WriteFails
  <2>5. CASE KVS!Crash \/ UNCHANGED KVS!vars
    BY <2>5 DEF KVS!Crash, KVS!vars
  <2> QED
    BY <2>1, <2>2, <2>3, <2>4, <2>5 DEF KVS!Next
<1> QED
  BY <1>1, <1>2

(* A step of p that leaves p with errors that are explained.                *)
LEMMA ErrorsStep ==
  ASSUME ErrorsInv, faults > 0 => faults' > 0, NEW p \in Proc,
         \A q \in Proc \ {p} :
           phase'[q] = phase[q] /\ answer'[q] = answer[q] /\ call'[q] = call[q],
         CallExplained(p)', AnswerExplained(p)'
  PROVE  ErrorsInv'
BY DEF ErrorsInv, CallExplained, AnswerExplained, Explained, Answered

LEMMA ReplyError ==
  ASSUME ServiceInv, ErrorsInv, [Next]_vars, NEW p \in Proc, NEW err, NEW user, NEW logged,
         ReplyNow(p, err, user, logged), Explained(err)
  PROVE  ErrorsInv'
<1>. Reply(p, err, user, logged) /\ Store!TakeAnswer(p) /\ LocalTypes
  BY Parts DEF ReplyNow
<1>1. /\ call'[p].pc = "idle" /\ faults' = faults
      /\ \A q \in Proc \ {p} : call'[q] = call[q]
  BY AnswerEffect DEF KVS!Idle
<1>2. answer'[p].err = err
  BY DEF Reply, LocalTypes, AnswerTo, Answer
<1>3. \A q \in Proc \ {p} : phase'[q] = phase[q] /\ answer'[q] = answer[q]
  BY DEF Reply, LocalTypes
<1>4. CallExplained(p)' /\ AnswerExplained(p)'
  BY <1>1, <1>2 DEF CallExplained, AnswerExplained, Explained
<1> QED
  BY <1>1, <1>3, <1>4, ErrorsStep

LEMMA ContinueErrors ==
  ASSUME ServiceInv, ErrorsInv, [Next]_vars, NEW p \in Proc, Continue(p)
  PROVE  ErrorsInv'
<1>. LocalTypes
  BY Parts
<1>1. ASSUME NEW user \in User, SaveAs(p, user) PROVE ErrorsInv'
  <2>1. /\ call'[p].pc = "check" /\ faults' = faults
        /\ \A q \in Proc \ {p} : call'[q] = call[q]
    BY <1>1, SaveEffect
  <2>2. phase'[p] = "save" /\ \A q \in Proc \ {p} : phase'[q] = phase[q] /\ answer'[q] = answer[q]
    BY <1>1 DEF SaveAs, LocalTypes
  <2>3. CallExplained(p)' /\ AnswerExplained(p)'
    BY <2>1, <2>2 DEF CallExplained, AnswerExplained, Answered
  <2> QED
    BY <2>1, <2>2, <2>3, ErrorsStep
<1>2. CASE SavesNew(p) \/ SavesChange(p) \/ SavesToken(p)
  BY <1>1, <1>2, RequestFacts, NewRecord DEF SavesNew, SavesChange, SavesToken, Numbering
<1>3. CASE Refuses(p)
  <2>1. PICK err \in Refusal \cup {call[p].err} :
          Loaded(p) /\ ReplyNow(p, err, NoUser, <<>>)
    BY <1>3 DEF Refuses
  <2>2. Explained(err)
    BY <2>1 DEF ErrorsInv, CallExplained, Explained, KnownErrors, Loaded
  <2> QED
    BY <2>1, <2>2, ReplyError
<1>4. CASE AnswersFound(p)
  <2>1. Explained("nil")
    BY DEF Explained, KnownErrors
  <2> QED
    BY <1>4, <2>1, ReplyError DEF AnswersFound
<1>5. CASE Finish(p)
  <2>1. call[p].pc = "done" /\ ReplyNow(p, SaveError(p), working[p], SaveEvents(p))
    BY <1>5 DEF Finish, Saved
  <2>2. Explained(SaveError(p))
    BY <2>1 DEF ErrorsInv, CallExplained, Explained, KnownErrors, SaveError
  <2> QED
    BY <2>1, <2>2, ReplyError
<1> QED
  BY <1>2, <1>3, <1>4, <1>5, ContinueCases

LEMMA StoreErrors ==
  ASSUME ServiceInv, ErrorsInv, [Next]_vars, NEW p \in Proc, StoreStep(p) \/ StoreFails(p)
  PROVE  ErrorsInv'
<1>. /\ UNCHANGED local /\ KVS!TypeInv /\ (KVS!Step(p) \/ KVS!Fail(p))
     /\ \A q \in Proc \ {p} : call'[q] = call[q]
  BY StoreEffect, StorageTypes
<1>1. faults \in Nat /\ (faults > 0 => faults' > 0)
  BY FaultsGrow DEF KVS!TypeInv, KVS!TypeOK
<1>2. faults' = faults + 1 => faults' > 0
  BY <1>1
<1>3. CallExplained(p)'
  <2>1. CASE KVS!Saving(p)
    <3>. SUFFICES ASSUME call'[p].pc = "done" PROVE Explained(call[p].err)'
      BY DEF CallExplained
    <3>1. \/ call'[p].err \in {"nil", "EmailAlreadyTaken", "LoginNameAlreadyTaken"}
          \/ faults' = faults + 1
      BY <2>1, KVS!SaveAnswers, StorageAssumptions
    <3> QED
      BY <1>2, <3>1 DEF Explained, KnownErrors
  <2>2. CASE ~KVS!Saving(p)
    <3>1. \/ call'[p].pc = "fetch"
          \/ call'[p].pc = "done" /\ call'[p].err \in {"nil", "UserNotFound"}
          \/ faults' = faults + 1
      BY <2>2, KVS!FindMoves, StorageAssumptions
    <3> QED
      BY <1>2, <3>1 DEF CallExplained, Explained, KnownErrors
  <2> QED
    BY <2>1, <2>2
<1>4. AnswerExplained(p)'
  BY StoreEffect DEF AnswerExplained, Answered, local
<1> QED
  BY <1>1, <1>3, <1>4, ErrorsStep DEF local

LEMMA ArriveErrors ==
  ASSUME ServiceInv, ErrorsInv, [Next]_vars, NEW p \in Proc, Arrive(p)
  PROVE  ErrorsInv'
<1>. LocalTypes
  BY Parts
<1>1. PICK r \in Request : RefuseArguments(p, r) \/ BeginCreate(p, r) \/ Load(p, r)
  BY DEF Arrive
<1>2. \A q \in Proc \ {p} : phase'[q] = phase[q] /\ answer'[q] = answer[q] /\ call'[q] = call[q]
  BY <1>1, LoadEffect DEF RefuseArguments, BeginCreate, Load, Begin, LocalTypes, storage
<1>3. CallExplained(p)'
  <2>1. CASE Load(p, r)
    BY <2>1, LoadEffect DEF CallExplained
  <2>2. CASE RefuseArguments(p, r) \/ BeginCreate(p, r)
    BY <2>2 DEF RefuseArguments, BeginCreate, storage, ErrorsInv, CallExplained, Explained
  <2> QED
    BY <1>1, <2>1, <2>2
<1>4. AnswerExplained(p)'
  <2>1. CASE RefuseArguments(p, r)
    BY <2>1 DEF RefuseArguments, LocalTypes, Answer, AnswerExplained, Explained, KnownErrors, Refusal
  <2>2. CASE BeginCreate(p, r) \/ Load(p, r)
    BY <2>2 DEF BeginCreate, Load, Begin, LocalTypes, AnswerExplained, Answered
  <2> QED
    BY <1>1, <2>1, <2>2
<1> QED
  BY <1>2, <1>3, <1>4, FaultsGrow, ErrorsStep

LEMMA ErrorsNext == ServiceInv /\ ErrorsInv /\ [Next]_vars => ErrorsInv'
<1>. SUFFICES ASSUME ServiceInv, ErrorsInv, [Next]_vars PROVE ErrorsInv'
  OBVIOUS
<1>1. CASE Tick \/ UNCHANGED vars \/ \E p \in Proc : CountStep(p)
  <2>1. UNCHANGED <<call, faults, phase, answer>>
    BY <1>1 DEF Tick, CountStep, vars, storage, local
  <2> QED
    BY <2>1 DEF ErrorsInv, CallExplained, AnswerExplained, Explained, Answered
<1>2. CASE Crash
  <2>1. \A p \in Proc : call'[p].pc = "idle" /\ phase'[p] = "idle"
    BY <1>2, SameCrash DEF Crash, KVS!Crash, KVS!Idle
  <2> QED
    BY <2>1 DEF ErrorsInv, CallExplained, AnswerExplained, Answered
<1> QED
  BY <1>1, <1>2, ArriveErrors, ContinueErrors, StoreErrors DEF Next

(* InternalErrorsAreStorageErrors in every state: service.go and the masking  *)
(* of errors in keyvalue.go let no error reach handleProcessingError that it *)
(* does not know, unless a driver call failed before.                       *)
THEOREM InternalErrorsExplained == Spec => []InternalErrorsAreStorageErrors
<1>1. Init => ServiceInv /\ ErrorsInv
  <2>. SUFFICES ASSUME Init PROVE ErrorsInv
    BY ServiceInit
  <2>1. \A p \in Proc : call[p].pc = "idle" /\ phase[p] = "idle"
    BY SameInit DEF Init, KVS!Init, KVS!Idle
  <2> QED
    BY <2>1 DEF ErrorsInv, CallExplained, AnswerExplained, Answered
<1>2. ErrorsInv => InternalErrorsAreStorageErrors
  <2>. SUFFICES ASSUME ErrorsInv, NEW p \in Proc, Answered(p), Status(p) = 500
                PROVE  faults > 0
    BY DEF InternalErrorsAreStorageErrors
  <2>1. Explained(answer[p].err)
    BY DEF ErrorsInv, AnswerExplained
  <2>2. answer[p].err \notin KnownErrors
    BY DEF Status, SuccessStatus, NoStatus, ErrorStatus, ServiceErrors, KnownErrors, Refusal
  <2> QED
    BY <2>1, <2>2 DEF Explained
<1> QED
  BY <1>1, <1>2, ErrorsNext, ServiceNext, PTL DEF Spec
=============================================================================
