------------------------------- MODULE HttpApi -------------------------------
(***************************************************************************)
(* middlewares/v1/web.go and client: how the answer of UserService becomes  *)
(* an HTTP status, and what the client package makes of the status.  A      *)
(* handler has no state of its own; the status of a request is a function   *)
(* of its answer.                                                           *)
(***************************************************************************)
EXTENDS UserService

(* A mutant: the handlers answer with the statuses of API_v1.md.            *)
StatusAsInDocument(op) ==
  IF op \in {"create", "get", "new_reset_token"} THEN 200 ELSE 204

(* The handlers' success paths.                                             *)
SuccessStatus(op) ==
  CASE op = "create" -> 201
    [] op \in {"get", "authenticate", "new_reset_token"} -> 200
    [] OTHER -> 204

ServiceErrors == {"ResetPasswordTokenExpired", "InvalidArguments", "InvalidCredentials",
                  "InvalidVerificationEmail"}

(* A mutant: a taken email is not known to the handlers.                    *)
ErrorStatusTaken(err) ==
  CASE err = "UserNotFound" -> 404
    [] err \in {"LoginNameAlreadyTaken", "UserEmailMustBeVerified"} \cup ServiceErrors -> 400
    [] OTHER -> 500

(* handleProcessingError: what it does not know is an internal error.       *)
ErrorStatus(err) ==
  CASE err = "UserNotFound" -> 404
    [] err \in {"EmailAlreadyTaken", "LoginNameAlreadyTaken"} \cup ServiceErrors -> 400
    [] err = "UserEmailMustBeVerified" -> 400
    [] OTHER -> 500

(* net/http closes the connection of a handler that panics, with no status. *)
NoStatus == 0

Status(p) ==
  CASE answer[p].err = "nil"   -> SuccessStatus(req[p].op)
    [] answer[p].err = "panic" -> NoStatus
    [] OTHER                   -> ErrorStatus(answer[p].err)

(* writeUser leaves the id, the password hash and the reset token out.      *)
Shown(user) ==
  [profile |-> user.data.profile, email |-> user.email, login |-> user.login,
   verified |-> user.data.verified]

Body(p) ==
  CASE Status(p) \notin {200, 201} -> Empty
    [] req[p].op = "get"           -> Shown(answer[p].value)
    [] OTHER                       -> answer[p].value
-----------------------------------------------------------------------------
(* getAndExpect and postFormAndExpectAndReturnBodyString know one status.    *)
ExpectedStatus(op) == IF op = "create" THEN 201 ELSE 200

(* The other calls go through Execute, which looks for a handler of the      *)
(* status among the methods of the call; ResponseBadRequest makes an error.  *)
Handled(op) ==
  CASE op = "authenticate"    -> {200, 400}
    [] op = "new_reset_token" -> {200}
    [] OTHER                  -> {204}

Execute(op, status) == status \in Handled(op) /\ status # 400

ClientSuccess(op, status) ==
  IF op \in {"create", "get"} THEN status = ExpectedStatus(op) ELSE Execute(op, status)

(* What the call returns; any other status, or none, is an error.           *)
ClientResult(p) ==
  IF ClientSuccess(req[p].op, Status(p)) THEN [ok |-> TRUE, value |-> Body(p)]
                                         ELSE [ok |-> FALSE, value |-> Empty]
-----------------------------------------------------------------------------
Answered(p) == phase[p] = "answered"

(* The client package tells its caller of a success exactly when the service *)
(* succeeded, and hands over the id or token that the service made, for     *)
(* every operation and every error of the service and the storage.          *)
ClientSeesOutcome ==
  \A p \in Proc : Answered(p) =>
    /\ ClientResult(p).ok <=> answer[p].err = "nil"
    /\ ClientResult(p).ok /\ req[p].op \in {"create", "authenticate", "new_reset_token"}
         => ClientResult(p).value = answer[p].value

(* Status 500 means that a storage driver failed: no interleaving of        *)
(* requests makes the service answer an error that the handlers do not      *)
(* know.                                                                    *)
InternalErrorsAreStorageErrors ==
  \A p \in Proc : Answered(p) /\ Status(p) = 500 => faults > 0
=============================================================================
