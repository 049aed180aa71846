------------------------------ MODULE IdFactory ------------------------------
(***************************************************************************)
(* service/idfactory: where user ids and reset tokens come from.  "uuid"    *)
(* never repeats itself.  "seq" formats a counter that concurrent requests  *)
(* increment without a lock and that starts at 0 with every process; the   *)
(* number of an id and the number of a token are drawn from the same one.  *)
(*                                                                         *)
(* Sequence++ loads the counter and stores it, and the format then reads it *)
(* again or uses what was stored, as the compiler likes: with two requests  *)
(* at it this is a data race.                                              *)
(***************************************************************************)
EXTENDS Naturals, Sequences

CONSTANTS Proc, UserID, Token,
          Factory,   \* which factory --idfactory selects
          IdOf,      \* the id, and the token, that "seq" formats number n to; their
          TokenOf    \* length bounds the counter

VARIABLES ids,        \* the user ids given so far, by earlier runs too
          tokens,     \* the reset tokens given so far, by earlier runs too
          sequence,   \* sequenceFactory.Sequence
          draw        \* how far the Sequence++ of each goroutine is

vars == <<ids, tokens, sequence, draw>>

NoDraw == [step |-> "none", number |-> 0]

Draw == [step : {"none", "loaded", "stored"}, number : 0..Len(IdOf)]

LoadSequence(p) ==
  /\ Factory = "seq" /\ draw[p].step = "none"
  /\ sequence < Len(IdOf)
  /\ draw' = [draw EXCEPT ![p] = [step |-> "loaded", number |-> sequence]]
  /\ UNCHANGED <<ids, tokens, sequence>>

StoreSequence(p) ==
  /\ draw[p].step = "loaded"
  /\ sequence' = draw[p].number + 1
  /\ draw' = [draw EXCEPT ![p] = [step |-> "stored", number |-> sequence']]
  /\ UNCHANGED <<ids, tokens>>

(* The numbers that the goroutine may now format.                           *)
Drawn(p) == IF draw[p].step = "stored" THEN {draw[p].number, sequence} ELSE {}

(* What NewUserID and NewResetPasswordToken may give p in this state.       *)
NewUserIDs(p) ==
  IF Factory = "uuid" THEN UserID \ ids ELSE {IdOf[n] : n \in Drawn(p)}

(* A mutant: tokens repeat.                                                 *)
AnyTokens(p) == Token

NewTokens(p) ==
  IF Factory = "uuid" THEN Token \ tokens ELSE {TokenOf[n] : n \in Drawn(p)}

Give(p) == draw' = [draw EXCEPT ![p] = NoDraw] /\ UNCHANGED sequence

GiveUserID(p, id) ==
  id \in NewUserIDs(p) /\ ids' = ids \cup {id} /\ Give(p) /\ UNCHANGED tokens

GiveToken(p, token) ==
  token \in NewTokens(p) /\ tokens' = tokens \cup {token} /\ Give(p) /\ UNCHANGED ids

(* A new process has a new factory.                                         *)
Restart ==
  /\ sequence' = 0
  /\ draw' = [p \in Proc |-> NoDraw]
  /\ UNCHANGED <<ids, tokens>>

Init ==
  /\ sequence = 0
  /\ draw = [p \in Proc |-> NoDraw]
=============================================================================
