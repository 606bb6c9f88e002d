---------------------------- MODULE RequestReply ----------------------------
(***************************************************************************)
(* What the sample server promises its clients, whatever its parts: of the *)
(* requests that are kept each is answered once and in order, with the     *)
(* answer that belongs to it, or passed over; passing over, and giving up, *)
(* need a reason in the request or in the configuration.                   *)
(*                                                                         *)
(* RadiusServer is the program; RadiusServer!Service is its view as this   *)
(* specification.                                                          *)
(***************************************************************************)
EXTENDS Naturals, Sequences

CONSTANTS
    Requests,           \* what clients send
    AnswersTo(_, _),    \* the answers a configuration allows to a request
    MayNotStart(_),     \* configurations that need not work at all
    MayPassOver(_, _),  \* requests that need no answer under a configuration
    MayGiveUp(_, _)     \* requests that may end the service

VARIABLES
    config,     \* how the server is configured
    kept,       \* requests that wait, oldest first
    owed,       \* <<>>, or <<the answer that goes out next>>
    answers,    \* all answers sent
    over        \* the service has ended

vars == <<config, kept, owed, answers, over>>

Init == kept = <<>> /\ owed = <<>> /\ answers = <<>> /\ over = FALSE

Keep ==
    /\ ~over
    /\ \E r \in Requests : kept' = Append(kept, r)
    /\ UNCHANGED <<config, owed, answers, over>>

(* The oldest request leaves the queue, in one of three ways. *)
Settle == ~over /\ kept # <<>> /\ owed = <<>> /\ kept' = Tail(kept)

Answer ==
    /\ Settle
    /\ \E a \in AnswersTo(config, Head(kept)) : owed' = <<a>>
    /\ UNCHANGED <<config, answers, over>>

PassOver ==
    /\ Settle
    /\ MayPassOver(config, Head(kept))
    /\ UNCHANGED <<config, owed, answers, over>>

GiveUp ==
    /\ Settle
    /\ MayGiveUp(config, Head(kept))
    /\ over' = TRUE
    /\ UNCHANGED <<config, owed, answers>>

NotStart ==
    /\ ~over /\ MayNotStart(config) /\ answers = <<>> /\ owed = <<>>
    /\ over' = TRUE
    /\ UNCHANGED <<config, kept, owed, answers>>

(* The answer is sent; the kernel may refuse it. *)
Send ==
    /\ ~over /\ owed # <<>>
    /\ owed' = <<>>
    /\ answers' \in {answers, Append(answers, Head(owed))}
    /\ UNCHANGED <<config, kept, over>>

Next == Keep \/ Answer \/ PassOver \/ GiveUp \/ NotStart \/ Send

Spec == Init /\ [][Next]_vars

(* Every request is settled and every answer that is owed is sent. *)
FairSpec == Spec /\ WF_kept(Settle) /\ WF_vars(Send)

=============================================================================
