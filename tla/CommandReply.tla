---------------------------- MODULE CommandReply ----------------------------
(***************************************************************************)
(* What a caller of a printer command is promised, without the machinery   *)
(* that keeps the promise: a command is issued once, the printer may       *)
(* answer it any number of times or never, and the call completes exactly  *)
(* once, either with one of the answers the printer gave to this very      *)
(* command or with one of the failures the caller can tell apart.          *)
(*                                                                         *)
(* CC2Requests implements this specification.                              *)
(***************************************************************************)
CONSTANTS
    Calls,      \* the calls of _send_command, each made once
    Codes,      \* the error codes an answer can carry
    NoCall      \* not a call

VARIABLES
    phase,      \* phase[c]: how far call c has come
    answered,   \* answered[c]: the codes the printer has answered c with
    outcome     \* outcome[c]: what the call returned or raised

vars == <<phase, answered, outcome>>

Answer(c, code) == [call |-> c, code |-> code]

\* A call that is released without an answer returns Python's None; the other
\* two are the exceptions ElegooPrinterTimeoutError and
\* ElegooPrinterConnectionError.
Failure(f) == [call |-> NoCall, code |-> f]
Failures == {Failure(f) : f \in {"none", "timeout", "connection_error"}}

Init ==
    /\ phase = [c \in Calls |-> "idle"]
    /\ answered = [c \in Calls |-> {}]
    /\ outcome = [c \in Calls |-> Failure("pending")]

Issue(c) ==
    /\ phase[c] = "idle"
    /\ phase' = [phase EXCEPT ![c] = "open"]
    /\ UNCHANGED <<answered, outcome>>

PrinterAnswers(c, code) ==
    /\ phase[c] # "idle"
    /\ answered' = [answered EXCEPT ![c] = @ \union {code}]
    /\ UNCHANGED <<phase, outcome>>

Complete(c) ==
    /\ phase[c] = "open"
    /\ phase' = [phase EXCEPT ![c] = "done"]
    /\ \E o \in {Answer(c, code) : code \in answered[c]} \union Failures :
          outcome' = [outcome EXCEPT ![c] = o]
    /\ UNCHANGED answered

Next ==
    \E c \in Calls :
        \/ Issue(c)
        \/ \E code \in Codes : PrinterAnswers(c, code)
        \/ Complete(c)

Spec == Init /\ [][Next]_vars
=============================================================================
