----------------------------- MODULE MCSecurity -----------------------------
(***************************************************************************)
(* AuthLog and SecurityPage, with one load of a viewer at a time, and with *)
(* two clicks, the three services of the code and a text of four parts     *)
(* that is no address.                                                     *)
(*                                                                         *)
(* The two share no variable and no property is about both, so that their  *)
(* interleavings would show nothing that one of them alone does not: a     *)
(* behaviour is one of the one or of the other.                            *)
(***************************************************************************)
EXTENDS AuthLog, SecurityPage

CONSTANTS l1, k1, k2

MCTexts == {"home", "1.2.3.x"}
MCFourPart == {"home", "mock", "1.2.3.x"}
MCAddresses == {"home", "mock"}

VARIABLE part   \* the component that is run

allVars == <<part, logVars, vars>>

EitherInit ==
  /\ LogInit
  /\ Init
  /\ part \in {"log", "allowlist"}

EitherNext ==
  /\ UNCHANGED part
  /\ \/ part = "log" /\ LogNext /\ UNCHANGED vars
     \/ part = "allowlist" /\ Next /\ UNCHANGED logVars

EitherSpec == EitherInit /\ [][EitherNext]_allVars
=============================================================================
