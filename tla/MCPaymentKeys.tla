--------------------------- MODULE MCPaymentKeys ---------------------------
(***************************************************************************)
(* Instances of PaymentKeys for TLC: three callers, of which two can wait  *)
(* for the retrieval of the third.                                         *)
(***************************************************************************)
EXTENDS PaymentKeys

=============================================================================
