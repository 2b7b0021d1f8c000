----------------------------- MODULE BuyerCheck -----------------------------
(***************************************************************************)
(* verify.sh, the buyer's script, beside the run it looks at: it fetches   *)
(* the public key and the decision receipt of the run as they are at that  *)
(* moment, decides on the receipt's `mocked` flag, and reports signature   *)
(* and kernel without deciding on them.                                    *)
(*                                                                         *)
(* Abstractions: the payload hash of step 3 is printed whatever it is and  *)
(* left out; the DSSE envelope of a receipt is one of its four cases.      *)
(***************************************************************************)
EXTENDS VerifyChain

CONSTANT Unknown    \* the "unknown" jq falls back on

VARIABLES
    step,        \* the step of the script that comes next, then how it exits
    key,         \* where the public key came from
    receipt,     \* RECEIPT_JSON
    signature,   \* SIG_RESULT
    lean         \* LEAN_STATUS

\* A signature that verifies, one that does not, an envelope without a payload,
\* and no signature.
SigResults == {"VERIFIED", "SIG_PLACEHOLDER", "SIG_INLINE", "PLACEHOLDER_HONEST"}

scriptVars == <<step, key, receipt, signature, lean>>
vars == <<chainVars, scriptVars>>

TypeOK ==
    /\ ChainTypeOK
    /\ step \in {"key", "receipt", "mocked", "dsse", "lean", "summary", "VERIFIED", "failed"}
    /\ key \in {"none", "szl-lake", "github"}
    /\ receipt \in LastReceipt \cup {Invalid, Missing}
    /\ signature \in {"none"} \cup SigResults
    /\ lean \in {"unknown", "ok", "unreachable"}

Init ==
    /\ ChainInit
    /\ step = "key" /\ key = "none" /\ receipt = Missing
    /\ signature = "none" /\ lean = "unknown"

-----------------------------------------------------------------------------

\* jq's `a // b`: a, unless a is false or null (here Missing), else b.
Alternative(a, b) == IF a = FALSE \/ a = Missing THEN b ELSE a

\* Mutant: any flag that is there passes.
FlagPresent(r) == r.mocked # Invalid

\* jq -r '.mocked // .last_receipt.mocked // "unknown"', and whether it prints
\* "false"; a receipt of this run has no `mocked` outside last_receipt.
Mocked(r) == Alternative(Missing, Alternative(r.mocked, Unknown))
PrintsFalse(r) == Mocked(r) \in {FALSE, QuotedFalse}

\* The public key comes from szl-lake, or from .github, or the script ends.
FetchKey ==
    /\ step = "key"
    /\ key' \in {"none", "szl-lake", "github"}
    /\ step' = IF key' = "none" THEN "failed" ELSE "receipt"
    /\ UNCHANGED <<chainVars, receipt, signature, lean>>

\* The receipt as it is published now, when there is one and it can be fetched.
FetchReceipt ==
    /\ step = "receipt"
    /\ \/ /\ published # NotPublished /\ last # Missing
          /\ receipt' = last
          /\ step' = "mocked"
       \/ receipt' = Missing /\ step' = "failed"
    /\ UNCHANGED <<chainVars, key, signature, lean>>

\* The flag decides; jq fails on what is no receipt, and the script with it.
CheckMocked ==
    /\ step = "mocked"
    /\ step' = IF receipt # Invalid /\ PrintsFalse(receipt) THEN "dsse" ELSE "failed"
    /\ UNCHANGED <<chainVars, key, receipt, signature, lean>>

\* A signature that is absent or does not verify is reported, not refused.
CheckSignature ==
    /\ step = "dsse"
    /\ signature' \in SigResults
    /\ step' = "lean"
    /\ UNCHANGED <<chainVars, key, receipt, lean>>

\* The status of the kernel is reported, whatever it is; only an answer that is
\* no JSON makes jq fail, and ends the script.
ProbeKernel ==
    /\ step = "lean"
    /\ \/ lean' \in {"ok", "unknown", "unreachable"} /\ step' = "summary"
       \/ step' = "failed" /\ UNCHANGED lean
    /\ UNCHANGED <<chainVars, key, receipt, signature>>

Summary ==
    /\ step = "summary"
    /\ step' = IF PrintsFalse(receipt) THEN "VERIFIED" ELSE "failed"
    /\ UNCHANGED <<chainVars, key, receipt, signature, lean>>

Script == FetchKey \/ FetchReceipt \/ CheckMocked \/ CheckSignature \/ ProbeKernel \/ Summary

Next == Script \/ (ChainNext /\ UNCHANGED scriptVars)

Spec == Init /\ [][Next]_vars

-----------------------------------------------------------------------------
(* Properties                                                              *)

\* The script never vouches for a run that is flagged as mocked, whenever the
\* run is published, edited or fetched meanwhile; without a key or a receipt it
\* vouches for nothing.
NeverVouchesForMocked ==
    step = "VERIFIED" => key # "none" /\ receipt \in LastReceipt /\ receipt.mocked # TRUE

\* The README's "Confirms the receipt carries mocked:false": a receipt that
\* carries it passes the check.
GenuineReceiptConfirmed ==
    step = "failed" /\ receipt \in LastReceipt => receipt.mocked # FALSE

=============================================================================
