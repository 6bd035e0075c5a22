---------------------------- MODULE ProverLibrary -----------------------------
(***************************************************************************)
(* What rust-rapidsnark promises its caller (lib.rs): an object is made    *)
(* from a file that is a key by its headers, or the caller is told that it *)
(* cannot be read or used; an object that was made answers one request     *)
(* after another until it is dropped, with the reason why there is no proof*)
(* or with a proof.  The proof verifies if the files are whole.  They may  *)
(* have been cut off, and the caller is not told: then it may be anything. *)
(* Whatever else happens ends the process.                                 *)
(***************************************************************************)
CONSTANT Reasons     \* the errors a request may be answered with

VARIABLES
  good,      \* whether the file is a key for this curve, by its headers
  status,
  request,   \* "none", or whether the files it is worked out from are "whole" or "cut"
  answer

vars == <<good, status, request, answer>>

Init == good \in BOOLEAN /\ status = "loading" /\ request = "none" /\ answer = "none"

Made == status = "loading" /\ good /\ status' = "ready" /\ UNCHANGED <<request, answer>>

Refused ==
  /\ status = "loading"
  /\ \/ status' = "ZKeyFileLoadError"
     \/ ~good /\ status' = "UnsupportedZKeyCurve"
  /\ UNCHANGED <<request, answer>>

Asked == /\ status = "ready" /\ request = "none" /\ request' \in {"whole", "cut"}
         /\ UNCHANGED <<status, answer>>

Answer == /\ status = "ready" /\ request # "none" /\ answer = "none"
          /\ answer' \in Reasons \cup {IF request = "whole" THEN "verified" ELSE "unspecified"}
          /\ UNCHANGED <<status, request>>

Taken == /\ answer # "none" /\ answer' = "none" /\ request' = "none"
         /\ UNCHANGED status

Dropped == /\ status \notin {"loading", "dropped", "ended"} /\ request = "none"
           /\ status' = "dropped" /\ UNCHANGED <<request, answer>>

Ended == /\ status \in {"loading", "ready"} /\ answer = "none"
         /\ status' = "ended" /\ request' = "none" /\ UNCHANGED answer

Next ==
  /\ Made \/ Refused \/ Asked \/ Answer \/ Taken \/ Dropped \/ Ended
  /\ UNCHANGED good

Spec == Init /\ [][Next]_vars
================================================================================
