---------------------------- MODULE MCProverService -----------------------------
(***************************************************************************)
(* One configured provider, whose key set changes once and keeps the key   *)
(* "k", and one federated issuer.  With two workers and faults: a is       *)
(* honest, b too but signed with the key that comes with the change, c is  *)
(* honest and federated.  With one worker: c, a JWT that is not valid, and *)
(* inputs that exceed the circuit's.                                       *)
(***************************************************************************)
EXTENDS ProverService

CONSTANTS a, b, c, google, auth0

Local(kid, valid, derivable) ==
  [iss |-> google, kid |-> kid, valid |-> valid, derivable |-> derivable]

FromAuth0 == [iss |-> auth0, kid |-> "f", valid |-> TRUE, derivable |-> TRUE]

Honest ==
  [workers |-> 2, maxFaults |-> 2,
   input |-> [r \in Requests |-> CASE r = a -> Local("k", TRUE, TRUE)
                                   [] r = b -> Local("new", TRUE, TRUE)
                                   [] OTHER -> FromAuth0]]

Refused ==
  [workers |-> 1, maxFaults |-> 0,
   input |-> [r \in Requests |-> CASE r = a -> Local("k", FALSE, TRUE)
                                   [] r = b -> Local("k", TRUE, FALSE)
                                   [] OTHER -> FromAuth0]]

MCLoads == {Honest, Refused}

MCKeysAt ==
  [iss \in {google, auth0} |->
     [v \in 0 .. MaxVersion |->
        IF iss = auth0 THEN {"f"} ELSE IF v = 0 THEN {"k"} ELSE {"k", "new"}]]
================================================================================
