------------------------------- MODULE MCClock -------------------------------
EXTENDS RuntimeClock

(* 3 and 5 fall inside a second when there are two ticks to it             *)
EarlyAndLate == {3, 5}
OneLicense == {[expires |-> 5, ents |-> {3, 5}]}

(* One machine file ends by its license, one by its grace or the bound of  *)
(* the host; a token ends by its expiry                                    *)
TwoFiles == {
    [form |-> "machine", genuine |-> TRUE, iat |-> 1, nbf |-> 1, exp |-> 2, grace |-> 2, expires |-> 5, ents |-> {3}],
    [form |-> "machine", genuine |-> TRUE, iat |-> 1, nbf |-> 2, exp |-> 3, grace |-> 0, expires |-> 0, ents |-> {3, 5}]}
OneToken == {
    [form |-> "token", genuine |-> TRUE, iat |-> 1, nbf |-> 1, exp |-> 2, grace |-> 0, expires |-> 0, ents |-> {5}]}
=============================================================================
