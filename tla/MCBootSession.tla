---------------------------- MODULE MCBootSession ----------------------------
(***************************************************************************)
(* Two tabs; pia belongs to companies x and y and quinn to z.              *)
(***************************************************************************)
EXTENDS BootSession, TLC

CONSTANTS t1, t2, pia, quinn, x, y, z

MCCompanies == pia :> {x, y} @@ quinn :> {z}

LinkOfQuinn == t1 :> quinn @@ t2 :> Nobody

\* pia is signed in, and one tab was opened with a link of quinn's.
LinkInit == Init /\ session = pia /\ preference = Preference(pia, x)
LinkSpec == LinkInit /\ [][Next]_vars /\ Fairness

=============================================================================
