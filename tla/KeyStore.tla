------------------------------ MODULE KeyStore ------------------------------
(***************************************************************************)
(* What keyring.Backend promises its callers: a set of named private keys, *)
(* where a call that adds a key or removes one takes effect as a whole     *)
(* when it reports success, and a call that reads sees the effects of all  *)
(* the calls that have succeeded and of no others.  It promises nothing    *)
(* once the keys have been harmed.                                         *)
(***************************************************************************)
CONSTANTS Names, Keys

VARIABLES
    keys,   \* the stored keys: pairs of a name and a private key
    view,   \* what was last read
    harmed  \* has something happened that the backend does not withstand?

vars == <<keys, view, harmed>>

Named(S, n) == {e \in S : e[1] = n}

Init == keys = {} /\ view = {} /\ harmed = FALSE

Add(n, k) ==
    /\ Named(keys, n) = {}
    /\ keys' = keys \cup {<<n, k>>}
    /\ UNCHANGED <<view, harmed>>

Remove(n) ==
    /\ keys' = keys \ Named(keys, n)
    /\ UNCHANGED <<view, harmed>>

Look ==
    /\ view' = keys
    /\ UNCHANGED <<keys, harmed>>

(* Anything may become of the keys from here on. *)
Harm == harmed' = TRUE

Next ==
    \/ Harm
    \/ \E n \in Names, k \in Keys : Add(n, k)
    \/ \E n \in Names : Remove(n)
    \/ Look

Spec == Init /\ [][Next]_vars

=============================================================================
