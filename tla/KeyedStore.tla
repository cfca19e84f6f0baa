----------------------------- MODULE KeyedStore -----------------------------
(***************************************************************************)
(* What the users of sigar_cache.c rely on: a store of one value per key,  *)
(* in which looking a key up creates it empty when it is missing, a value  *)
(* put under a key stays there, and only dropping the whole store forgets. *)
(***************************************************************************)
CONSTANTS Keys, Values, NoValue

VARIABLES store,    \* [a subset of Keys -> Values \cup {NoValue}]
          answer    \* the value found by the last lookup

Contents == UNION {[S -> Values \cup {NoValue}] : S \in SUBSET Keys}

Init == /\ store = [k \in {} |-> NoValue]
        /\ answer = NoValue

Lookup(k) == IF k \in DOMAIN store
             THEN /\ answer' = store[k]
                  /\ UNCHANGED store
             ELSE /\ answer' = NoValue
                  /\ store' = [j \in DOMAIN store \cup {k} |->
                                 IF j = k THEN NoValue ELSE store[j]]

Put(k, v) == /\ k \in DOMAIN store
             /\ store' = [store EXCEPT ![k] = v]
             /\ UNCHANGED answer

Drop == /\ store' = [k \in {} |-> NoValue]
        /\ answer' = NoValue

Next == \/ \E k \in Keys : Lookup(k)
        \/ \E k \in Keys, v \in Values : Put(k, v)
        \/ Drop

Spec == Init /\ [][Next]_<<store, answer>>
=============================================================================
