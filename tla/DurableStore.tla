---------------------------- MODULE DurableStore ----------------------------
(***************************************************************************)
(* What the metaserver promises about its metadata, whatever the log       *)
(* files, checkpoints, threads and restarts it uses to keep the promise:   *)
(* the metadata is one sequence of mutations; a restart may forget the     *)
(* newest ones, and only ones that no client has learnt of.                *)
(***************************************************************************)
EXTENDS Naturals, Sequences

CONSTANT Mutations   \* the mutations clients may ask for

VARIABLES store,     \* the mutations in effect, in the order they took effect
          known      \* the mutations some client has been told of

Stored == {store[i] : i \in DOMAIN store}

Init == store = <<>> /\ known = {}

\* A mutation takes effect; nobody knows of it yet.
Write == \E m \in Mutations \ Stored :
            store' = Append(store, m) /\ UNCHANGED known

\* A reply tells a client of mutations that are in effect.
Learn == \E S \in SUBSET Stored :
            known' = known \cup S /\ UNCHANGED store

\* A restart keeps a prefix, and all of what is known.
Recover == /\ \E n \in 0..Len(store) : store' = SubSeq(store, 1, n)
           /\ known \subseteq {store'[i] : i \in DOMAIN store'}
           /\ UNCHANGED known

Next == Write \/ Learn \/ Recover

Spec == Init /\ [][Next]_<<store, known>>
=============================================================================
