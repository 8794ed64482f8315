---------------------------- MODULE OrderedRelay ----------------------------
(***************************************************************************)
(* What the SCN batching stage of hmnfd promises its two sides: the items  *)
(* the producer hands in (one per changed component, with the attributes   *)
(* that select subscribers) come out at the consumer in the same order,    *)
(* none missing, none twice, in groups of any size.  (That each one does   *)
(* come out is a property of ScnCache.)                                    *)
(***************************************************************************)
EXTENDS Naturals, Sequences, SequencesExt

CONSTANT Element

VARIABLES
    accepted,   \* items the stage has acknowledged, in order
    delivered   \* items the consumer has taken, in order

relayVars == <<accepted, delivered>>

RelayInit == accepted = <<>> /\ delivered = <<>>

\* A group of items is taken in; an empty group changes nothing.
Accept == /\ IsStrictPrefix(accepted, accepted')
          /\ Range(accepted') \subseteq Element
          /\ UNCHANGED delivered

\* The consumer takes the next group: some more of what was accepted.
Deliver == /\ IsStrictPrefix(delivered, delivered')
           /\ IsPrefix(delivered', accepted)
           /\ UNCHANGED accepted

RelayNext == Accept \/ Deliver

RelaySafety == RelayInit /\ [][RelayNext]_relayVars
=============================================================================
