----------------------------- MODULE MCScnCache -----------------------------
(***************************************************************************)
(* Instances of ScnCache for TLC.                                          *)
(***************************************************************************)
EXTENDS ScnCache

CONSTANTS c1, c2, ready, off, s0, s1

MCScn(a, r, e, cs) == [attr |-> a, subRole |-> r, enabled |-> e,
                       components |-> cs]

\* No component, one and two; two states, two sub-roles; Enabled absent,
\* false and true.
MixedScns == {MCScn(ready, s0, "nil", <<c1>>),
              MCScn(ready, s1, "true", <<c2>>),
              MCScn(off, s1, "nil", <<c2, c1>>),
              MCScn(off, s0, "false", <<>>)}

\* State and Enabled changes arrive in SCNs of their own, as HSM sends them.
EnabledScns == {MCScn(NoAttr, s0, "false", <<c1>>),
                MCScn(NoAttr, s0, "true", <<c1>>),
                MCScn(ready, s0, "nil", <<c2>>)}

OneToThree == {1, 3}
OnlyThree == {3}
=============================================================================
