--------------------------- MODULE MCConstitution ---------------------------
(* Constitution with three honest keys and a dishonest one.  g rotates key a  *)
(* out and files c under its name, v3 files c under b's and brings a back; the *)
(* dishonest key offers versions of its own, which put it in charge.  x4 has  *)
(* the wrong number.                                                          *)
EXTENDS Constitution, TLC

CONSTANTS a, b, c, d

Trust(x, y, z, m) == [signers |-> [id \in {1, 2, 3} |-> <<x, y, z>>[id]], quorum |-> m]

\* name, version, previous, proposed trust, denied, needs approval
Documents == {
  <<"g",  1, None, Trust(c, b, d, 2), {"drop"}, {"send"}>>,
  <<"g'", 1, None, Trust(d, d, d, 1), {},       {}>>,
  <<"v2", 2, "g",  None,              {"drop"}, {"send", "drop"}>>,
  <<"w2", 2, "g",  Trust(d, d, d, 1), {},       {}>>,
  <<"v3", 3, "v2", Trust(a, c, d, 2), {},       {"drop"}>>,
  <<"w3", 3, "v2", Trust(d, d, d, 1), {},       {}>>,
  <<"w4", 4, "v3", Trust(d, d, d, 1), {},       {}>>,
  <<"x4", 5, "v3", None,              {},       {}>>}

MCConstitutions == {x[1] : x \in Documents}
Field(n) == [x \in MCConstitutions |-> (CHOOSE y \in Documents : y[1] = x)[n]]
MCVersion == Field(2)
MCPrevious == Field(3)
MCProposed == Field(4)
MCDenied == Field(5)
MCNeedsApproval == Field(6)
MCBootstrap == Trust(a, b, d, 2)

Symmetry == Permutations(Chains)
=============================================================================
