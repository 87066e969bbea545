----------------------- MODULE MCConfigurationService -----------------------
(* ConfigurationService with the constants TLC uses.                       *)
EXTENDS ConfigurationService, TLC

CONSTANTS h1, h2, reconciler, northlake, campus, edge1, edge2, modern, basic

MCKeys      == {northlake, campus}
MCProfiles  == {modern, basic}
MCDefault   == [key |-> northlake, edge |-> edge1]
TwoHandlers == {h1, h2}
OneEdge     == {edge1}
TwoEdges    == {edge1, edge2}
OneProfile  == {modern}

Everything  == {"save", "apply", "overlay", "saveProfile", "applyProfile", "verify"}
SaveApply   == {"save", "apply"}

HandlerSymmetry == Permutations(TwoHandlers)
=============================================================================
