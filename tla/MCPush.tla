------------------------------- MODULE MCPush -------------------------------
(* Two pushes of images that share their layer and a tag.                   *)
EXTENDS Push, TLC

CONSTANTS p1, p2, layer, config1, config2, m1, m2, tag

MCPushes == {p1, p2}
MCLayerOf == p1 :> layer @@ p2 :> layer
MCConfigOf == p1 :> config1 @@ p2 :> config2
MCManifestOf == p1 :> m1 @@ p2 :> m2
MCTagOf == p1 :> tag @@ p2 :> tag

\* Every registry, but that one that collects looks at the manifests it takes.
MCSettings ==
  {s \in [strict : BOOLEAN, reaps : BOOLEAN, grants : BOOLEAN, scoped : BOOLEAN] :
     s.reaps => s.strict}

=============================================================================
