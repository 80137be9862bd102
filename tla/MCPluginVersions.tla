-------------------------- MODULE MCPluginVersions --------------------------
(* PluginVersions on plugins that are model values. *)
EXTENDS PluginVersions, TLC

\* Plugins are alike.
Symmetry == Permutations(Plugins)
=============================================================================
