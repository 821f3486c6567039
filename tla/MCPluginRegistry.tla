--------------------------- MODULE MCPluginRegistry ---------------------------
\* TLC's runs of PluginRegistry.
EXTENDS PluginRegistry, TLC

Symmetry == Permutations(Reloaders) \union Permutations(Revisions)
=============================================================================
