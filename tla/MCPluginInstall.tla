-------------------------- MODULE MCPluginInstall --------------------------
(* Instances of PluginInstall for TLC.                                     *)
EXTENDS PluginInstall, TLC

CONSTANTS i1, i2, g1, g2, v1, v2, n1, n2

Two == {i1, i2}
BothPlugins == {g1, g2}
TwoPlugins == <<g1, g2>>
Revisions == {v1, v2}
Names == {n1, n2}

\* A clean checkout with other line endings, one whose manifest has them too
\* and with an ignored file, and an edited one with a manifest for it.
Checkout(t, h, w, g, c) == [tree |-> t, head |-> h, wanted |-> w, ignored |-> g, clean |-> c]
SomeCheckouts ==
  {Checkout(<<v1, "crlf">>, v1, <<v1, "lf">>, FALSE, TRUE),
   Checkout(<<v1, "crlf">>, v1, <<v1, "crlf">>, TRUE, TRUE),
   Checkout(<<v2, "lf">>, v1, <<v2, "lf">>, FALSE, FALSE)}

\* Installers and names may be exchanged.
InstallSymmetry == Permutations(Installer) \cup Permutations(Name)
=============================================================================
