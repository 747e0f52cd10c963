-------------------------- MODULE MCBrowserSession --------------------------
EXTENDS BrowserSession, TLC
MCExpiring == {FirstToken}
Symmetry == Permutations(Tabs) \cup Permutations(Calls)
=============================================================================
