---------------------- MODULE MCDependentsController ----------------------
\* Every graph of N environments is validated.  Environments move in one: the
\* second waits for the first and the third for both.
EXTENDS DependentsController

MCExplored == {<<{}, {1}, {1, 2}>>}
=============================================================================
