----------------------- MODULE MCRestoreActiveCommit -----------------------
\* One environment whose branch took the first two of three hydrated commits,
\* each rendered from a dry commit of its own.
EXTENDS RestoreActiveCommit

MCRenders == <<1, 2, 3>>
=============================================================================
