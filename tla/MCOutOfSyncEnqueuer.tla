------------------------ MODULE MCOutOfSyncEnqueuer ------------------------
EXTENDS OutOfSyncEnqueuer
=============================================================================
