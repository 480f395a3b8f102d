----------------------- MODULE MCBlockingCacheClient -----------------------
EXTENDS BlockingCacheClient
============================================================================
