------------------------ MODULE MCRepositorySecrets ------------------------
EXTENDS RepositorySecrets, TLC
=============================================================================
