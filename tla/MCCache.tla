------------------------------- MODULE MCCache -------------------------------
EXTENDS CacheFiles, TLC

AnyOrigin == AllOrigins
GenericOnly == {"generic"}
=============================================================================
